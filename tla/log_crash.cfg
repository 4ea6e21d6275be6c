SPECIFICATION MCSpec
CONSTANTS
  p1 = p1
  p2 = p2
  b1 = b1
  b2 = b2
  b3 = b3
  b4 = b4
  Proc <- MCProc
  Block <- MCBlock
  Val = {0, 1}
  None = None
  Torn = Torn
  MAXOPBLOCKS = 2
  OPBLOCKS = 1
  LOGBLOCKS = 4
ACTION_CONSTRAINT Workload
INVARIANTS
  TypeOK
  NoPanic
  QuietIsDurable
PROPERTIES
  ImplementsAtomicDisk
  BeginWakes
