SPECIFICATION Spec
CONSTANTS
  Writers = {w1, w2}
  Readers = {r1}
  PIPESIZE = 2
  UINT = 4
  MAXN = 2
  MAXBYTES = 5
  SHAREDBYTES = 2
SYMMETRY Symmetry
ACTION_CONSTRAINT Workload
INVARIANTS
  TypeOK
  PipeMutex
  CallsEndBeforeFree
  FreedSafely
  NoOverrun
PROPERTIES
  ImplementsByteQueue
CHECK_DEADLOCK FALSE
