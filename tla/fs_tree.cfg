SPECIFICATION Spec
CONSTANTS
  p1 = p1
  p2 = p2
  Proc = {p1, p2}
  Name = {"a", "b"}
  GROUP = 3
  ROOT = root
  Inum = {root, i2, i3, i4}
  NINODE = 3
  Calls <- TreeCalls
  None = None
SYMMETRY Symmetry
ACTION_CONSTRAINT Grouped
INVARIANTS TypeOK NoPanic EntryCurrent NoDangling
PROPERTIES OpenFileKeeps BootReclaims
