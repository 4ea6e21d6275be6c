SPECIFICATION Spec
CONSTANTS
  Writers = {w1}
  Readers = {r1}
  PIPESIZE = 2
  UINT = 4
  MAXN = 1
  MAXBYTES = 2
  SHAREDBYTES = 0
INVARIANT SleepDoesNotPanic
CHECK_DEADLOCK FALSE
