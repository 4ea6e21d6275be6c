SPECIFICATION TestSpec
CONSTANTS
  CPU = {c1}
  NPROC = 4
  MAXPID = 6
  Workload = {"sleep", "wakeup", "exit", "exec", "fork", "wait"}
  WARM_TEMP = 1
  HOT_TEMP = 2
  THROTTLE_TEMP = 3
  TEMP_START = 0
  TEMP_LOW = 0
  TEMP_HIGH = 3
  FAST_COOLING = 2
  HEAT_INCREMENT = 2
  HEAT_DECAY = 1
  MAX_HEAT = 2
  HEAT_COOL_THRESH = 1
  HEAT_WARM_THRESH = 2
  HEAT_STEP = 2
  STARVE_TICKS = 1
INVARIANTS
  GateHolds
  SelectionOrder
