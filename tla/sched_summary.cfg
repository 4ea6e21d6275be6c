SPECIFICATION Spec
CONSTANTS
  CPU = {c1, c2}
  NPROC = 3
  MAXPID = 3
  Workload = {"fork", "exec", "exit", "wait"}
  WARM_TEMP = 1
  HOT_TEMP = 1
  THROTTLE_TEMP = 1
  TEMP_START = 0
  TEMP_LOW = 0
  TEMP_HIGH = 0
  FAST_COOLING = 0
  HEAT_INCREMENT = 0
  HEAT_DECAY = 0
  MAX_HEAT = 0
  HEAT_COOL_THRESH = 1
  HEAT_WARM_THRESH = 1
  HEAT_STEP = 1
  STARVE_TICKS = 0
INVARIANT SummaryOncePerRun
