SPECIFICATION HSpec
CONSTANTS
  CPU = {c1, c2}
  NPROC = 3
  MAXPID = 3
  Workload = {"fork", "exec", "exit", "sleep", "wakeup", "wait"}
  WARM_TEMP = 2
  HOT_TEMP = 2
  THROTTLE_TEMP = 1
  TEMP_START = 0
  TEMP_LOW = 0
  TEMP_HIGH = 1
  FAST_COOLING = 2
  HEAT_INCREMENT = 1
  HEAT_DECAY = 1
  MAX_HEAT = 1
  HEAT_COOL_THRESH = 2
  HEAT_WARM_THRESH = 2
  HEAT_STEP = 2
  STARVE_TICKS = 0
SYMMETRY Symmetry
INVARIANTS
  TypeOK
  OneCpuPerProcess
  RunningIsOnCpu
  SummaryAtEnd
PROPERTIES
  ImplementsCpuAlloc
  OneRunPerThrottle
