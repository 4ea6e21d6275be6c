SPECIFICATION BusyFairSpec
CONSTANTS
  CPU = {c1}
  NPROC = 5
  MAXPID = 5
  Workload = {}
  WARM_TEMP = 60
  HOT_TEMP = 80
  THROTTLE_TEMP = 90
  TEMP_START = 25
  TEMP_LOW = 20
  TEMP_HIGH = 100
  FAST_COOLING = 50
  HEAT_INCREMENT = 10
  HEAT_DECAY = 2
  MAX_HEAT = 100
  HEAT_COOL_THRESH = 30
  HEAT_WARM_THRESH = 60
  HEAT_STEP = 30
  STARVE_TICKS = 5
PROPERTIES
  NoStarvation
