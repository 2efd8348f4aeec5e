SPECIFICATION Spec
CONSTANTS
  QUEUE = 1
  ODR_WINDOW = 1
  NOMINAL = 30
  Periods = {1}
  BAND = 29
  IMU_ODR_HZ = 2
  RATES = {1, 2}
  Requests = {0, 3}
  WARMUP = 1
  SHOCK_MAX = 0
  GAP_MIN = 1
  GAP_MAX = 1
  REFRACTORY = 29
  TAP_HOLD = 14
  IDENTIFY_TICKS = 1
  TAP_TICKS = 0
  WINDOW = 1
  LISTEN_PERIOD = 14
  Gaps = {29}
  MaxStandbys = 1
  MaxLost = 1
  MaxCommands = 1
INVARIANT
  TapsSignalled
CHECK_DEADLOCK FALSE
