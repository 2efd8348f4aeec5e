SPECIFICATION Spec
CONSTANTS
  QUEUE = 1
  ODR_WINDOW = 2
  NOMINAL = 5
  Periods = {4, 5}
  BAND = 0
  IMU_ODR_HZ = 2
  RATES = {1, 2}
  Requests = {0, 3}
  WARMUP = 1
  SHOCK_MAX = 1
  GAP_MIN = 2
  GAP_MAX = 3
  REFRACTORY = 5
  TAP_HOLD = 2
  IDENTIFY_TICKS = 3
  TAP_TICKS = 1
  WINDOW = 1
  LISTEN_PERIOD = 2
  Gaps = {5}
  MaxStandbys = 1
  MaxLost = 0
  MaxCommands = 1
INVARIANT CorrectedIsTrue
CHECK_DEADLOCK FALSE
