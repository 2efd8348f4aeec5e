SPECIFICATION Spec
CONSTANTS
  QUEUE = 1
  ODR_WINDOW = 2
  NOMINAL = 5
  Periods = {4, 5}
  BAND = 0
  IMU_ODR_HZ = 2
  RATES = {1, 2}
  Requests = {0, 3}
  WARMUP = 1
  SHOCK_MAX = 1
  GAP_MIN = 2
  GAP_MAX = 3
  REFRACTORY = 5
  TAP_HOLD = 0
  IDENTIFY_TICKS = 2
  TAP_TICKS = 1
  WINDOW = 0
  LISTEN_PERIOD = 0
  Gaps = {5}
  MaxStandbys = 1
  MaxLost = 1
  MaxCommands = 1
INVARIANTS
  RateTrueUnlessGap
  SendsOnTime
PROPERTY
  TapPairs
CHECK_DEADLOCK FALSE
