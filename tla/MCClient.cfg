SPECIFICATION FairSpec
CONSTANTS
  i1 = i1
  Ids = {i1}
  HELLO_PERIOD = 1
  HELLO_MAX = 2
  HELLO_DEADLINE = 3
  PROBE_DEADLINE = 2
  SWEEP_PERIOD = 2
  STATUS_PERIOD = 1
  no_data_watchdog_ms = 2
  reconnect_ms = 1
  reconnect_max_ms = 2
  tracker_expiry_ms = 2
  promote_after_orients = 2
  COUNT_MAX = 3
  MaxWire = 2
  MaxStarts = 1
  MaxFaults = 2
INVARIANTS
  HelloCallbackLive
  VerdictIsTrue
  ListIsTrue
  StopPrompt
  SilenceDetected
PROPERTY
  Reconnects
CHECK_DEADLOCK FALSE
