SPECIFICATION FairSpec
CONSTANTS
  h1 = h1
  h2 = h2
  d1 = d1
  d2 = d2
  Heads = {h1}
  Dongles = {d1}
  BEACON_PERIOD = 2
  BEACON_CMD_REPEATS = 7
  LISTEN_WINDOW = 3
  LISTEN_PERIOD_ACTIVE = 3
  LISTEN_PERIOD_STANDBY = 5
  STANDBY_AFTER = 12
  BEACONQ_DEPTH = 4
  MaxCommands = 2
  MaxFaults = 2
  MaxPowerCycles = 2
INVARIANTS
  StandbyMeansAlone
  CommandDelivered
  InOrder
PROPERTY
  PresenceDecides
CHECK_DEADLOCK FALSE
