SPECIFICATION Spec
CONSTANTS
  h1 = h1
  h2 = h2
  h3 = h3
  TrackerIds = {h1, h2, h3}
  HTK_ID_INVALID = invalid
  TRACKERS_MAX = 2
  EVICT_SILENT = 1
  LIVE_WINDOW = 1
  LINK_UP_WINDOW = 1
  TICK_PERIOD = 1
  SEQ_MOD = 8
  UINT16_LIMIT = 2
  TstatusModes = {2}
  FirstSample = 6
  MaxTime = 5
  MaxDelay = 1
  MaxPackets = 3
  MaxBoots = 1
SYMMETRY HeadSymmetry
INVARIANTS
  TypeOK
  UniqueIds
  LossExact
  RatesCovered
  SilentDropped
PROPERTIES
  NoLiveDisplaced
CHECK_DEADLOCK FALSE
