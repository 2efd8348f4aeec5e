SPECIFICATION FairSpec
CONSTANTS
  GAP_MAX = 2
  T_WRAP = 4
  TAP_HOLD = 2
  refractory_s = 3
  min_worn_s = 3
  settle_timeout_s = 3
  worn_hold_s = 3
  off_hold_s = 3
  warmup_s = 1
  k1 = k1
  Kinds = {k1}
INVARIANT
  RequestsKept
PROPERTIES
  TapsSpaced
  NeedsWearer
  TapRecenters
