SPECIFICATION Spec
CONSTANTS
  COARSE = 2
  REST_MIN = 2
  SUSTAIN = 2
  BAD_RUN = 2
  MAX_BIAS = 2
  MaxResets = 1
  MaxStandbys = 1
INVARIANTS
  ResetForgets
  RestEarned
  ClampHolds
CHECK_DEADLOCK FALSE
