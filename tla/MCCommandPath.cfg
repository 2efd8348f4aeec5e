SPECIFICATION FairSpec
CONSTANTS
  MAX_PAYLOAD = 5
  MAX_FRAME = 12
  MAX_CODE = 4
  Threads = {a}
  Reader = r
  None = none
  Commands <- MCCommands
  WIRE = 3
  FIFO = 3
  RING = 4
  Probes = {0, 1, 255}
  MaxCalls = 2
  MaxEvents = 1
INVARIANTS
  CodecExact
  DamageDetected
PROPERTIES
  CommandsInOrder
  Dispatched
CHECK_DEADLOCK FALSE
