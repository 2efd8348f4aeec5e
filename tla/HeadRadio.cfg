SPECIFICATION FairRadioSpec
CONSTANTS
  SEQ_MOD = 3
  TX_FIFO = 2
  MaxFaults = 3
INVARIANTS
  FlagTruthful
  WriteFindsUplink
PROPERTIES
  ListensForever
  StreamResumes
