SPECIFICATION FairSpec
CONSTANTS
  rx_thread = rx_thread
  sysworkq = sysworkq
  Producers = {rx_thread}
  Lens = {2}
  RING_SIZE = 7
  CDC_SIZE = 2
  MaxFrames = 2
  MaxDrops = 1
  MaxBusEvents = 1
PROPERTY
  UpMeansConfigured
CHECK_DEADLOCK FALSE
