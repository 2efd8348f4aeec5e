SPECIFICATION FairSpec
CONSTANTS
  rx_thread = rx_thread
  sysworkq = sysworkq
  Producers = {rx_thread, sysworkq}
  Lens = {2, 3}
  RING_SIZE = 7
  CDC_SIZE = 2
  MaxFrames = 4
  MaxDrops = 1
  MaxBusEvents = 2
INVARIANT
  WholeFrames
PROPERTIES
  InOrderOnce
  AllDelivered
CHECK_DEADLOCK FALSE
