CONSTANTS
  RingCapacity = 4
  PacketSizes = {1, 3}
  DevicePackets = 2
  CounterBits = 1
  EventCapacity = 2
SPECIFICATION FairSpec
INVARIANTS
  TypeOK
  ResourcesReturned
  OverrunsReported
PROPERTIES
  ShutdownWins
  ShutdownExits
  LossExits
CHECK_DEADLOCK FALSE
