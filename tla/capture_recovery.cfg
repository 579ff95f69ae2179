CONSTANTS
  RingCapacity = 4
  PacketSizes = {1, 3}
  DevicePackets = 2
  CounterBits = 1
  EventCapacity = 2
SPECIFICATION Spec
INVARIANT RecoveryRequested
CHECK_DEADLOCK FALSE
