CONSTANTS
  IndexBits = 2
  Capacities <- MCCapacities
  FrameCounts <- MCFrameCounts
  MaxFrames = 4
SPECIFICATION SpecMonitor
INVARIANT SnapshotWithinCapacity
