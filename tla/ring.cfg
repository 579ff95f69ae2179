CONSTANTS
  IndexBits = 2
  Capacities <- MCCapacities
  FrameCounts <- MCFrameCounts
  MaxFrames = 6
SPECIFICATION SpecSnapshots
INVARIANTS
  TypeOK
  WindowOrdered
  NoDataRace
  MetricsAccount
  SnapshotsAreSafe
PROPERTIES
  ImplementsFifo
  WorkersCanRely
