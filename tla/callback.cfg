CONSTANTS
  Formats <- MCFormats
  FrameCounts <- MCFrameCounts
  SizeBits = 5
  MaxCalls = 4
  Durations <- MCDurations
  Observations <- MCObservations
  MaxRecords = 4
  MaxSamples = 4
  MaxOperations = 4
SPECIFICATION Spec
INVARIANTS
  TypeOK
  CopiesAgreedFrames
  SnapshotCoversCount
  SameInterval
