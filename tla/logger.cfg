CONSTANTS
  l1 = l1
  l2 = l2
  underrun = underrun
  Loggers <- MCLoggers
  Configurations <- MCConfigurations
  LineSizes <- MCLineSizes
  CounterBits = 1
  Events <- MCEvents
  Capacity = 1
  MaxUnmeasured = 1
SPECIFICATION FairSpec
INVARIANTS
  TypeOK
  RecordsConserved
  DrainedWhenDone
  StartFindsNoThread
PROPERTIES
  
  StopReturns
  PendingIsTaken
