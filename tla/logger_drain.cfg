CONSTANTS
  l1 = l1
  l2 = l2
  underrun = underrun
  Loggers <- MCOneLogger
  Configurations <- MCConfigurations
  LineSizes <- MCLineSizes
  CounterBits = 0
  Events <- MCEvents
  Capacity = 1
  MaxUnmeasured = 0
SPECIFICATION FairSpec
PROPERTY PeriodicDrain
