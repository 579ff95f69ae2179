CONSTANTS
  underrun = underrun
  overrun = overrun
  SlotCount = 4
  CounterBits = 2
  Events <- MCEvents
SPECIFICATION Spec
INVARIANTS
  TypeOK
  NoSlotRace
  CountersAgree
PROPERTY ImplementsQueue
