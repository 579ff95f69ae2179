CONSTANTS
  d1 = d1
  d2 = d2
  d3 = d3
  None = None
  Devices <- MCDevices
  Extensible <- MCExtensible
SPECIFICATION Spec
INVARIANTS
  TypeOK
  PrintsCollection
  EntriesOfOneDevice
  ReleasedInApartment
CHECK_DEADLOCK FALSE
