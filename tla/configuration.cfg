CONSTANTS
  Lines <- MCLines
  Trimmed <- MCTrimmed
  Numbers <- MCNumbers
  Beginnings <- MCBeginnings
  ControlZ <- MCControlZ
  SizeLimit = 2
  MaxLines = 3
  MaxEdits = 2
SPECIFICATION Spec
INVARIANTS
  TypeOK
  ParsesToMeaning
  LoadsWholeFile
  RoundTrip
CHECK_DEADLOCK FALSE
