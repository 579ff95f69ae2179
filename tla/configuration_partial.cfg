CONSTANTS
  Lines <- MCLines
  Trimmed <- MCTrimmed
  Numbers <- MCNumbers
  Beginnings <- MCBeginnings
  ControlZ <- MCNoControlZ
  SizeLimit = 2
  MaxLines = 3
  MaxEdits = 0
SPECIFICATION Spec
INVARIANT AllOrNothing
CHECK_DEADLOCK FALSE
