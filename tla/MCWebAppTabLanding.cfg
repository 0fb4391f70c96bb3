\* A body that is still being read when the user navigates.
SPECIFICATION Spec
CONSTANTS
  Refs = {r1, r2}
  NoRef = NoRef
  Slots = {1, 2}
  MaxVersion = 2
  MaxMoves = 3
  MaxFaults = 0
  Prompt = TRUE
CHECK_DEADLOCK FALSE
PROPERTY InFlightDiscarded
