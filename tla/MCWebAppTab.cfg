\* Two linked entities and one without a link; answers within the interval.
SPECIFICATION FairSpec
CONSTANTS
  Refs = {r1, r2}
  NoRef = NoRef
  Slots = {1, 2}
  MaxVersion = 2
  MaxMoves = 3
  MaxFaults = 1
  Prompt = TRUE
CHECK_DEADLOCK FALSE
INVARIANT TypeOK
PROPERTIES NoLateFailure CatchesUp
