\* Two requests at a time, two repositories on pages of one.
SPECIFICATION FairSpec
CONSTANTS
  Clients = {c1, c2}
  Names = {1, 2}
  PageSize = 1
  TTL = 2
  NoClient = NoClient
  MaxFaults = 1
  MaxEdits = 2
INVARIANT TypeOK
PROPERTIES OnePassPerTTL PassIsComplete Answered CatchesUp
