\* A check of one repository fails after a result has been stored.
SPECIFICATION Spec
CONSTANTS
  Clients = {c1}
  Names = {1}
  PageSize = 1
  TTL = 1
  NoClient = NoClient
  MaxFaults = 1
  MaxEdits = 0
PROPERTY OutageServesStale
