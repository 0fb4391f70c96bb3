\* One process of either service, two requests; a process that has exited does nothing more.
SPECIFICATION FairSpec
CONSTANTS
  Requests = {r1, r2}
  Grace = 2
INVARIANTS TypeOK CleanExit
PROPERTIES GraceIsGiven Ends
CHECK_DEADLOCK FALSE
