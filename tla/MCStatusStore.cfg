\* One application, changed, deleted and applied again, and a restart.
SPECIFICATION FairSpec
CONSTANTS
  Apps = {a1}
  Selections = {{a1}}
  MaxChanges = 4
  MaxCrashes = 1
INVARIANTS TypeOK NoMixedIncarnations KnownWhenReady
PROPERTY EventuallyRight
