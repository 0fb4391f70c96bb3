\* One form that is submitted until it is done, and one that is invalid; every kind of failure, and people at work.
SPECIFICATION FairSpec
CONSTANTS
  c1 = c1
  c2 = c2
  x1 = x1
  a1 = a1
  a2 = a2
  n1 = n1
  n2 = n2
  NoApp = NoApp
  NoRepo = NoRepo
  Clients = {c1, c2}
  Repos = {x1}
  Apps = {a1, a2}
  Namespaces = {n1, n2}
  RepoOf <- SameRepo
  AppOf <- SameApp
  NamespaceOf <- TwoNamespaces
  CreatedAs <- AsAsked
  Valid = {c1}
  OtherTopics = {"team"}
  InitTrees = {"absent", "none", "foreign", "marked"}
  Attempts = 3
  FaultySteps <- AllSteps
  MaxUnread = 1
  MaxFaults = 3
  MaxEdits = 2
INVARIANTS PlatformTypeOK OutcomeTruthful ManagedMeansRunning
PROPERTIES WorkSurvives TopicsSurvive EventuallyDone
