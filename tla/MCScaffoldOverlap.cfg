\* Two callers send the same request at the same time.
SPECIFICATION Spec
CONSTANTS
  c1 = c1
  c2 = c2
  x1 = x1
  a1 = a1
  a2 = a2
  n1 = n1
  NoRepo = NoRepo
  Clients = {c1, c2}
  Repos = {x1}
  Apps = {a1}
  Namespaces = {n1}
  RepoOf <- SameRepo
  AppOf <- SameApp
  NamespaceOf <- OneNamespace
  CreatedAs <- AsAsked
  Valid = {c1, c2}
  OtherTopics = {"team"}
  InitTrees = {"absent", "none"}
  Attempts = 2
  FaultySteps <- WorkSteps
  MaxFaults = 2
  MaxEdits = 1
INVARIANTS TypeOK
  AppHasRepository ManagedMeansRunning ResponseTruthful MarkersSettle
  RaceIsNotAFailure
PROPERTY PromiseKept
