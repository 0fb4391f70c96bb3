\* Nothing fails, but GitHub takes a moment to settle.
SPECIFICATION Spec
CONSTANTS
  c1 = c1
  c2 = c2
  x1 = x1
  a1 = a1
  a2 = a2
  n1 = n1
  NoRepo = NoRepo
  Clients = {c1}
  Repos = {x1}
  Apps = {a1}
  Namespaces = {n1}
  RepoOf <- SameRepo
  AppOf <- SameApp
  NamespaceOf <- OneNamespace
  CreatedAs <- AsAsked
  Valid = {c1}
  OtherTopics = {}
  InitTrees = {"absent"}
  Attempts = 3
  FaultySteps <- NoSteps
  MaxFaults = 0
  MaxEdits = 0
PROPERTY SettlingIsRetried
