\* Nothing fails; a team deploys settings of its own, and the form is submitted again.
SPECIFICATION PlatformSpec
CONSTANTS
  c1 = c1
  c2 = c2
  x1 = x1
  a1 = a1
  a2 = a2
  n1 = n1
  n2 = n2
  NoApp = NoApp
  NoRepo = NoRepo
  Clients = {c1}
  Repos = {x1}
  Apps = {a1, a2}
  Namespaces = {n1, n2}
  RepoOf <- SameRepo
  AppOf <- SameApp
  NamespaceOf <- TwoNamespaces
  CreatedAs <- AsAsked
  Valid = {c1}
  OtherTopics = {}
  InitTrees = {"absent"}
  Attempts = 3
  FaultySteps <- NoSteps
  MaxUnread = 0
  MaxFaults = 0
  MaxEdits = 0
PROPERTY NoSilentOverwrite
