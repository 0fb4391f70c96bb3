\* Two overlapping requests for one repository, and somebody who starts working on it.
SPECIFICATION Spec
CONSTANTS
  c1 = c1
  c2 = c2
  x1 = x1
  a1 = a1
  a2 = a2
  n1 = n1
  NoRepo = NoRepo
  Clients = {c1, c2}
  Repos = {x1}
  Apps = {a1}
  Namespaces = {n1}
  RepoOf <- SameRepo
  AppOf <- SameApp
  NamespaceOf <- OneNamespace
  CreatedAs <- AsAsked
  Valid = {c1, c2}
  OtherTopics = {}
  InitTrees = {"absent"}
  Attempts = 3
  FaultySteps <- NoSteps
  MaxFaults = 0
  MaxEdits = 1
PROPERTY WorkSurvives
