SPECIFICATION MCSpec
CONSTANTS
  p1 = p1
  p2 = p2
  c1 = c1
  n1 = n1
  n2 = n2
  Project <- TwoProjects
  Cluster <- OneCluster
  Ns <- TwoNss
  ProjectOf <- OwnProject
  NameOf <- PlainAndAdmin
  Monitored <- TwoNss
  Keystone = FALSE
  FaultKind = {"db", "grafana", "crash"}
  MaxFaults = 1
INVARIANTS
  TypeOK
  InOwnFolder
  SourceFirst
PROPERTIES
  InUseKept
  Mirrors
