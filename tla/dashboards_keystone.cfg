SPECIFICATION Spec
CONSTANTS
  p1 = p1
  p2 = p2
  c1 = c1
  n1 = n1
  n2 = n2
  Project <- TwoProjects
  Cluster <- NoCluster
  Ns <- OneNs
  ProjectOf <- OwnProject
  NameOf <- PlainAndAdmin
  Monitored <- OneNs
  Keystone = TRUE
  FaultKind = {"keystone"}
  MaxFaults = 1
PROPERTIES
  OnlyObsoleteDeleted
