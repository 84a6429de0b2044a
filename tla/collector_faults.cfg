SPECIFICATION FairSpec
CONSTANTS
  v1 = v1
  v2 = v2
  f1 = f1
  f2 = f2
  s1 = s1
  Vim <- TwoVims
  Vnf <- OneVnf
  Sdnc <- NoSdnc
  VimType <- OpenstackAndVmware
  VimOf <- AllOnV1
  PoolSize = 2
  MaxFaults <- EachFaultOnce
  Together <- SickTargetOrPool
INVARIANTS
  TypeOK
  SessionsInPlace
  NoStragglers
PROPERTIES
  WholeOrNothing
  HealthyExported
