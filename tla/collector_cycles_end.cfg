SPECIFICATION FairSpec
CONSTANTS
  v1 = v1
  v2 = v2
  f1 = f1
  f2 = f2
  s1 = s1
  Vim <- OneVim
  Vnf <- OneVnf
  Sdnc <- OneSdnc
  VimType <- AllOpenstack
  VimOf <- AllOnV1
  PoolSize = 2
  MaxFaults <- EachFaultOnce
  Together <- AilAndDb
PROPERTIES
  CyclesEnd
