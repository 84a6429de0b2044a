SPECIFICATION Spec
CONSTANTS
  n1 = n1
  n2 = n2
  a = a
  b = b
  c = c
  i1 = i1
  i2 = i2
  i3 = i3
  Vnf = {n1, n2}
  Vdu = {a, b, c}
  Interface = {i1, i2, i3}
  VdursOf <- TheVdurs
  ParamsOf <- TheParams
  InterfacesOf <- TheInterfaces
  Account = {"rocky", "older", "prometheus", "ceilometer"}
  Mapped = {"packets", "dropped", "disk", "memory", "cpu"}
  PrometheusMap = {"packets", "dropped", "disk", "memory", "cpu"}
  Busy = {a}
  MaxClock = 3
  MaxCycles <- EnoughCycles
  MaxFaults = 1
INVARIANTS
  TypeOK
  CountedOnce
  AllSampled
PROPERTIES
  RawOnlyAtFirst
CHECK_DEADLOCK FALSE
