SPECIFICATION MCSpec
CONSTANTS
  os = os
  vcd = vcd
  onos = onos
  m1 = m1
  m2 = m2
  m3 = m3
  Vim = {os, vcd}
  Sdnc = {onos}
  Machine = {m1, m2, m3}
  VimType <- TheTypes
  HostOf <- TheHosts
  Recorded <- TheRecorded
  Missing <- NoBlockStorage
  Unmapped = {m3}
  Limit = {0, 1}
  MaxEvents = 2
INVARIANTS
  TypeOK
PROPERTIES
  StatusFollows
  ResourcesFollow
