SPECIFICATION FairSpec
CONSTANTS
  a1 = a1
  a2 = a2
  Alarm <- OneAlarm
  Operation <- AllGt
  Unreadable = {}
  Slot = {1, 2, 3}
  MaxFaults <- EachFaultOnce
  Together <- LateOrFailing
INVARIANTS
  TypeOK
  PublishedBeforeStored
  StaleVerdictsBounded
  OutstandingBounded
  Agreement
PROPERTIES
  NeverResurrected
  Converges
