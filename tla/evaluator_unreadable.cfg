SPECIFICATION FairSpec
CONSTANTS
  a1 = a1
  a2 = a2
  Alarm <- TwoAlarms
  Operation <- GtAndLt
  Unreadable = {a2}
  Slot = {1}
  MaxFaults <- EachFaultOnce
  Together = {}
PROPERTIES
  EachEvaluated
