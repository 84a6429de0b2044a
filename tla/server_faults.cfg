SPECIFICATION FairSpec
CONSTANTS
  MaxRequests = 3
  MaxUuids = 9
  MaxFaults <- EachFaultOnce
  Together <- AnyTwo
INVARIANTS
  TypeOK
  AcknowledgedStored
  DeletedForGood
  StoresAgree
  GhostsBounded
  OncePerStart
  RepliesInOrder
  CommittedExecuted
PROPERTIES
  AbstractSpec
  Answered
  CatchesUp
\* The clients stop sending after MaxRequests.
CHECK_DEADLOCK FALSE
