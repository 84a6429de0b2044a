SPECIFICATION Spec
CONSTANTS
  MaxRequests = 2
  MaxUuids = 4
  MaxFaults <- OneCrash
  Together <- AnyTwo
INVARIANTS
  DeletePerformed
\* The clients stop sending after MaxRequests.
CHECK_DEADLOCK FALSE
