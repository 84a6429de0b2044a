SPECIFICATION FairSpec
CONSTANTS
  u1 = u1
  p1 = p1
  p2 = p2
  User <- OneUser
  Project <- TwoProjects
  Name = {"admin", "x", "y"}
  InitialNames <- AdminOrX
  MaxEvents = 3
  MaxFaults = 1
INVARIANTS
  TypeOK
  TeamsMirrored
  EventsApplied
PROPERTIES
  CleanupSpares
  GoneUsersRemoved
CHECK_DEADLOCK FALSE
