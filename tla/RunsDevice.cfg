SPECIFICATION Spec
CONSTANTS
  MaxSteps = 1
  MaxInvocations = 2
  MaxRetries = 0
  HasDevice = TRUE
  Watched = TRUE
  UserMoves <- Shelves
  MaxFaults = 1
CHECK_DEADLOCK FALSE
INVARIANTS AnnouncedOnce
