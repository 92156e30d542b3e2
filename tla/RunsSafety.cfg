SPECIFICATION FairSpec
CONSTANTS
  MaxSteps = 2
  MaxInvocations = 2
  MaxRetries = 1
  HasDevice = FALSE
  Watched = FALSE
  UserMoves <- Pauses
  MaxFaults = 1
CHECK_DEADLOCK FALSE
INVARIANTS CompletedWhenEnded JournalHasNoGaps
PROPERTIES EndedStaysEnded NoneRunsForEver
