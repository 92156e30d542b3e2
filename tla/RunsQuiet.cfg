SPECIFICATION Spec
CONSTANTS
  MaxSteps = 2
  MaxInvocations = 3
  MaxRetries = 0
  HasDevice = FALSE
  Watched = FALSE
  UserMoves <- AllMoves
  MaxFaults = 0
CHECK_DEADLOCK FALSE
INVARIANTS DecisionUsedOnce ParkedCanBeResumed NothingLeftBehind OnlyReplaysAreDropped
