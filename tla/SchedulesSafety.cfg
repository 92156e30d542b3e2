SPECIFICATION FairSpec
CONSTANTS
  Policies <- SomePolicies
  MaxRuns = 2
  MaxSpent = 1
  MaxFaults = 1
INVARIANTS CountExplained SwitchedOffStaysOff NeverStranded
PROPERTIES OutcomeIsFinal EveryRunEnds
CHECK_DEADLOCK FALSE
