SPECIFICATION FairSpec
CONSTANTS
  Procs = {sweep, turn}
  MaxAttempts = 2
  MaxBalance = 2
  MaxFaults = 2
INVARIANTS PaidIsNamed GrantedOnce
PROPERTIES OnlyPaymentsRenew ChargedOnlyWhenDue EveryReloadEnds
CHECK_DEADLOCK FALSE
