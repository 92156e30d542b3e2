SPECIFICATION LedgerFairSpec
CONSTANTS
  Requests = {r1}
  Tokens = {t1, t2}
  Ops = {o1, o2}
  StepCost <- UnitSteps
  Estimates = {2}
  Actuals = {1, 3}
  Allowance = 4
  NoToken = NoToken
  NoOp = NoOp
  Fee = 1
  MaxFees = 1
  MaxPeriods = 2
  MaxTries = 3
  MaxFaults = 2
INVARIANTS LedgerTypeOK BooksBalance OneExecutor EveryRowExplained
PROPERTIES FirstOutcomeWins NothingLeftHalfWay
CHECK_DEADLOCK FALSE
