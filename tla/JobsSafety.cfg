CONSTANTS
  Jobs = {j1}
  Users = {u1}
  Cancellers = {u1}
  Workers = {w1, w2}
  Queues = {q1}
  QueueOf <- SameQueue
  MaxAttempts <- TwoAttempts
  MaxConcurrency <- OneSlot
  MaxInFlight = 2
  NoWorker = NoWorker
  NoUser = NoUser
  MaxRows = 1
  MaxRetries = 1
  MaxFaults = 1
SPECIFICATION Spec
SYMMETRY WorkerSymmetry
INVARIANTS
  SoleHolder
  CancelledStaysCancelled
  RequestSurvives
PROPERTIES
  SettledIsFinal
  ImplementsLifecycle
