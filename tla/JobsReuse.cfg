CONSTANTS
  Jobs = {j1}
  Users = {u1, u2}
  Cancellers = {u1, u2}
  Workers = {w1}
  Queues = {q1}
  QueueOf <- SameQueue
  MaxAttempts <- OneAttempt
  MaxConcurrency <- OneSlot
  MaxInFlight = 1
  NoWorker = NoWorker
  NoUser = NoUser
  MaxRows = 2
  MaxRetries = 1
  MaxFaults = 1
SPECIFICATION Spec
PROPERTIES
  OnlyTheNamedJobIsCancelled
