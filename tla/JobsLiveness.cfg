CONSTANTS
  Jobs = {j1}
  Users = {u1}
  Cancellers = {}
  Workers = {w1, w2}
  Queues = {q1}
  QueueOf <- SameQueue
  MaxAttempts <- TwoAttempts
  MaxConcurrency <- OneSlot
  MaxInFlight = 1
  NoWorker = NoWorker
  NoUser = NoUser
  MaxRows = 1
  MaxRetries = 0
  MaxFaults = 1
SPECIFICATION FairSpec
PROPERTIES
  EveryJobSettles
  EveryDrainEnds
