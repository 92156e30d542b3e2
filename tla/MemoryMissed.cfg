SPECIFICATION Spec
CONSTANTS
  d1 = d1
  d2 = d2
  m1 = m1
  m2 = m2
  Devices = {d1, d2}
  Memories = {m1, m2}
  Author <- FirstAuthors
  PageSize = 1
  MaxEdits = 3
  MaxTroubles = 0
INVARIANTS EveryRowIsDelivered
