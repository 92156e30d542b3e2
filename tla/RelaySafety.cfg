SPECIFICATION Spec
CONSTANTS
  MaxTroubles = 2
  MaxMinted <- Mintable
  MaxLoads = 2
INVARIANTS SeatMatchesRow EndedStaysEnded RevokedStaysOut
CHECK_DEADLOCK FALSE
