CONSTANTS
  SKeys = {1, 2, 3}
  EKeys = {4, 5}
  Foreign = {5}
  Window = 2
  MaxRetry = 1
  MaxAttempts = 2
  MaxWriteBacks = 1
SPECIFICATION FairSpec
INVARIANTS DoneMeansClean PieceBudget CreditSound
PROPERTIES OnlyOwnPieces AttemptEnds
CHECK_DEADLOCK FALSE
