CONSTANTS
  SKeys = {1, 2}
  EKeys = {3}
  Foreign = {}
  Window = 2
  MaxRetry = 1
  MaxAttempts = 2
  MaxWriteBacks = 0
SPECIFICATION Spec
INVARIANTS SizeAlwaysCompared
CHECK_DEADLOCK FALSE
