CONSTANTS
  Oids = {1, 2}
  MaxTasks = 4
  MaxGen = 6
  Concurrency = 2
  Conns = {1}
  Rewritable = {1}
  ReadsFail = FALSE
  MaxFaults = 2
SPECIFICATION OperatorSpec
INVARIANTS
  DoneIsVerified
  ProcessedHere
  RunningIsTrue
  AllDoneSound
  AdviceAccepted
PROPERTIES KeepsCustody LedgerOnlyGrows Recovers
CHECK_DEADLOCK FALSE
