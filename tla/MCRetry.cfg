CONSTANTS
  Oids = {1}
  MaxTasks = 2
  MaxGen = 3
  Concurrency = 2
  Conns = {1, 2}
  Rewritable = {1}
  ReadsFail = FALSE
SPECIFICATION Spec
INVARIANTS
  ProcessedHere
  RunningIsTrue
  LedgerInv
