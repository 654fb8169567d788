CONSTANTS
  Oids = {1}
  MaxTasks = 1
  MaxGen = 2
  Concurrency = 1
  Conns = {1}
  Rewritable = {}
  ReadsFail = TRUE
SPECIFICATION Spec
INVARIANTS
  HoldOnlyOnDoubt
