CONSTANTS
  Oids = {1, 2}
  MaxTasks = 1
  MaxGen = 4
  Concurrency = 2
  Conns = {1}
  Rewritable = {1, 2}
  ReadsFail = FALSE
SPECIFICATION Spec
INVARIANTS
  DoneIsVerified
  NoDeadEnd
  ResidueIsOwed
  AllDoneSound
PROPERTIES
  LedgerOnlyGrows
