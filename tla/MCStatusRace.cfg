CONSTANTS
  Oids = {1, 2}
  MaxTasks = 2
  MaxGen = 1
  Concurrency = 1
  Conns = {1}
  Rewritable = {}
  ReadsFail = FALSE
SPECIFICATION StatusSpec
INVARIANT PrintedWasTrue
