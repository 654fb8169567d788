CONSTANTS
  Procs = {p1, p2}
  Oids = {1, 2}
  Workers = 2
  MaxTasks = 2
  MaxGen = 1
  MaxLosses = 1
SPECIFICATION Spec
INVARIANTS OneUnfinished
