CONSTANTS
  Procs = {p1, p2}
  Oids = {1, 2}
  Workers = 2
  MaxTasks = 1
  MaxGen = 3
  MaxLosses = 1
SPECIFICATION Spec
INVARIANTS NoOldPass
