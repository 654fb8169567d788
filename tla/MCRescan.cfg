CONSTANTS
  Procs = {p1}
  Bindings = {sp1}
  MaxRow = 3
  Batch = 2
  MaxChanges = 1
  MaxCrashes = 1
  Legacy = FALSE
SPECIFICATION FairSpec
PROPERTIES RescanCompletes
CHECK_DEADLOCK FALSE
