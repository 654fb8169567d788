CONSTANTS
  Procs = {p1, p2}
  Bindings = {sp1, sp2}
  MaxRow = 3
  Batch = 2
  MaxChanges = 2
  MaxCrashes = 1
  Legacy = TRUE
SPECIFICATION Spec
INVARIANTS SealedIsOneScan SealedIsSource OneSource
SYMMETRY ScanSymmetry
CHECK_DEADLOCK FALSE
