CONSTANTS
  Oids = {1, 2, 3}
  Workers = {w1, w2}
  ChanCap = 1
  Page = 2
  MaxRequests = 1
  DbFails = TRUE
  Interrupts = TRUE
SPECIFICATION FairSpec
INVARIANTS NilMeansDone OnceOnly Accounted CutIsNotFailure HaltIsReported
PROPERTIES Termination
CHECK_DEADLOCK FALSE
