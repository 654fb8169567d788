CONSTANTS
  Oids = {1, 2, 3}
  Workers = {w1, w2}
  ChanCap = 1
  Page = 2
  MaxRequests = 2
  DbFails = TRUE
  Interrupts = TRUE
SPECIFICATION Spec
INVARIANTS TypeOK NilMeansDone OnceOnly Accounted CutIsNotFailure HaltIsReported
PROPERTIES StopAdmitsNone NoRequestAfterLoss
CHECK_DEADLOCK FALSE
