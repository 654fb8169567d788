CONSTANTS
  Oids = {1, 2}
  Workers = {w1, w2}
  ChanCap = 1
  Page = 2
  MaxRequests = 2
  DbFails = FALSE
  Interrupts = TRUE
SPECIFICATION Spec
INVARIANT FinishedIsRecorded
CHECK_DEADLOCK FALSE
