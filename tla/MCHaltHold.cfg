CONSTANTS
  Oids = {1, 2}
  Workers = {w1, w2}
  ChanCap = 1
  Page = 2
  MaxRequests = 2
  DbFails = FALSE
  Interrupts = FALSE
SPECIFICATION Spec
INVARIANT HaltPersistsHold
CHECK_DEADLOCK FALSE
