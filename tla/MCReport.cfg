CONSTANTS
  Oids = {1, 2}
  MaxGen = 3
SPECIFICATION Spec
INVARIANTS NeverPartial DoneHasReport
