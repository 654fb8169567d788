CONSTANTS
  Wrap = 8
  N = 3
  Parts <- KeyParts
  MaxParts = 5
  OidRange = 4
  IndexRange = 2
  VersionRange = 2
  SizeWrap = 32
  MaxSegment = 9
  MaxChunks = 5
SPECIFICATION CalcSpec
INVARIANTS ExactTotal FitsTarget
           ParseInvertsKey ListedOnce MatchesReference
CHECK_DEADLOCK FALSE
