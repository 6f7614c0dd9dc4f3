CONSTANTS
  Client = {0, 1, 2}
  Game = {x, y}
  None = None
  AtStart = {0, 1, 2}
  Interleave = FALSE
  MayFail = FALSE
  SlowLoads = FALSE
  MaxRequests = 3
  MaxJoins = 1
  MaxLeaves = 2
SPECIFICATION Spec
INVARIANTS SameGame
CHECK_DEADLOCK FALSE
