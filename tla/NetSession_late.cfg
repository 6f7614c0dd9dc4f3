CONSTANTS
  Client = {0, 1}
  Game = {x, y}
  None = None
  AtStart = {0, 1}
  Interleave = FALSE
  MayFail = TRUE
  SlowLoads = TRUE
  MaxRequests = 2
  MaxJoins = 0
  MaxLeaves = 0
SPECIFICATION Spec
INVARIANTS EveryoneHasLoaded
CHECK_DEADLOCK FALSE
