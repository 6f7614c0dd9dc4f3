CONSTANTS
  Client = {0, 1, 2}
  Game = {x}
  None = None
  AtStart = {0, 1}
  Interleave = TRUE
  MayFail = TRUE
  SlowLoads = TRUE
  MaxRequests = 1
  MaxJoins = 1
  MaxLeaves = 3
SPECIFICATION FairSpec
INVARIANTS SessionConsistent EveryoneHasLoaded
PROPERTIES LoadSettles
CHECK_DEADLOCK FALSE
