CONSTANTS
  Client = {0, 1}
  Element = {0, 1, 2, 3, 4, 5, 6}
  Pad <- DistinctInputs
  NETQUEUE_SIZE = 2
  FETCH_MAX = 2
  uLatency = 1
  Throttles = {}
  Ordered = FALSE
  DrainOnLoad = TRUE
  MaxGames = 1
  MaxFrame = 2
  MaxSent = 3
  MaxInFlight = 2
  MaxOnLink = 2
  MaxUpdates = 0
SPECIFICATION Spec
INVARIANTS Lockstep
PROPERTIES ServiceSpec
CHECK_DEADLOCK FALSE
