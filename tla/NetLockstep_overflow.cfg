CONSTANTS
  Client = {0, 1}
  Element = {0, 1, 2, 3, 4, 5, 6, 7, 8, 9, 10}
  Pad <- DistinctInputs
  NETQUEUE_SIZE = 6
  FETCH_MAX = 3
  uLatency = 2
  Throttles = {}
  Ordered = TRUE
  DrainOnLoad = TRUE
  MaxGames = 1
  MaxFrame = 2
  MaxSent = 4
  MaxInFlight = 2
  MaxOnLink = 2
  MaxUpdates = 0
SPECIFICATION Spec
INVARIANTS FetchFits
CHECK_DEADLOCK FALSE
