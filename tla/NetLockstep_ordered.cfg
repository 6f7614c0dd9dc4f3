CONSTANTS
  Client = {0, 1}
  Element = {0, 1, 2, 3, 4, 5, 6, 7, 8}
  Pad <- DistinctInputs
  NETQUEUE_SIZE = 4
  FETCH_MAX = 2
  uLatency = 1
  Throttles <- SkipOnly
  Ordered = TRUE
  DrainOnLoad = TRUE
  MaxGames = 1
  MaxFrame = 3
  MaxSent = 4
  MaxInFlight = 2
  MaxOnLink = 2
  MaxUpdates = 1
SPECIFICATION Spec
INVARIANTS AheadBounded
CHECK_DEADLOCK FALSE
