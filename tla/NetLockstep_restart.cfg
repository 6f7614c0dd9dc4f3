CONSTANTS
  Client = {0, 1}
  Element = {0, 1, 2, 3, 4, 5, 6}
  Pad <- DistinctInputs
  NETQUEUE_SIZE = 2
  FETCH_MAX = 2
  uLatency = 1
  Throttles <- PadOnly
  Ordered = TRUE
  DrainOnLoad = TRUE
  MaxGames = 2
  MaxFrame = 2
  MaxSent = 3
  MaxInFlight = 2
  MaxOnLink = 1
  MaxUpdates = 1
SPECIFICATION Spec
INVARIANTS InductiveInv
CHECK_DEADLOCK FALSE
