CONSTANTS
  Client = {0, 1}
  Element = {0, 1, 2, 3, 4, 5, 6}
  Pad <- DistinctInputs
  NETQUEUE_SIZE = 3
  FETCH_MAX = 2
  uLatency = 1
  Throttles = {}
  Ordered = TRUE
  DrainOnLoad = TRUE
  MaxGames = 1
  MaxFrame = 1
  MaxSent = 2
  MaxInFlight = 4
  MaxOnLink = 1
  MaxUpdates = 0
SPECIFICATION FairSpec
PROPERTIES FramesAdvance
CHECK_DEADLOCK FALSE
