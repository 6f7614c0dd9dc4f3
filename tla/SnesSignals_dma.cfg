CONSTANTS
  PART_CYCLES = 2
  PICTURE = 1
  FRAME = 3
  MAX_DMA = 5
SPECIFICATION FairSignalSpec
PROPERTY NoDmaWaitsWhenRunning
