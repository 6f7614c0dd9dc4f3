CONSTANTS
  SNQUEUE_SIZE = 2
  PpuWrite = {w1, w2}
  PpuRead = {r1}
  PICTURE_LINES = 2
  FRAME_LINES = 4
  DmaMixes = FALSE
  MaxAccesses = 3
  Port = {p0}
  PortData = {1, 2}
  CpuStep = {1, 2}
  SpcOp = {1, 3}
  CYCLESPERFRAME = 5
  SPCMINCYCLES = 0
  PoliteClear = TRUE
  MaxPortWrites = 3
  CYCLESPERTICK = 2
  UNSET_COMPARE = 3
  COUNTER_RANGE = 4
  READ_RANGE = 2
  TIME_RANGE = 16
  FRAME_CYCLES = 6
  MODES = {0, 1, 4}
  FIXED = {0, 2}
  STARTS = {0, 5}
  COUNTS = {0, 3, 6}
  BUFFER = 4
  BANK = 8
  SLICES = {2, 3, 7}
  Crosses = FALSE
  ReadsAlternate = FALSE
  REPEAT = 4
  MEM = 4
  UNIT = 2
  HDMA_LINES = 6
  Console = {a, b}
  Voice = {v}
  DSP_CYCLES = 2
  MaxDspWrites = 2
  ByteDigit = {0, 1, 4, 5, 9, 10, 15}
  WordDigit = {0, 9, 15}
  UINT = 16777216
  CpuStrays = {}
  CPU_STEPS = 2
  CALL_DEPTH = 2
  SpcGrant = {60, 170}
  SPC_GRANTS = 2
  RomKB = {8, 32, 40, 96, 1536, 3584, 4088, 4096}
  SramKB = {0, 2, 4, 8}
  BUFFER_KB = 4096
  MovieGame = {g1}
  PadInput = {i0, i1}
  CLIP_FRAMES = 2
  MaxInputs = 2
  MaxSaved = 0
SYMMETRY PadInputs
SPECIFICATION ConsoleSpec
INVARIANTS ConsoleTypeOK SpcAnswers TimerIsExact DmaDelivers
  HdmaFollowsTable ProgramsReadTheSame NetFramesShared MovieReplays
  ArithmeticIsExact CartridgeIsMapped InterpretersAgree
  ExecutionsResume
PROPERTIES PictureSpec ReturnsBalance
