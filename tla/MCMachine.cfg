CONSTANTS
  RunElement = {0, 1, 2}
  DATA_MAX = 6
  ENCODE_MAX = 12
  DECODE_MAX = 6
  NETQUEUE_SIZE = 3
  Element = {0, 1}
  MaxTail = 3
  MaxData = 3
  PART_CYCLES = 2
  PICTURE = 1
  FRAME = 3
  MAX_DMA = 5
  SramGame = {g1, g2, g3}
  SameName = {g1, g2}
  SramValue = {0, 1, 2}
  SUM_RANGE = 2
  AutoSaveTime = 2
  MaxClosed = 2
  OBJ_NUM = 4
  WIDTH = 16
  MAXOBJ = 3
  MAXOBJCHR = 3
  UNSET = 0
  DRAWN = 3
  MAX_WRITES = 2
  Scene = {"mode0", "mode1", "mode2", "mode3", "mode7"}
  CHANNEL_NUM = 2
  ECHO_UNIT = 4
  MixRate = 32000
  MixChunk = {4, 10}
  MIX_SAMPLES = 10
  MIX_FRAMES = 3
  MIX_WRITES = 2
SPECIFICATION MachineSpec
INVARIANTS EncodingIsExact LoopsAreClosed
  NmiOncePerEdge PictureIsRight SoundIsWhole
PROPERTIES SignalsEnd  NothingUnsaved ConnectSettles
