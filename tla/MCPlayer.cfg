CONSTANTS
  Button = {"L2", "R2", "CROSS", "R1", "SELECT"}
  FirstHolds = {{}, {"L2"}, {"R2"}, {"L2", "R2"}, {"R1"}, {"CROSS"}, {"L2", "CROSS"}, {"L2", "SELECT"}}
  OthersHold = {{}, {"CROSS"}}
  INPUT_MAXPADS = 5
  XPad = FALSE
  MENU_REPEAT = 3
  MENU_TIMEOUT = 2
  SysInput <- PlayerInputs
  MaxReads = 2
  Drive = {1, 2, 3}
  Disc = {3}
  Card = {1}
  DirName = {5}
  FileName = {6, 7}
  FirstFiles <- PlayerFiles
  FirstDirs <- PlayerDirs
  CutName <- PlayerCuts
  MaxLines = 2
  MaxEntries = 2
  MaxTriggers = 2
  MaxClosed = 1
  StartLatency = 1
  MaxLatency = 1
  OwnAddress <- PlayerAddress
  Editable = {0}
  MaxPressed = 2
SPECIFICATION PlayerSpec
INVARIANTS ButtonsAreReal JoypadsAreRight ListIsRight ScreenIsTrue
PROPERTIES PressesAreRight FilesAreKept ConnectsToShown
