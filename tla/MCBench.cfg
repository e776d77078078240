CONSTANTS
  Codes = {28, 240}
  BusReads = {0}
  BusWrites <- BenchBusWrites
  MaxThreads = 4
  Slice = 2
  MaxLive = 3
  MaxValue = 1
  Program <- BenchProgram
  NewPoints <- BenchPoints
  Verdicts = {"true", "false", "error", "raise"}
  MaxPoints = 3
  MaxArg = 2
  MaxDepth = 1
  FOPEN_MAX = 2
  Fds = {0, 1}
  Contents <- BenchContents
  Seeks = {0, 1, 4}
  Width = 1
  Rows = 2
  Visible = 2
  Bytes <- VideoBytes
  grid_width = 4
  grid_height = 5
  boardWidth = 3
  boardHeight = 2
  totalMines = 1
  Columns = 4
  Height = 5
  StartColumn = 0
  Pieces = {"I", "O", "J"}
  Shape <- PieceShape
  MaxLines = 2
  NSUBEXP = 3
  Order <- BenchOrder
  Expressions <- BenchExpressions
  RawTexts <- BenchRawTexts
  Subjects <- BenchSubjects
  Templates <- BenchTemplates
  Decimals = {0, 1, 5, 9, 16, 20, 73, 80, 85, 89, 144, 149, 153}
  Words = {0, 1, 32767, 32768, 65534, 65535}
  ShiftBytes = {0, 1, 2, 85, 127, 128, 129, 254, 255}
  Players = {0, 1}
  Levels = {0, 1, 3}
SPECIFICATION BenchSpec
INVARIANTS
  KbcInStep SleepersListed DebuggerListsEnd
  StdioInOrder  SnakeWhole MinesFair TetrisWhole
  RegexAgrees RegexSpans CpuDecimal CpuLong CpuShifts
PROPERTIES
  DebuggerStopsJustified VgaPresents TttTakesAndBlocks ThreadsProgress
CHECK_DEADLOCK FALSE
