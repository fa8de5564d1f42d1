\* Ten programs, one in each behaviour, with all the inputs of MCPrograms.
SPECIFICATION FairProgramsSpec
CONSTANTS
  Arguments <- MCArguments
  Uptime = {0, 9}
  MAX = 3
  COUNT_LIMIT = 8
  SECOND = 2
  INT_LIMIT = 4
  TICK_LIMIT = 1000
  MaxStolen = 4
  size = 3
  Work = 2
  MaxSent = 3
  Written = {0, 10, 2000}
  Rounds = 2
  Writers = {"w1", "w2"}
  Numbers = {2, 4}
  Garbage = {9}
  Processes = {1, 2, 3, 4}
  Parents <- MCParents
  MaxWrites = 2
  Setups = {"Pipe", "FIFO", "FIFO_wr"}
  Child = "w1"
  Items = 2
  Capacity = 2
  Families = {"AF_Local", "AF_INET"}
  Clients = {"c1", "c2"}
  Texts <- MCTexts
  Quit = "q"
  BUF_LEN = 2
  CONNECT_RETRY = 2
  MaxStarts = 2
  ArraySizes = {0, 1, 2, 3}
  Values = {0, 10, 20}
  Strays = {5, 15, 30}
  number = 2
  MatrixSizes <- MCMatrixSizes
  Counts = {0, 1, 2, 3}
  SqrtMax = 4
  SEC = 3
  MIN_INIT = 20
  Now = 1
  MaxTime = 4
  PCPUcnt = 2
  InputArguments <- MCInputArguments
  CfgFiles <- MCCfgFiles
  RTPriorities = {5, 7}
  IntLimit = 8
  Commands <- MCCommands
INVARIANTS
  Safety
  HonestReport
  SignalsTold
  NoStrayTimer
  PinMode
  FilesAreSound
  AllIsPrinted
  ConnectionsTold
  SortsOneMore
  RunIsMeasured
  InputIsSound
  ForksAreSound
PROPERTY
  ReaderEnds
CHECK_DEADLOCK FALSE
