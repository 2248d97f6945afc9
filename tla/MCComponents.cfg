SPECIFICATION Spec
CONSTANTS
  m1 = m1
  m2 = m2
  Messages <- TwoMessages
  Elements <- TwoMessages
  Size <- Sizes
  NoData = NoData
  NoElement = NoElement
  Garbage = Garbage
  InitCapacity = 1
  MaxQueued = 4
  MaxLen = 4
  MaxWire = 5
  Keys = {1, 2, 3}
  Values = {11, 12}
  Null = Null
  Unset = 9
  ListCapacity = 1
  MaxListLen = 3
  NL = 0
  Letters = {1, 2}
  Unread = 9
  READ_ONCE = 3
  ReadSize = 3
  Copies = {"up"}
  MaxStream = 7
  LineFields <- MCFields
  MaxFields = 5
  Names <- MCNames
  OutFiles <- MCOutFiles
  Numbers = {0, 255}
  TimeLimits = {0, 5, 25}
  Times = {0, 1000000, 12345678}
  ExitCodes = {"0", "2"}
  Signals = {"SIGXCPU", "SIGALRM"}
  WinCodes = {0, 2}
  Garbled = 99
  NN = 4
  MM = 2
  WordBits = 4
  LowBits = 2
  MATRIX_A = 11
  Factors <- MCFactors
  Shift = 2
  Seeds = {0, 1, 5, 10, 15}
  InitKeys <- MCKeys
  MaxOutputs = 11
  H = 2
  MaxLimbs = 2
  NumRoots = 1
  NumSubGoals = 1
  Provers <- TwoMessages
  Strategy <- MCStrategy
  MaxTasks = 1
  Multiplier = 2
  MaxCommands = 2
INVARIANTS LinesExact ClientLinesExact EndsAsCommand RunsInJob ReturnsExitCode
  OneRecurrence NeverStuck CarryExact TablesAgree MovesOnWhenAllFailed
PROPERTIES ImplementsFifo WritesInOrderThroughRing ImplementsTable
   OnlyCommands AnswersArrive KilledOnlyLate AlwaysEnds ConsoleEnds ComesToRest
CHECK_DEADLOCK FALSE
