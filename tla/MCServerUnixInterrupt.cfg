\* A prover without time limit is interrupted.
CONSTANTS
  c1 = c1
  c2 = c2
  p1 = p1
  p2 = p2
  NoClient = NoClient
  Clients <- OneClient
  Ids = {1}
  Pids <- OnePid
  Fds = {6}
  InitParallel = 1
  ParallelArgs = {}
  SingleClient = TRUE
  Faults = {}
  ExitKinds = {}
  SockCap = 2
  PipeCap = 1
SPECIFICATION FairSpec
PROPERTY
  InterruptStops
CHECK_DEADLOCK FALSE
