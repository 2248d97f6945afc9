\* One of two clients goes away.
CONSTANTS
  c1 = c1
  c2 = c2
  p1 = p1
  p2 = p2
  NoClient = NoClient
  Clients <- TwoClients
  Ids = {1}
  Pids <- TwoPids
  Fds = {6, 7}
  InitParallel = 2
  ParallelArgs = {}
  SingleClient = FALSE
  Faults = {"hangup"}
  ExitKinds = {"exit"}
  SockCap = 1
  PipeCap = 1
SPECIFICATION FairSpec
PROPERTY
  AnsweredWhateverOthersDo
CHECK_DEADLOCK FALSE
