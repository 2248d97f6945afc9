\* One client, as Prove_client starts the server: two requests, one or two
\* slots, interrupts, hang-up, fair scheduling, room for one line in each
\* direction of the socket.
CONSTANTS
  c1 = c1
  c2 = c2
  p1 = p1
  p2 = p2
  NoClient = NoClient
  Clients <- OneClient
  Ids = {1, 2}
  Pids <- TwoPids
  Fds = {6}
  InitParallel = 1
  ParallelArgs = {2}
  SingleClient = TRUE
  Faults = {"hangup"}
  ExitKinds = {"exit"}
  SockCap = 1
  PipeCap = 1
SPECIFICATION FairSpec
INVARIANTS
  NoLostWakeup
  WriteInterest
  BlockedOnlyWhenIdle
  AnswerProtocol
PROPERTY
  EveryRunAnswered
CHECK_DEADLOCK FALSE
