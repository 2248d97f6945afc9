\* Two clients that may hang up at any time, one request each, on two descriptors.
CONSTANTS
  c1 = c1
  c2 = c2
  p1 = p1
  p2 = p2
  NoClient = NoClient
  Clients <- TwoClients
  Ids = {1}
  Pids <- TwoPids
  Fds = {6, 7}
  InitParallel = 1
  ParallelArgs = {}
  SingleClient = FALSE
  Faults = {"fork", "sigterm", "hangup"}
  ExitKinds = {"exit"}
  SockCap = 2
  PipeCap = 1
SPECIFICATION Spec
INVARIANTS
  ChildrenRegistered
  QueuedHaveClients
  SlotBound
  AnswerProtocol
CHECK_DEADLOCK FALSE
