\* A client hangs up while its prover runs; the next one gets its descriptor.
CONSTANTS
  c1 = c1
  c2 = c2
  p1 = p1
  p2 = p2
  NoClient = NoClient
  Clients <- TwoClients
  Ids = {1}
  Pids <- TwoPids
  Fds = {6, 7}
  InitParallel = 1
  ParallelArgs = {}
  SingleClient = FALSE
  Faults = {"hangup"}
  ExitKinds = {"exit"}
  SockCap = 2
  PipeCap = 1
SPECIFICATION Spec
INVARIANT
  AnswersToOwner
CHECK_DEADLOCK FALSE
