\* Two clients, one of which may hang up while its prover runs.
CONSTANTS
  c1 = c1
  c2 = c2
  NoClient = NoClient
  Clients <- TwoClients
  Ids = {1}
  LongIds = {}
  InitParallel = 1
  ParallelArgs = {}
  SingleClient = FALSE
  Faults = {"hangup"}
  SockCap = 1
  MaxSent = 4
SPECIFICATION Spec
INVARIANT CleanedWhenNotified
CHECK_DEADLOCK FALSE
