\* One client of its own server, as Prove_client starts it with -j 2.
CONSTANTS
  c1 = c1
  c2 = c2
  NoClient = NoClient
  Clients <- OneClient
  Ids = {1}
  LongIds = {1}
  InitParallel = 2
  ParallelArgs = {}
  SingleClient = TRUE
  Faults = {}
  SockCap = 1
  MaxSent = 4
SPECIFICATION FairSpec
PROPERTY EveryClientAccepted
CHECK_DEADLOCK FALSE
