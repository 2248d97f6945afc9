\* One client with two requests, the first longer than one read, on a server with
\* one slot that may be raised to two; it sends four of its five possible requests,
\* and may hang up at any time.
CONSTANTS
  c1 = c1
  c2 = c2
  NoClient = NoClient
  Clients <- OneClient
  Ids = {1, 2}
  LongIds = {1}
  InitParallel = 1
  ParallelArgs = {2}
  SingleClient = FALSE
  Faults = {"create", "memory", "hangup"}
  SockCap = 1
  MaxSent = 4
SPECIFICATION FairSpec
CHECK_DEADLOCK FALSE
INVARIANTS
  IoInStep
  GoneClientsStopped
  ListedUntilAnswered
  WinAnswerProtocol
PROPERTIES
  WinRunAnswered
