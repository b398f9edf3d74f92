SPECIFICATION FairSpec
CONSTANTS
  cpu = cpu
  perf = perf
  gpu = gpu
  c1 = c1
  c2 = c2
  None = None
  Pages <- MCPages
  Performance = perf
  Rank <- MCRank
  Clients <- MCClients
  MaxCalls <- OneEach
INVARIANTS
  NoLostWakeup
  LatestOptionsWin
  ReplyMatchesExecution
  InterruptedAtPageBoundary
PROPERTIES
  ActivePageFirst
  CallsReturn
  PagesAreSampled
CHECK_DEADLOCK FALSE
