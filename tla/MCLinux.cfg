SPECIFICATION LinuxSpec
CHECK_DEADLOCK FALSE
CONSTANTS
  Pids = {1, 2, 3}
  MaxProcesses = 4
  MaxGone = 1
  MaxActedOn = 1
  Reparents = TRUE
  Ancestry = FALSE
  Interfaces = {e1}
  Counters = {received}
  HistoryCapacity = 2
  MaxTraffic = 3
  MaxElapsed = 2
  Missing = Missing
  NotFinite = NotFinite
  Readings <- MCReadings
  Processors <- MCProcessors
  CpuCaches <- MCCaches
  GraphCapacity = 1
  Unknown = Unknown
  SampledPids = {p1, p2}
  MaxStarts = 2
  MaxTicks = 1
  NoValue = NoValue
  ObjectIds = {1, 2}
  MaxWindows = 3
  MaxRequests = 2
  NoWindow = NoWindow
  XWindows = {1, 2, 3}
  XPids = {1, 2}
  MaxClients = 2
  IconProperties <- MCIconProperties
  WordLimit = 16
  SmallEdge = 1
  LargeEdge = 2
  WindowLimit = 2
  Budget = 8
  TextLimit = 2
  IconLimit = 3
  MaxProperty = 4
  Encoded = 1
  IconNames = {1, 2}
  CacheEntries = 2
  CacheBytes = 4
  NegativeTtl = 2
  LookupLimit = 2
  VisitLimit = 1
  ClockLimit = 5
  FileLimit = 2
  EdgeLimit = 2
  DecodedLimit = 16
  IconFiles <- MCIconFiles
  Cards = {c1}
  GraphLength = 2
  CallerPids = {q1, q2}
  MaxCallers = 2
  Trusted = {2}
  Calls = {k1, k2}
  MaxPending = 1
  MaxProviders = 2
INVARIANTS
  NoAdoptedPid
  WholeStableTree
  SharesOfOneProcess
  SnapshotHonest
  CacheSound
  GraphsStartAnew
  NoPhantomTraffic
PROPERTIES
  ProcessorPagesAddUp
  
  AnswersAreAuthorized
