SPECIFICATION LinuxSpec
CHECK_DEADLOCK FALSE
CONSTANTS
  Pids = {1, 2, 3}
  MaxProcesses = 4
  MaxGone = 1
  MaxActedOn = 1
  Reparents = TRUE
  Ancestry = TRUE
  Interfaces = {e1}
  Counters = {received}
  HistoryCapacity = 2
  MaxTraffic = 1
  MaxElapsed = 1
  Missing = Missing
  NotFinite = NotFinite
  Readings <- MCReadings
  Processors <- MCProcessors
  CpuCaches <- MCCaches
  GraphCapacity = 1
  Unknown = Unknown
  SampledPids = {p1}
  MaxStarts = 1
  MaxTicks = 1
  NoValue = NoValue
  ObjectIds = {1}
  MaxWindows = 1
  MaxRequests = 1
  NoWindow = NoWindow
  XWindows = {1}
  XPids = {1}
  MaxClients = 1
  IconProperties <- MCIconProperties
  WordLimit = 16
  SmallEdge = 1
  LargeEdge = 2
  WindowLimit = 1
  Budget = 2
  TextLimit = 2
  IconLimit = 3
  MaxProperty = 4
  Encoded = 1
  IconNames = {1}
  CacheEntries = 2
  CacheBytes = 4
  NegativeTtl = 2
  LookupLimit = 1
  VisitLimit = 1
  ClockLimit = 1
  FileLimit = 2
  EdgeLimit = 2
  DecodedLimit = 16
  IconFiles <- MCIconFiles
  Cards = {c1}
  GraphLength = 2
  CallerPids = {q1}
  MaxCallers = 1
  Trusted = {1}
  Calls = {k1}
  MaxPending = 1
  MaxProviders = 1
INVARIANT
  OnlyDescendants
