SPECIFICATION WindowsSpec
CHECK_DEADLOCK FALSE
CONSTANTS
  Pids = {1, 2, 3}
  MaxProcesses = 3
  Reparents = FALSE
  Ancestry = TRUE
  WindowsPids = {1, 2}
  MaxCreations = 3
  Absent = Absent
  MaxNeeded = 6
  BufferLimit = 5
  FirstLength = 2
  Logical = {1, 2}
  Readouts <- MCReadouts
  MaxProcessors = 2
  Adapters <- MCAdapters
  MemorySizes = {0, 1}
  Luids = {l1}
  MaxOctets = 2
  PlotLength = 1
  Nothing = Nothing
  NotFinite = NotFinite
  TargetPids = {1}
  Handles = {1, 2}
  SessionIds = {1}
  MaxMade = 4
  Nobody = Nobody
  Sids = {1, 2, 3}
  Services <- MCServices
  MaxNames = 2
  MaxUnused = 2
  RefreshSteps = 1
  Unnamed = Unnamed
  MaxInputs = 3
  Starts = {d, e, f}
  Elevated = {d, e}
  StartPids = {1, 2, 3}
  Hwnds = {1, 2}
  NoOne = NoOne
  Instances = {i1, i2}
  Saves = {s1, s2}
  MaxMillis = 1
  SyncsDirectory = TRUE
  NoFile = NoFile
  Damaged = Damaged
  Writers = {w1, w2}
  SessionLimit = 1
  RootLimit = 2
  PartLimit = 1
  MaxSessions = 3
  MaxParts = 2
  MaxForeign = 1
  MaxOffset = 10
  MaxEntries = 3
  MaxListed = 2
  MaxLength = 2
  NoNumber = NoNumber
  Unset = Unset
  NoIcon = NoIcon
INVARIANTS
  OnlyDescendants
  WindowsRowsOfOneProcess
  TrayConsistent
  OneInstance
  SettingsDurable
  RetentionSafe
  ExportSound
PROPERTIES
  ReadsStayInBounds
  CountersHaveBaselines
  StaleNamesRefused
  AccountsSound
