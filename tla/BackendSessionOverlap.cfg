CONSTANTS
  Pages = {p1}
  Capacity = 1
  MaxEvents = 1
  MaxChanges = 2
  Overlap = TRUE
  MayPanic = FALSE
  None = None
SPECIFICATION Spec
CHECK_DEADLOCK FALSE
INVARIANT
  SettingsAreSaved
