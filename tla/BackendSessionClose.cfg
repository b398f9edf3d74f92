CONSTANTS
  Pages = {p1}
  Capacity = 1
  MaxEvents = 3
  MaxChanges = 1
  Overlap = TRUE
  MayPanic = TRUE
  None = None
SPECIFICATION FairSpec
CHECK_DEADLOCK FALSE
INVARIANT
  NoStrayPostAfterStop
PROPERTIES
  SessionProgresses
