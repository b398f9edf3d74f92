CONSTANTS
  Pages = {p1}
  Capacity = 1
  MaxEvents = 2
  MaxChanges = 1
  Overlap = TRUE
  MayPanic = TRUE
  None = None
SPECIFICATION Spec
CHECK_DEADLOCK FALSE
INVARIANT
  NoStrayPost
