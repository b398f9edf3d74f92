CONSTANTS
  Pages = {p1, p2}
  Capacity = 1
  MaxEvents = 2
  MaxChanges = 2
  Overlap = TRUE
  MayPanic = TRUE
  None = None
SPECIFICATION Spec
SYMMETRY PageSymmetry
CHECK_DEADLOCK FALSE
INVARIANTS
  CoalescingIsSafe
  ChoicesTakeEffect
