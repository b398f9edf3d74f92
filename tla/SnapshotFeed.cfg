CONSTANTS
  Pages = {p1, p2}
  Errors = {e1}
  Capacity = 2
  MaxEvents = 6
  None = None
SPECIFICATION FairSpec
CHECK_DEADLOCK FALSE
INVARIANTS
  PageNeverRegresses
  StaleIsNewestTrusted
PROPERTIES
  FeedSpec
  FeedDrains
