SPECIFICATION MCSpec
CONSTANTS
  None = None
  Slot = {x1, x2}
  Comments = 2
  Clicks = 2
  Others = 1
  Bulletin = {e1, e2}
  Title = {t1, t2}
  Loads = 2
  Acts = 3
  Promotion = {p1, p2}
  Moves = 4
  Flights = 3
  Turns = 4
CHECK_DEADLOCK FALSE
INVARIANTS
  PagesTrue
  OfferedIsAccepted
  LinesAndSheets
PROPERTIES
  LoadsEnd
  ActsOnItsEntry
