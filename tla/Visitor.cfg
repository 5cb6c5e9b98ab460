SPECIFICATION MCSpec
CONSTANTS
  None = None
  User = {u1, u2}
  Tab = {t1, t2}
  Line = {a, b}
  Slot = {x1}
  Steps = 6
  MayFill = TRUE
  Ask = {y1, y2}
  Texts = {c1}
  Taps = 2
  Others = 1
  Presses = 4
CHECK_DEADLOCK FALSE
INVARIANTS
  LinesOwned
  ArticleTrue
  SearchSound
PROPERTIES
  LinesLeaveByAct
  FormsComeBack
