SPECIFICATION Spec
CONSTANTS
  None = None
  User = {u1, u2}
  SessionId = {s1, s2}
  Call = {c1, c2}
  Asks = 2
  Ops <- AllOps
CHECK_DEADLOCK FALSE
INVARIANTS
  ShownIsSession
PROPERTIES
  ConfirmedOnSight
  FormsComeBack
