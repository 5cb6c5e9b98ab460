SPECIFICATION Spec
CONSTANTS
  s1 = s1
  s2 = s2
  b1 = b1
  p1 = p1
  a = a
  b = b
  r1 = r1
  r2 = r2
  None = None
  Stone = {s1}
  Lot = {b1}
  Product = {p1}
  Slug = {a, b}
  Request <- OneRequest
SYMMETRY Symmetry
CHECK_DEADLOCK FALSE
INVARIANTS
  StonesLive
