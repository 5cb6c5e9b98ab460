SPECIFICATION MCSpec
CONSTANTS
  ann = ann  bob = bob
  e1 = e1  e2 = e2
  n1 = n1  n2 = n2
  p1 = p1  p2 = p2
  r1 = r1  r2 = r2
  None = None
  User <- AnnAndBob
  Member <- JustAnn
  Email = {e1, e2}
  Nick = {n1, n2}
  Password = {p1, p2}
  Link = {1, 2, 3}
  SessionId = {8, 9}
  Request <- TwoRequests
  Home <- HomeOf
  Alias <- AliasOf
  Secret <- SecretOf
  Ops = {"register", "login", "logout", "profile", "resend", "change_email", "verify", "forgot", "reset"}
  Scenes = {"changes"}
SYMMETRY Symmetry
CHECK_DEADLOCK FALSE
INVARIANTS
  AddressProved
