SPECIFICATION MCSpec
CONSTANTS
  ann = ann  mod = mod
  t1 = t1
  r1 = r1  r2 = r2
  None = None
  User <- Members
  Staff <- JustMod
  Post = {p1, p2}
  Title <- OneTitle
  MaxComment = 3
  MaxViews = 1
  Request <- TwoRequests
  Ops = {"create", "comment", "hide", "restore", "destroy", "reply_hide", "reply_restore", "reply_destroy", "like", "view"}
  Scenes = {"slugs"}
SYMMETRY Symmetry
CHECK_DEADLOCK FALSE
INVARIANTS
  StaffOpens
