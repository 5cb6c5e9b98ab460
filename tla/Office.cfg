SPECIFICATION SceneSpec
CONSTANTS
  None = None
  Article = {a1, a2}
  Title = {t1, t2}
  Text = {x1}
  Clicks = 2
  Acts = 3
  Image = {f1, f2, f3}
  Video = {v1, v2}
  Link = Link
  MaxImages = 2
  Turns = 4
  Posts <- AllPosts
  old1 = old1
  old2 = old2
  Lot <- Lots
  Item <- Products
  Starts <- AllStarts
  l1 = l1
  l2 = l2
  i1 = i1
  i2 = i2
  Deeds = 4
  Topic <- AllTopics
  All = All
  Flights = 2
  Rounds = 3
CHECK_DEADLOCK FALSE
INVARIANTS
  QueueHoldsSubmitted
  TrustIsGiven
  ArticlesApart
  FilesKept
  RowsKept
  TopicsShown
PROPERTIES
  WaitingEnds
