SPECIFICATION SceneSpec
CONSTANTS
  All = All
  None = None
  Blank = Blank
  Rows = 3
  Lengths = {1, 2}
  PageSize = 1
  Steps = 4
  u1 = u1
  u2 = u2
  n1 = n1
  n2 = n2
  User = {u1, u2}
  Note = {n1, n2}
  Owner <- Owners
  Columns <- TwoColumns
  Sorted <- TwoValues
  AllProducts <- SomeProducts
  Sent <- SomeLists
  GroupTable <- SomeGroups
  Links <- SomeLinks
  Presses = 3
CHECK_DEADLOCK FALSE
INVARIANTS
  RowsTold
  FiltersSound
  NotesTrue
PROPERTIES
  KeepsPromise
  PicksStand
