SPECIFICATION DeskSpec
CONSTANTS
  chief = chief
  author = author
  deskTab = deskTab
  t1 = t1
  t2 = t2
  Article = {a1}
  Person <- People
  Chief <- Chiefs
  Pack = {k1}
  Request = {r1}
  Round = {t1, t2}
  Slot = {1}
  MaxTime = 1
  Page <- Tabs
  Publisher <- Tabs
  Piece = {p1, p2}
  MaxText = 2
  MaxLosses = 1
INVARIANTS
  OnlyChiefsRelease
  SaleIsWhole
PROPERTIES
  DueIsPublished
  AutosaveCreatesOnce
  WordsReachTheServer
