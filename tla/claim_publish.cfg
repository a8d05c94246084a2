CONSTANTS
  deskTab = deskTab
  Page <- Tabs
  Publisher <- Tabs
  Piece = {p1, p2}
  MaxText = 3
  MaxLosses = 0
SPECIFICATION EditorSpec
PROPERTIES
  PublishSendsWhatIsShown
