SPECIFICATION FairSpec
CONSTANTS
  RackIds = {"r1", "r2"}
  NodeIds = {1, 2}
  TemplateIds = {"small", "big", "slim"}
  Names = {"x"}
  TemplateHeight <- MCTemplateHeight
  TemplateDepth <- MCTemplateDepth
  MaxHeight = 3
  NoNode = NoNode
  Layouts <- MCLayouts
  Movable = {1, 2}
  Nowhere = Nowhere
  NoDrag = NoDrag
  NoSite = NoSite
  NoLayout = NoLayout
  MaxPresses = 2
  MaxMoves = 1
INVARIANT Safety
PROPERTIES DropsKeepApart CancelMovesNothing PendingClicksEnd
CHECK_DEADLOCK FALSE
