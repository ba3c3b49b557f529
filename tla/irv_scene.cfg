SPECIFICATION FairSpec
CONSTANTS
  InitialRacks <- MCInitialRacks
  NewRacks <- MCNewRacks
  Windows <- MCWindows
  Rows <- MCRows
  Size <- MCSize
  SizeOf <- MCSizeOf
  Padding = 4
  HPadding = 4
  HSpacing = 2
  VSpacing = 12
  LabelHeight = 2
  ShowAll <- MCShowAll
  ToRow <- MCToRow
  MaxZoom = 4
  MaxRequests = 3
  MaxChanges = 2
INVARIANT Safety
CHECK_DEADLOCK FALSE
PROPERTIES FaceKeepsRacks FlipEnds MaskLifts
