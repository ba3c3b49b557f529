SPECIFICATION ChartSpec
CONSTANTS
  Components = {1, 2, 3}
  LevelOf <- MCLevelOf
  Levels <- MCLevels
  Metrics = {cpu, net}
  cpu = cpu
  net = net
  Answers <- MCAnswers
  Picks <- MCPicks
  Places <- MCPlaces
  BarLimit = 2
  Longest = 8
  Width = 4
  Gap = 2
  Radius = 10
  Rises = {4, 10}
  Room = 6
  None = None
INVARIANT ChartSafety
PROPERTIES HintLeavesNoMark
