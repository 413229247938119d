CONSTANTS
  Files <- MCFiles
  INFTY = 9
  MaxCommands = 1
SPECIFICATION GraphFairSpec
INVARIANT ShortestPath
INVARIANT MaximumFlow
PROPERTY CommandReturns
CHECK_DEADLOCK FALSE
