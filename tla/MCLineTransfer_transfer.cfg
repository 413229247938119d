CONSTANTS
  MAX_LINE = 2
  Scenarios <- MCScenarios
SPECIFICATION FairSpec
INVARIANT LinesInOrder
INVARIANT WholeLinesInTurn
INVARIANT NoMutualWait
PROPERTY EndsFollow
CHECK_DEADLOCK FALSE
