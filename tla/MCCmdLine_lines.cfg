CONSTANTS
  MAX_LINEL = 13
  MAX_ARGS = 5
  MAX_ARGLEN = 4
  HISTORY_LINES = 2
  Keyboards <- MCKeyboards
  Files <- MCFiles
SPECIFICATION CmdSpec
INVARIANT LineCut
PROPERTY HistoryKept
PROPERTY ExpansionFresh
CHECK_DEADLOCK FALSE
