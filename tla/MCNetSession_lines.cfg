CONSTANTS
  HISTLINES = 2
  MaxLines = 3
  MaxRuns = 2
  MaxCommands = 3
SPECIFICATION SessionFairSpec
INVARIANT SessionTypes
INVARIANT LinesKept
INVARIANT RecvOutstanding
PROPERTY EndsNoticed
CHECK_DEADLOCK FALSE
