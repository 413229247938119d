CONSTANTS
  RecvMax = 2
  ShellMax = 1
  ToShellCap = 2
  FromShellCap = 4
  SockCap = 3
  MaxSent = 5
SPECIFICATION DialogFairSpec
INVARIANT RelayedInOrder
INVARIANT NoMutualBlock
PROPERTY OneEndEndsAll
CHECK_DEADLOCK FALSE
