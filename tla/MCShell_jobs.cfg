CONSTANTS
  PROCESS_LINES = 2
  Pids = {p1, p2, p3}
SPECIFICATION FairSpec
INVARIANT ForegroundWaited
INVARIANT WaitHasZombie
PROPERTY JobsKept
PROPERTY LoneWaitEnds
CHECK_DEADLOCK FALSE
