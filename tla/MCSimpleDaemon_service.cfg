CONSTANTS
  MaxChildren = 2
  Pids = {p1, p2}
  c1 = c1
  c2 = c2
  c3 = c3
  Conns = {c1, c2, c3}
  Fds = {3, 4, 5}
  TermSignals = {sigint}
  GroupSignals = {sigint}
  NoPid = NoPid
  NoConn = NoConn
  NoFd = NoFd
  Parent = Parent
SPECIFICATION FairSpec
ACTION_CONSTRAINT InTurn
CHECK_DEADLOCK FALSE
PROPERTY TerminationCompletes
PROPERTY ServiceIsProgressing
PROPERTY ParentKeepsServed
PROPERTY ServiceImplemented
INVARIANT TableTrue
INVARIANT WaitHasZombie
