SPECIFICATION FairSpec
CONSTANTS
  Units <- Sent
  Keys = {"BREAK", "DOKILL", "REINIT"}
  MaxEscSeq = 4
  Snoopy = {FALSE}
  Verbose = {FALSE}
  HasTerm = TRUE
  KeyRead = 2
  SockRead = 2
  MaxUnits = 2
  MaxUser = 2
  MaxOpens = 2
INVARIANT TextShown
INVARIANT ModesKept
PROPERTY GoneEnds
CHECK_DEADLOCK FALSE
