SPECIFICATION FairSpec
CONSTANTS
  Callers = {c1, c2}
  Local = {c1, c2}
  Letters = {"u"}
  c1 = c1
  c2 = c2
  Names <- Users
  Codes <- Users
  Keys <- KeySets
  Window = 2
  Build = "c2"
  MaxTries = 2
  MaxSess = 1
  PacketSize = 2
  ReadSize = 2
  PtySize = 2
  MaxSent <- Amounts
  MaxOut = 1
  LastFd = 7
INVARIANT DescriptorsKept
INVARIANT OwnInput
PROPERTY SessionsEnd
CHECK_DEADLOCK FALSE
