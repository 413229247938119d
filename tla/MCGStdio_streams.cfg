CONSTANTS
  OpenMax = 4
  BufSiz = 2
  In = In
  Out = Out
  Err = Err
  Data = Data
  NoFile = NoFile
  Names <- MCNames
  Files <- MCFiles
  Terminals <- MCTerminals
  StartFile <- MCStartFile
  Offsets <- MCOffsets
  Newline = 0
  Programs <- MCPrograms
  MaxBeyond = 1
  MaxBase = 5
  MaxGets = 3
  MaxRead = 2
SPECIFICATION Spec
INVARIANT PositionKept
INVARIANT InputTaken
PROPERTY StreamsImplemented
CHECK_DEADLOCK FALSE
