CONSTANTS
  MAX_CHILDREN = 2
  Scenarios <- MCScenarios
SPECIFICATION FairSpec
 
INVARIANT BytesInPlace
INVARIANT OutputWhole
PROPERTY SessionLetsGo
CHECK_DEADLOCK FALSE
