SPECIFICATION Spec
CONSTANTS
  NameLen = 1
  WordSize = 16
  UpRoom = 2
  DownRoom = 10
  FarRoom = 2
  Answers <- MCAnswers
  Stale <- MCStale
  UdpFailures = TRUE
INVARIANT TypeOK
 
INVARIANT UpIsGranted
INVARIANT DatagramsInOrder
PROPERTY ExchangeEnds
PROPERTY CellsArrive
CHECK_DEADLOCK FALSE
