SPECIFICATION Spec
CONSTANTS
  TotalLinks = 2
  SentPastLinks = 2
  MaxLinks = 2
  HistoricSize = 3
  Sizes <- MCSizes
  Room = 3
  MaxPackets = 6
  MaxUnkept = 1
INVARIANT Charged
INVARIANT MissingNoticed
 
CHECK_DEADLOCK FALSE
