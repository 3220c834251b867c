SPECIFICATION Spec
CONSTANTS
  TotalLinks = 2
  Room = 1
  Activated = TRUE
  Starts = {65533}
  MaxSent <- MCMaxSent
  MaxBreaks = 1
INVARIANT SkipsOnlyDelivered
CHECK_DEADLOCK FALSE
