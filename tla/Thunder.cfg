SPECIFICATION Spec
CONSTANTS
  TotalLinks = 3
  Room = 1
  Activated = TRUE
  Starts = {0, 65533}
  MaxSent <- MCMaxSent
  MaxBreaks = 1
INVARIANT TypeOK
INVARIANT LostOnlyTogether
INVARIANT SomeLinkTrusted
 
PROPERTY OnceInOrder
 
CHECK_DEADLOCK FALSE
