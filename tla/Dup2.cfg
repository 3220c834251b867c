SPECIFICATION FairSpec
CONSTANTS
  Links = {l1, l2, l3}
  Reliable = {l1}
  Starts <- MCStarts
  MaxLag = 32767
  MaxSent = 4
  l1 = l1
  l2 = l2
  l3 = l3
INVARIANT TypeOK
INVARIANT OnlyTheWrapLoses
PROPERTY OnceInOrder
PROPERTY EachArrives
CHECK_DEADLOCK FALSE
