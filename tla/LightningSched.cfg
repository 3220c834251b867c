\* Ties rank in any order, so that links without a measure can be ranked in
\* every order that measures could give them: no value need be added.
SPECIFICATION FairSpec
CONSTANTS
  TotalLinks = 4
  FastCount = 1
  DisableScheduler = FALSE
  TickTock = {"BOTH"}
  Averages = {}
  Flaky = {0}
  MaxStale = 1
INVARIANT TypeOK
INVARIANT TagsMatchActive
PROPERTY EveryLinkProbed
PROPERTY Recovers
CHECK_DEADLOCK FALSE
