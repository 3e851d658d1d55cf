SPECIFICATION FairSpec
CONSTANTS
  c1 = c1
  c2 = c2
  wt = wt
  x1 = x1
  x2 = x2
  x3 = x3
  Client = {c1, c2}
  Data = {c1, c2}
  Worker = wt
  Cell = {x1, x2, x3}
  MaxEarly = 1
  NULL = NULL
INVARIANTS
  BothWays
  OwnAnswer
PROPERTIES
  DequeSpec
  RequestAnswered
  DestroyEnds
\* After a crash nothing more happens.
CHECK_DEADLOCK FALSE
