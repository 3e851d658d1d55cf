SPECIFICATION FairSpec
CONSTANTS
  p1 = p1
  p2 = p2
  g1 = g1
  m = m
  A = A
  B = B
  Puts = {p1, p2}
  Gets = {g1}
  MonitorOf <- OneMonitor
  Monitors = {m}
  ControllerOf <- TwoControllers
  Controllers = {A, B}
  Garbage = Garbage
  NULL = NULL
INVARIANTS
  CurrentUnlessFailed
  SoundUnlessFailed
PROPERTIES
  CallsEnd
  ToolThreadsEnd
\* When the daemon has stopped and every call has ended nothing is left.
CHECK_DEADLOCK FALSE
