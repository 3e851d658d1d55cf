SPECIFICATION FairSpec
CONSTANTS
  t1 = t1
  t2 = t2
  Tools = {t1, t2}
  Size <- Files
  H = 2
  Width = 5
  SndBuf = 3
  Monitor = Monitor
  NULL = NULL
INVARIANTS
  WholePackets
PROPERTY Delivered
\* When all packets have arrived nothing is left to do.
CHECK_DEADLOCK FALSE
