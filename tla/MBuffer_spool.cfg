SPECIFICATION FairSpec
CONSTANTS
  Producers = {p1, p2}
  Spool = spool
  Elements = {e1, e2, e3}
  NULL = NULL
  MaxAdds = 3
INVARIANTS
  TypeOK
  ListIntact
  InOrderOnce
  CrashWindow
PROPERTIES
  GateServed
  AddReturns
  FifoSpec
\* The spool waits for ever for the next packet.
CHECK_DEADLOCK FALSE
