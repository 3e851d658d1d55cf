SPECIFICATION FairSpec
CONSTANTS
  m1 = m1
  m2 = m2
  t1 = t1
  t2 = t2
  Monitors = {m1, m2}
  Tools = {t1, t2}
  Target <- Targets
  NULL = NULL
INVARIANTS
  TypeOK
  MissOnlyIfSplit
PROPERTIES
  BothServed
\* When every process has ended or waits for others nothing happens.
CHECK_DEADLOCK FALSE
