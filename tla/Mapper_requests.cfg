SPECIFICATION Spec
CONSTANTS
  r1 = r1
  r2 = r2
  r3 = r3
  Requests = {r1, r2, r3}
  KindOf <- ThreeKinds
  NULL = NULL
INVARIANTS
  TypeOK
  OwnChangePushed
  AloneSucceeds
  NewestPushedAlone
\* When every request has ended nothing is left to do.
CHECK_DEADLOCK FALSE
