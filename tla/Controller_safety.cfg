SPECIFICATION Spec
CONSTANTS
  m1 = m1
  m2 = m2
  t1 = t1
  t2 = t2
  a = a
  b = b
  South = {m1, m2}
  North = {t1}
  Names = {a, b}
  NameOf <- TwoMonitors
  MaxFd = 4
  MaxRestarts = 1
  Garbage = Garbage
  DbSock = DbSock
  NULL = NULL
INVARIANTS
  TypeOK
  OwnDescriptor
  NoDescriptorLost
  MissOnlyIfMangled
  RightWhileConnected
\* When all connections are done nothing is left to do.
CHECK_DEADLOCK FALSE
