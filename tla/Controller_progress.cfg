SPECIFICATION FairSpec
CONSTANTS
  m1 = m1
  m2 = m2
  t1 = t1
  t2 = t2
  a = a
  b = b
  South = {m1}
  North = {t1, t2}
  Names = {a, b}
  NameOf <- TwoTools
  MaxFd = 3
  MaxRestarts = 0
  Garbage = Garbage
  DbSock = DbSock
  NULL = NULL
PROPERTIES
  GreetedUnlessRaced
  ToolAnswered
\* When all connections are done nothing is left to do.
CHECK_DEADLOCK FALSE
