SPECIFICATION Spec
CONSTANTS
  t1 = t1
  t2 = t2
  key1 = key1
  KEY1 = KEY1
  key2 = key2
  val1 = val1
  val2 = val2
  Thread = {t1, t2}
  Key = {key1, KEY1, key2}
  Value = {val1, val2}
  HashOf <- Hashes
  Lower <- LowerCase
  Flags = {"FROZEN_UNTIL_GROWS", "IGNORE_CASE"}
  HasFreeFn = FALSE
  Sizes = {1, 2, 4}
  InitialSize = 2
  MaxEntries = 2
  NULL = NULL
INVARIANTS
  WellLinked
  OverfullNoticed
  CopyComplete
PROPERTIES
  MapSpec
SYMMETRY SameThreads
CHECK_DEADLOCK FALSE
