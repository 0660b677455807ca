CONSTANTS
  Thread = {t1, t2}
  NonRoot = {n1, n2}
  Root = root
  Key = {k1, k2}
  NULL = NULL
  DANGLING = DANGLING
  GCInterval = 0
  ExclusiveGC = TRUE
  MaxStrong = 1
SPECIFICATION FairSpec
CHECK_DEADLOCK FALSE
INVARIANTS
  FreeListSound
  CounterCoversFreeList
  SpinnerIsAwaited
  Inv
PROPERTIES
  NeverZeroOnFreeList
  EveryCallReturns
