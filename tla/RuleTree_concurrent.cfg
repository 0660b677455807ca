CONSTANTS
  Thread = {t1, t2}
  NonRoot = {n1, n2}
  Root = root
  Key = {k1, k2}
  NULL = NULL
  DANGLING = DANGLING
  GCInterval = 0
  ExclusiveGC = FALSE
  MaxStrong = 2
SPECIFICATION Spec
CHECK_DEADLOCK FALSE
INVARIANTS
  RefcountExact
  NoUseAfterFree
  Interned
  OneCustodian
  DebugAssertions
  NoLeak
PROPERTIES
  FreedOnlyWhenUnreachable
  ImplementsAbstract
