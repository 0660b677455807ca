CONSTANTS
  main = main
  worker = worker
  Element <- Elements
  Root = "root"
  Children <- ElementChildren
  Thread = {main, worker}
  MainThread = main
  WorkUnitMax = 2
  LocalQueueSize <- LocalQueues
  Hash <- Hashes
  FirstSlot <- First
  SecondSlot <- Second
  Slot = {1, 2, 3}
  HashesOf <- ElementHashes
  MaxCount = 3
  MemsetClearThreshold = 2
  Changes <- PendingChanges
  Flags <- ElementFlags
  Invalidates <- ElementInvalidates
SPECIFICATION FairSpec
CHECK_DEADLOCK FALSE
INVARIANTS QueuesSound EveryElementRestyled PostTraversalFindsAll
PROPERTIES ImplementsParallelTraversal MatchedWithAncestors ImplementsOrder Terminates
