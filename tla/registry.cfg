SPECIFICATION FairSpec
CONSTANTS
  Nodes = {n1, n2}
  MaxLeases = 2
  MaxFaults = 1
  MaxCallbacks = 1
  NotCached = NotCached
INVARIANTS TypeOK OnlyLeaseLossHides
PROPERTIES CacheFollows DeadAreForgotten
CHECK_DEADLOCK FALSE
