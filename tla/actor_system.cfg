SPECIFICATION FairSpec
CONSTANTS
  t1 = t1
  t2 = t2
  t3 = t3
  Actors = {a1, a2}
  Threads = {t1, t2, t3}
  NoThread = NoThread
  Capacity = 1
  MaxCalls <- MCMaxCalls
INVARIANTS TypeOK RegistryIsTruth CountersAddUp
PROPERTIES ImplementsContract CallsReturn
CHECK_DEADLOCK FALSE
