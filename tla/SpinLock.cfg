CONSTANTS
  t1 = t1
  t2 = t2
  t3 = t3
  Threads = {t1, t2, t3}
  None = None
  MaxDepth = 2
SPECIFICATION FairSpec
CONSTRAINT NotNested
INVARIANTS
  TypeOK
  MutualExclusion
  OwnerNotStale
PROPERTIES
  SomebodyEnters
  ImplementsMutex
