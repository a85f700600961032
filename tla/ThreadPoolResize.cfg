CONSTANTS
  a = a
  b = b
  c = c
  w = w
  Tasks = {a}
  Waiters = {}
  InitSize = 1
  Groups = 1
  Stride = 0
  Sizes = {0, 1, 2, 3}
  MaxThreads = 3
  MayFree = FALSE
  Monitoring = FALSE
  None = None
SPECIFICATION FairSpec
INVARIANTS
  SlotsServed
PROPERTY
  QueuedTasksRun
