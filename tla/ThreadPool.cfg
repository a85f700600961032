CONSTANTS
  a = a
  b = b
  c = c
  w = w
  Tasks = {a, b}
  Waiters = {w}
  InitSize = 2
  Groups = 2
  Stride = 1
  Sizes = {}
  MaxThreads = 2
  MayFree = TRUE
  Monitoring = TRUE
  None = None
SPECIFICATION FairSpec
CHECK_DEADLOCK FALSE
INVARIANTS
  CountMatches
  WaitSound
  NoThreadOutlivesPool
PROPERTIES
  WaitAllSound
  FreeReturns
