SPECIFICATION FairSpec
CONSTANTS
  Keys = {1, 2, 3, 4, 5, 6}
  Values = {1, 2}
  Hash <- MCHash
  None = None
  Capacities = {1, 2, 3, 6}
  MaxCap = 6
  MayUpdateDisplaced = FALSE
CHECK_DEADLOCK FALSE
INVARIANT FindsABucket
PROPERTIES
  ImplementsMap
  CallsReturn
