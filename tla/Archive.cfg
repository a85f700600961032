SPECIFICATION Spec
CHECK_DEADLOCK FALSE
CONSTANTS
  Bits <- MCBits
  Documents <- MCDocuments
  Queried <- MCQueried
  Ids = {0, 1, 2, 3, 4, 5, 6, 7}
  Asked = {0, 1, 2, 3, 4}
  Content <- MCContent
  Hash <- MCHash
  ListLength = 3
  MaxStrings = 8
  Batch = 2
  Losses = {}
INVARIANT FileHoldsDocument
PROPERTY CacheIsLru
