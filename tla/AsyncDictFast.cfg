CONSTANTS
  a = a
  b = b
  c = c
  t1 = t1
  t2 = t2
  Threads = {t1, t2}
  None = None
  Strings = {a, b, c}
  Carriers = 2
  OwnerOf <- MCOwnerOf
  CarrierIds = 2
  LocalIds = 2
  NullText = NullText
  Ops = {"insert", "locate_fast"}
  Alone = {}
  Batches <- MCBatches
  MaxCalls = 3
SPECIFICATION Spec
CHECK_DEADLOCK FALSE
INVARIANT
  ResultsReady
