CONSTANTS
  a = a
  b = b
  c = c
  t1 = t1
  t2 = t2
  Threads = {t1, t2}
  None = None
  Strings = {a, b, c}
  Carriers = 2
  OwnerOf <- MCOwnerOf
  CarrierIds = 2
  LocalIds = 2
  NullText = NullText
  Ops = {"insert", "locate", "extract", "locate_fast", "get_contents"}
  Alone = {"locate_fast", "get_contents"}
  Batches <- MCBatches
  MaxCalls = 2
SPECIFICATION FairSpec
CHECK_DEADLOCK FALSE
INVARIANTS
  ResultsReady
  IdsOneToOne
  SeesEarlierCalls
PROPERTY
  CallsReturn
