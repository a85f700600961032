CONSTANTS
  c1 = c1
  c2 = c2
  s1 = s1
  s2 = s2
  s3 = s3
  s4 = s4
  Clients = {c1, c2}
  Strings = {s1, s2, s3, s4}
  Removable = {s3, s4}
  Null = Null
  Free = Free
  Blank = Blank
  InitCap = 1
  MaxBatch = 2
  MaxCalls <- MCMaxCalls
  Listers = {c1}
SPECIFICATION Spec
SYMMETRY Symmetry
CHECK_DEADLOCK FALSE
INVARIANTS
  FreelistExact
  InsertedStaysFound
  LocatedIsExtracted
  ListsWhatIsFound
  ListsWhatWasThere
PROPERTY
  ImplementsStringDict
