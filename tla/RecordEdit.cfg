SPECIFICATION Spec
CONSTANTS
    Radix = 2
    Values = {0, 93}
    Keys = {1}
    Capacities = {0, 2}
    MaxTokens = 5
    MaxDepth = 3
    MayLeaveGap = FALSE
    MayRemoveFull = FALSE
INVARIANTS EndsWithMemory MarkerAtLastOff
PROPERTIES EditsWhatIsAsked NothingReserved
