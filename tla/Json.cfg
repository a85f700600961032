SPECIFICATION Spec
CHECK_DEADLOCK FALSE
CONSTANTS
  MaxTokens = 9
  Bits <- MCBits
  Scalars <- MCScalars
  MayMixFloats = FALSE
INVARIANTS JsonIsAccepted ConsumedIsJson NoReadPastEnd TreeIsDerived PrintsWhatWasSaid
