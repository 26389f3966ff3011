SPECIFICATION FairStatusSpec
CONSTANTS
  MaxAttempts = 2
  FinalityAttempts = 2
  Threshold = 2
  Settled = 2
  Window = 4
  MaxHeight = 6
INVARIANTS IncludedWasOnChain FinalityIsFinal
PROPERTIES WaitSettles FinalitySettles
CHECK_DEADLOCK FALSE
