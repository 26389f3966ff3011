SPECIFICATION FairSpec
CONSTANTS
  Settlers = {s1, s2}
  Updates <- MCUpdates
  Actions = {"x", "y"}
  BatchSize = 3
  MaxFinal = 1
  MaxPerProof = 2
  MaxPerUpdate = 2
  MaxUpdates = 4
  MaxPending = 1
  MaxCrashes = 1
INVARIANTS StackIsPending
PROPERTIES ImplementsQueue AllIsHandled
CHECK_DEADLOCK FALSE
