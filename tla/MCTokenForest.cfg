SPECIFICATION TokenSpec
CONSTANTS
  Updates = {a, b, c}
  Root = root
  MaxSteps = 5
  MaxUpdates = 3
  MaxLevels = 4
SYMMETRY UpdateSymmetry
INVARIANTS CommitsToContent OncePerTransaction ApprovesWhatItSaw
PROPERTIES MovesOnlyItself
CHECK_DEADLOCK FALSE
