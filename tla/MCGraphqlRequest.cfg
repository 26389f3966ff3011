SPECIFICATION FairRequestSpec
CONSTANTS
  Urls = 4
  MaxRetries = 2
  BodyStalls = TRUE
INVARIANTS SomebodyWatches OutcomeHasCause
PROPERTIES ReturnsIfWatched
CHECK_DEADLOCK FALSE
