SPECIFICATION FairSpec
CONSTANTS
  Clients = {c1, c2}
  Updates <- MCUpdates
  Keys = {"k", "j"}
  Values = {1, 2}
  MaxUpdates = 3
  MaxPerUpdate = 2
  MaxPerProof = 3
INVARIANTS ChainIsHistory RollupMatchesRebuild
PROPERTIES SettlesUnlessOvertaken
CHECK_DEADLOCK FALSE
