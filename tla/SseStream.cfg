SPECIFICATION FairSpec
CHECK_DEADLOCK FALSE
CONSTANTS
  Chunks <- ChunksMC
  MaxChunks = 4
  MaxEvents = 3
  MaxScrolls = 2
INVARIANTS FedEqualsWhole
PROPERTIES FollowsToEnd FinishedShown
