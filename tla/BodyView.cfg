SPECIFICATION FairSpec
CHECK_DEADLOCK FALSE
CONSTANTS
  Docs <- DocsMC
  Exchanges = {1, 2}
  MaxEvents = 3
  MaxDecodes = 4
  MaxMoves = 2
  MaxFailures = 1
INVARIANTS
  NoOrphanJob
  ResultIsOfBody
  ViewCoherent
PROPERTIES
  PanesSettle
