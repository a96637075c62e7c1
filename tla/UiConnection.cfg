SPECIFICATION FairSpec
CHECK_DEADLOCK FALSE
CONSTANTS
  Services = {"A", "B"}
  Protocols = {"http", "es"}
  MaxListed = 2
  MaxErrors = 3
INVARIANTS
  OneService
  RecoveryFollowsLoss
  HintHonest
PROPERTIES
  HintAppears
