SPECIFICATION FairSpec
CONSTANTS
  Services = {s1, s2}
  Clients = {c1}
  Watched = {s1}
  PrintMessages = TRUE
  RecordExamples = TRUE
  BufSize = 1
  MaxIds = 2
  MaxEvents = 3
INVARIANTS
  RecordingComplete
  PrintedComplete
PROPERTIES
  FailFast
CHECK_DEADLOCK FALSE
