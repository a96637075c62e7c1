SPECIFICATION Spec
CONSTANTS
  Ids = {i1, i2, i3}
  BodyOf = {"Response"}
  MaxBody = 1
  MaxExchanges = 2
  MaxPayload = 1
  MaxFaults = 1
SYMMETRY Symmetry
INVARIANTS
  IdsMatch
  CapsHold
  BodyIsWhatWasSent
PROPERTIES
  SelectedKept
