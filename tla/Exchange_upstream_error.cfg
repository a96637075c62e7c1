SPECIFICATION Spec
CONSTANTS
  e1 = e1
  Exchanges = {e1}
  MaxChunks = 1
INVARIANTS
  UpstreamFailureShown
