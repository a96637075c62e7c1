SPECIFICATION Spec
CONSTANTS
  e1 = e1
  e2 = e2
  Exchanges = {e1, e2}
  MaxChunks = 1
SYMMETRY Symmetry
INVARIANTS
  HeadFirst
  SeenBeforeSent
  MonitorAgrees
  
