SPECIFICATION Spec
CHECK_DEADLOCK FALSE
CONSTANTS
  MaxRows = 2
  MaxEvents = 3
INVARIANTS
  SelectedInView
