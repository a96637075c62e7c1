SPECIFICATION Spec
CONSTANTS
  Forests <- ForestsMC
  NextForests <- NextForestsMC
  MaxNodes = 6
  Window = 2
  ExpandDepth = 1
  SmallTree = 3
  Budget = 3
INVARIANTS RowsAreTheTree LazyTreeAgrees WindowsForgotten
