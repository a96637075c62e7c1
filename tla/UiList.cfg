SPECIFICATION Spec
CONSTANTS
  Kinds <- KindsMC
  HitPath = "p"
  MaxId = 4
INVARIANTS
  NavigationComplete
  LanesPacked
  GroupedOnce
PROPERTIES
  SelectionShown
