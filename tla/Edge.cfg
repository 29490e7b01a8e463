SPECIFICATION EdgeFairSpec
CONSTANTS
  App = {a}
  Workspace = {w}
  Host = {h}
  Callback = {c1, c2}
  MaxLookups = 2
INVARIANTS
  RoutedIsProven
  AssertedOnce
PROPERTIES
  RevokedRoutesGo
CHECK_DEADLOCK FALSE
