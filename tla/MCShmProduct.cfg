CONSTANTS
  Producer = {p1, p2}
  Consumer = {c1}
  MaxRuns = 4
  MaxKills = 1
SPECIFICATION Spec
SYMMETRY Symmetry
INVARIANTS
  PrintsWholeProductsOnce
  NothingLeftBehind
PROPERTY BusErrorOnlyInWindow
CHECK_DEADLOCK FALSE
