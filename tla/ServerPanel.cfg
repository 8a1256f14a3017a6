CONSTANTS
  Keys = {k}
  Passwords = {p}
  Tables <- MCTables
  MaxId = 3
  Bounds <- MCBounds
SPECIFICATION Spec
INVARIANTS RefusedForTheTable ListIsTrue
PROPERTIES SavedAsShown FormLeavesForCause
CHECK_DEADLOCK FALSE
