CONSTANTS
  Servers = {s1, s2}
  Paths = {root, sub}
  Names = {n}
  Root = root
  Contents <- AllFull
  MaxGen = 3
  MaxFiles = 2
SPECIFICATION Spec
INVARIANTS RowsAreOfView ListingIsTrue
PROPERTIES ActsOnWhatIsListed
SYMMETRY Symmetry
CHECK_DEADLOCK FALSE
