CONSTANTS
  Windows = {w1, w2}
  MaxRequests = 3
SPECIFICATION Spec
INVARIANTS OneAdministrator
PROPERTIES PagesSettle
