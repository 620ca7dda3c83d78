SPECIFICATION Spec
CONSTANTS
  h1 = h1
  h2 = h2
  x1 = x1
  x2 = x2
  x3 = x3
  Hosts = {h1}
  Queries = {x1, x2}
  TTL = 2
  MaxTime = 4
  MaxRenumber = 2
  MaxFailures = 1
INVARIANTS
  TypeOK
  BoundedStaleness
  ReResolvesAfterFailure
SYMMETRY QuerySymmetry
CHECK_DEADLOCK FALSE
