SPECIFICATION Spec
CONSTANTS
  h1 = h1
  h2 = h2
  x1 = x1
  x2 = x2
  x3 = x3
  Hosts = {h1}
  Queries = {x1}
  TTL = 2
  MaxTime = 2
  MaxRenumber = 1
  MaxFailures = 2
PROPERTIES
  FailureDropsAddress
CHECK_DEADLOCK FALSE
