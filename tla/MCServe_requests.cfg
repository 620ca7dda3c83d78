SPECIFICATION Spec
CONSTANTS
  q1 = q1
  q2 = q2
  Configs <- AllConfigs
  Requests = {q1, q2}
  NServers = 1
INVARIANTS
  TypeOK
  InFlightBounded
  MetricsAddUp
  ScrapeMissesFew
  NoOpenWrites
  WritesLogged
SYMMETRY RequestSymmetry
CHECK_DEADLOCK FALSE
