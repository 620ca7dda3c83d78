SPECIFICATION Spec
CONSTANTS
  c1 = c1
  c2 = c2
  c3 = c3
  d1 = d1
  p1 = p1
  p2 = p2
  p3 = p3
  NotNum = NotNum
  NoDigest = NoDigest
  MaxInt = 99999
  Servers <- OneServer
  Calls = {c1, c2, c3}
  Digests = {d1}
  Requests <- AllRequests
  MaxFanout = 2
  Threads <- ThreeThreads
  Ports = {p1}
  Faults <- SomeFaults
  InitCounters <- Unseen
  MaxDeliveries = 1
  RCount = 0
  WLCount = 0
INVARIANTS
  FreshCounts
  TrueMeansApplied
  RevokedIsNoHit
  ReportedIsHit
PROPERTIES
  ImplementsService
CONSTRAINT ThreadsTellApart
SYMMETRY CallSymmetry
CHECK_DEADLOCK FALSE
