SPECIFICATION FairSpec
CONSTANTS
  c1 = c1
  c2 = c2
  c3 = c3
  d1 = d1
  p1 = p1
  p2 = p2
  p3 = p3
  NotNum = NotNum
  NoDigest = NoDigest
  MaxInt = 99999
  Servers <- ThreeServers
  Calls = {c1}
  Digests = {d1}
  Requests <- ChecksOnly
  MaxFanout = 2
  Threads <- OneThread
  Ports = {p1, p2, p3}
  Faults <- OneGoodOneBad
  InitCounters <- Seen
  MaxDeliveries = 1
  RCount = 0
  WLCount = 0
INVARIANTS
  TypeOK
  FanoutBounded
  VerdictExplained
PROPERTIES
  NoWriteAfterReturn
  CallsReturn
CHECK_DEADLOCK FALSE
