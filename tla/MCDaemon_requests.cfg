SPECIFICATION FairDaemonSpec
CONSTANTS
  q1 = q1
  q2 = q2
  d1 = d1
  p1 = p1
  NotNum = NotNum
  NoDigest = NoDigest
  MaxInt = 99999
  Configs <- BothListeners
  Requests = {q1, q2}
  NServers = 1
  Endpoints <- CheckAndReport
  PyzorServers <- OneServer
  Digests = {d1}
  MaxFanout = 1
  Threads <- TwoThreads
  Ports = {p1}
  Faults <- GoodOrRefused
  InitCounters <- Unseen
  MaxDeliveries = 1
  RCount = 0
  WLCount = 0
PROPERTIES
  FailureEndsServe
  GateReopens
  ImplementsServe
CHECK_DEADLOCK FALSE
