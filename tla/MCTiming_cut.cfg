SPECIFICATION Spec
CONSTANTS
  N = 9
  maxFanout = 2
  Timeout = 1
  Slack = 3
  ReadTimeout = 0
  LookupTime = 0
INVARIANTS
  NeverCut
