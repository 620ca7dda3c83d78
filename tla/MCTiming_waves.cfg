SPECIFICATION Spec
CONSTANTS
  N = 5
  maxFanout = 2
  Timeout = 2
  Slack = 8
  ReadTimeout = 2
  LookupTime = 1
INVARIANTS
  TypeOK
  StartsWithItsWave
  NotCutWithinBudget
