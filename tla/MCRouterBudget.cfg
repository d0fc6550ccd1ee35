SPECIFICATION Spec
CONSTANTS
  r1 = r1
  r2 = r2
  p1 = p1
  NumBackends = 2
  FailureThreshold = 1
  Probes <- MCProbes
  Requests <- MCOneRequest
  RoundRobinCycle = 2
  RetryAttempts = 3
  Strategy = "weighted_p2c"
PROPERTY RetryHasBudget
