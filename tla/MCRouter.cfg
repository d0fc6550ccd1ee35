SPECIFICATION MCSpec
CONSTANTS
  r1 = r1
  r2 = r2
  p1 = p1
  NumBackends = 2
  FailureThreshold = 1
  Probes <- MCProbes
  Requests <- MCRequests
  RoundRobinCycle = 2
  RetryAttempts = 3
  Strategy = "weighted_p2c"
INVARIANTS
  TypeOK
  InFlightExact
  NeverTwice
  GivesUpLate
  GaugeAgrees
PROPERTIES
  DoReturns
