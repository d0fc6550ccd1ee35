SPECIFICATION Spec
CONSTANTS
  c1 = c1
  c2 = c2
  g1 = g1
  g2 = g2
  Callers <- MCCallers
  Replicas <- MCReplicas
  Home <- MCHome
  Offset <- MCOffset
  Burst = 2
  Rate = 1
  Unit = 2
  MaxTime = 4
  MaxCalls = 5
  MaxFaults = 1
INVARIANTS
  TypeOK
  RateKept
PROPERTIES
  RefusedOnlyWhenSpent
CHECK_DEADLOCK FALSE
