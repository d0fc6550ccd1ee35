SPECIFICATION Spec
CONSTANTS
  c1 = c1
  c2 = c2
  g1 = g1
  g2 = g2
  Callers <- MCCallers
  Replicas <- MCOneReplica
  Home <- MCOneHome
  Offset <- MCNoOffset
  Burst = 1
  Rate = 1
  Unit = 2
  MaxTime = 4
  MaxCalls = 6
  MaxFaults = 0
INVARIANTS
  RemoteRate
CHECK_DEADLOCK FALSE
