SPECIFICATION FairHealthSpec
CONSTANTS
  NumBackends = 1
  FailureThreshold = 2
  Probes = {p1, p2, p3}
PROPERTIES
  Recovers
  GoesDown
