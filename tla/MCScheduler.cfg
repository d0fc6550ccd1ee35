SPECIFICATION MCSpec
CONSTANTS
  j1 = j1
  j2 = j2
  j3 = j3
  j4 = j4
  j5 = j5
  Jobs <- MCJobs
  MaxBatchSize = 2
  QueueCapacity = 1
  Workers = 1
INVARIANTS
  TypeOK
  ExactlyOnce
  OutstandingBound
  WakeupDue
PROPERTIES
  DrainedAtExit
  ImplementsFifo
  AcceptedBeforeStopAnswered
  StopReturns
CHECK_DEADLOCK FALSE
