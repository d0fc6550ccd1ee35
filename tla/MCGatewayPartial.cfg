SPECIFICATION Spec
CONSTANTS
  r1 = r1
  r2 = r2
  Requests <- MCRequests
  Kinds <- MCKinds
  MaxBatchSize = 1
  QueueCapacity = 1
  Workers = 1
  AnswerChunks = 2
  MaxOpens = 2
INVARIANTS
  CachesFullAnswers
CHECK_DEADLOCK FALSE
