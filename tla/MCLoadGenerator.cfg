SPECIFICATION FairSpec
CONSTANTS
  w1 = w1
  w2 = w2
  Workers <- MCWorkers
  Calls <- MCCalls
  MaxCalls = 1
  MaxTokens = 1
INVARIANTS
  TypeOK
  MaxIsExact
  ReportAgrees
PROPERTIES
  RunReturns
  MockDrains
CHECK_DEADLOCK FALSE
