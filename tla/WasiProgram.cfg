SPECIFICATION WasiFairSpec
CONSTANTS
  MaxRequests = 3
  MaxBlocks = 12
  Deadline = 2
  MaxHostCalls = 2
  MaxPrinted = 2
CHECK_DEADLOCK FALSE
INVARIANTS
  TypeOK
  ResultOfOwnRequest
  HeapGivenBack
  BudgetIsExact
  DeadlineMeansFreshGuest
  StdinIsInOrder
  VerdictOfOwnRun
PROPERTIES
  ImplementsEvaluator
  OperationsEnd
