SPECIFICATION Spec
CONSTANTS
  MaxRequests = 2
  MaxBlocks = 9
  Deadline = 1
CHECK_DEADLOCK FALSE
INVARIANT
  FreshAfterInterruption
