SPECIFICATION Spec
CONSTANTS
  NumItems = 5
  Requested <- MAX_NTHREADS
  Hardware = 3
INVARIANTS RemainderProcessed
CHECK_DEADLOCK FALSE
