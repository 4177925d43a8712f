SPECIFICATION FairSpec
CONSTANTS
  NULL = NULL
  Blocks = {b1, b2, b3}
  INCR = 0
  NBUCKETS = 2
  RETRY = 1
  Sizes = {1, 3}
  CallbackFrees = FALSE
INVARIANTS TypeOK BlocksTracked PoolsSound
PROPERTIES HeapSpec AllocReturns
