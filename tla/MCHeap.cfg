SPECIFICATION FairSpec
CONSTANTS
  t1 = t1
  t2 = t2
  Thread = {t1, t2}
  NULL = NULL
  HEAP_START = 12
  HEAP_LEN = 18
  POINTER = 2
  BEGIN_SIZE = 4
  CHUNK_SIZE = 6
  MIN_ALIGNMENT = 4
  Request <- Requests
  Block <- Above
INVARIANTS
  FreeListMerged
  
  RemainingIsFree
PROPERTIES
  
  CallReturns
