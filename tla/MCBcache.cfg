SPECIFICATION Spec
CONSTANTS
  BLOCK_SIZE = 2
  BLOCK_COUNT = 9
  START = 1
  COUNT = 6
  Byte = {1}
  CACHE_BLOCK = 4
  BUFFERS = 2
  MaxRefs = 1
  Transfer <- Transfers
INVARIANTS
  PointersStayValid
  CleanMatchesDisk
PROPERTIES
  RawWriteExact
  
CONSTRAINT OneTornBlock
CHECK_DEADLOCK FALSE
