SPECIFICATION CbufFairSpec
CONSTANTS
  idle = idle
  t1 = t1
  t2 = t2
  Thread = {idle, t1, t2}
  IdleThread = idle
  wait = wait
  WaitQueue = {wait}
  NULL = NULL
  HIGHEST_PRIORITY = 1
  QUANTUM = 1
  MaxNest = 1
  ThreadPriority <- Flat
  Timeouts = {"INFINITE"}
  MayDestroy = FALSE
  LEN = 4
  WriteLen = {1}
  ReadLen = {1, 3}
INVARIANTS
  CriticalSectionsBalanced
  BytesInOrder
  SignalledIfReadable
PROPERTY BlockedReaderReturns
