SPECIFICATION FairSpec
CONSTANTS
  idle = idle
  t1 = t1
  t2 = t2
  t3 = t3
  Thread = {idle, t1, t2}
  IdleThread = idle
  wait = wait
  WaitQueue = {wait}
  NULL = NULL
  HIGHEST_PRIORITY = 2
  QUANTUM = 1
  MaxNest = 0
  ThreadPriority <- Flat
  Timeouts = {"FINITE", "INFINITE"}
  MayDestroy = FALSE

PROPERTY WaiterAcquires
