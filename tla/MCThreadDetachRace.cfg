SPECIFICATION Spec
CONSTANTS
  idle = idle
  t1 = t1
  t2 = t2
  t3 = t3
  Thread = {idle, t1, t2, t3}
  IdleThread = idle
  WaitQueue = {idle, t1, t2, t3}
  NULL = NULL
  HIGHEST_PRIORITY = 2
  QUANTUM = 1
  MaxNest = 0
  CreatePriority = {1}
  SetPriority <- OutOfRange
  SharedHandles = TRUE
SYMMETRY Workers
INVARIANT JoinFindsDeadThread
