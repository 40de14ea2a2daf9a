SPECIFICATION Spec
CONSTANTS
  idle = idle
  t1 = t1
  t2 = t2
  Thread = {idle, t1, t2}
  IdleThread = idle
  WaitQueue = {idle, t1, t2}
  NULL = NULL
  HIGHEST_PRIORITY = 2
  QUANTUM = 1
  MaxNest = 1
  CreatePriority = {1}
  SetPriority <- OutOfRange
  SharedHandles = TRUE
SYMMETRY Workers
INVARIANTS
  TypeOK
  QueuesCoherent
  CriticalSectionsBalanced
  NoTimerOutlivesItsFrame
  OwnJoinFindsDeadThread
  NoJoinerForgotten
PROPERTY HighestPriorityRuns
