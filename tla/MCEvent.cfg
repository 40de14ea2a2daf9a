SPECIFICATION Spec
CONSTANTS
  idle = idle
  t1 = t1
  t2 = t2
  t3 = t3
  Thread = {idle, t1, t2, t3}
  IdleThread = idle
  wait = wait
  WaitQueue = {wait}
  NULL = NULL
  HIGHEST_PRIORITY = 2
  QUANTUM = 1
  MaxNest = 0
  ThreadPriority <- Layered
  Timeouts = {"FINITE", "INFINITE"}
  MayDestroy = TRUE
SYMMETRY Sym
INVARIANTS
  EventTypeOK
  NoSignalMissed
  OneWaitPerSignal
