SPECIFICATION Spec
CONSTANTS
  a = a
  b = b
  Timer = {a, b}
  Delay = {0, 4}
  TICK = 2
  Latency = 1
  WRAP = 1024
  Horizon = 6
  Preemptible = TRUE
SYMMETRY Sym
INVARIANTS
  TypeOK
  QueueSorted
  
  NeverLate
  EarlyByAtMostATick
