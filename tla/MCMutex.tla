------------------------------- MODULE MCMutex -------------------------------
(* Mutex for TLC.  t1 is above the others in Layered, all are equal in Flat. *)
EXTENDS MutexLock, TLC

CONSTANTS t1

Layered == [t \in Thread |-> IF t = IdleThread THEN IDLE_PRIORITY
                             ELSE IF t = t1 THEN 2 ELSE 1]
Flat == [t \in Thread |-> IF t = IdleThread THEN IDLE_PRIORITY ELSE 1]

SymLayered == Permutations(Thread \ {IdleThread, t1})
=============================================================================
