----------------------------- MODULE MCSemaphore -----------------------------
(* Semaphore for TLC: t1 is above the other threads.                       *)
EXTENDS Semaphore, TLC

CONSTANTS t1

Layered == [t \in Thread |-> IF t = IdleThread THEN IDLE_PRIORITY
                             ELSE IF t = t1 THEN 2 ELSE 1]

Sym == Permutations(Thread \ {IdleThread, t1})
=============================================================================
