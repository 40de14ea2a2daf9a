------------------------------ MODULE Semaphore ------------------------------
(***************************************************************************)
(* The semaphore of the LK kernel (kernel/semaphore.c) on top of the       *)
(* scheduler.  count goes below zero by one for every thread that waits.   *)
(*                                                                         *)
(* available is what the users of the semaphore reckon with: the initial   *)
(* value, plus one for each post that woke nobody, less one for each wait  *)
(* that returned without blocking.                                         *)
(* sem_timedwait() with a zero timeout of an exhausted semaphore, and a    *)
(* sem_trywait() that fails, change nothing.                               *)
(***************************************************************************)
EXTENDS WaitObject, FiniteSets

CONSTANTS
  InitialCount,  \* the value given to sem_init
  MaxCount       \* bound: no posts once so many resources are available

ASSUME SemaphoreAssumption ==
  InitialCount \in Nat /\ MaxCount \in Nat /\ IsFiniteSet(Thread)

VARIABLES
  valid,      \* the semaphore is initialised
  count,
  available

semVars == <<valid, count, available, wait_magic>>
vars == <<schedVars, semVars>>

Init ==
  /\ SchedInit
  /\ valid = TRUE
  /\ count = InitialCount
  /\ available = InitialCount

sem_init(t) ==
  /\ no_switch(t) /\ MayDestroy /\ ~valid /\ DestroyIsOver
  /\ wait_queue_init
  /\ valid' = TRUE
  /\ count' = InitialCount
  /\ available' = InitialCount

sem_destroy(t) ==
  /\ MayDestroy /\ NoTimedWait
  /\ Calls(t) /\ valid
  /\ valid' = FALSE
  /\ count' = 0
  /\ available' = 0
  /\ wait_queue_destroy(t)

sem_destroy_return(t) ==
  /\ wait_queue_destroy_return(t)
  /\ UNCHANGED <<valid, count, available>>

\* The count after the increment says that a thread is waiting.
waiting(n) == n <= 0

sem_post(t) ==
  /\ Calls(t) /\ valid /\ available < MaxCount
  /\ count' = count + 1
  /\ \/ /\ waiting(count') /\ wait_list[wait] # <<>>
        /\ wake_one_resched(wait, "NO_ERROR", critical_section_count + 1)
        /\ goto(t, "wake")
        /\ UNCHANGED <<timeVars, ctlVars, available>>
     \/ /\ ~(waiting(count') /\ wait_list[wait] # <<>>)
        /\ available' = available + 1
        /\ UNCHANGED schedVars
  /\ UNCHANGED <<valid, wait_magic>>

\* sem_timedwait(), and sem_wait() with timeout = "INFINITE".
sem_timedwait(t, timeout) ==
  /\ Calls(t) /\ valid
  /\ count' = count - 1
  /\ \/ /\ count' >= 0
        /\ available' = available - 1
        /\ UNCHANGED schedVars
     \/ /\ count' < 0
        /\ wait_queue_block(wait, timeout, critical_section_count + 1)
        /\ goto(t, "wait")
        /\ UNCHANGED <<ctlVars, available>>
  /\ UNCHANGED <<valid, wait_magic>>

\* Variant for mutation: the decrement of a timed out wait stays.
timedwait_keeps_count(t) == count

\* count after wait_queue_block(); sem_wait() cannot time out.
timedwait_count(t) ==
  IF wait_queue_block_ret[t] = "ERR_TIMED_OUT" THEN count + 1 ELSE count

sem_timedwait_return(t) ==
  /\ Running(t) /\ pc[t] = "wait"
  /\ wait_queue_unblocked(t)
  /\ leave(t, 2)
  /\ count' = timedwait_count(t)
  /\ UNCHANGED <<ctlVars, valid, available, wait_magic>>

\* Variant for mutation: zero counts as available.
trywait_ready_at_zero(n) == n >= 0

trywait_ready(n) == n > 0

sem_trywait(t) ==
  /\ no_switch(t) /\ valid /\ trywait_ready(count)
  /\ count' = count - 1
  /\ available' = available - 1
  /\ UNCHANGED <<valid, wait_magic>>

-----------------------------------------------------------------------------
Next ==
  \/ Irq /\ UNCHANGED semVars
  \/ \E t \in Thread :
       \/ (thread_sleep(t) \/ Return(t)) /\ UNCHANGED semVars
       \/ sem_init(t)
       \/ sem_destroy(t)
       \/ sem_post(t)
       \/ \E timeout \in Timeouts : sem_timedwait(t, timeout)
       \/ sem_timedwait_return(t)
       \/ sem_trywait(t)
       \/ wake_all_step(t, "ERR_OBJECT_DESTROYED") /\ UNCHANGED semVars
       \/ wake_all_finish(t, "destroy") /\ UNCHANGED semVars
       \/ sem_destroy_return(t)

Spec == Init /\ [][Next]_vars

-----------------------------------------------------------------------------
(* Properties                                                              *)

\* Threads whose decrement of count is still to be matched by a post or to be
\* taken back: those that wait, and those that timed out and have not run.
Pending == {t \in Thread : pc[t] = "wait" /\
              (state[t] = "BLOCKED" \/ wait_queue_block_ret[t] = "ERR_TIMED_OUT")}

\* Every variable has its type.
SemaphoreTypeOK ==
  /\ TypeOK
  /\ valid \in BOOLEAN
  /\ count \in Int
  /\ available \in Int

\* count is what is available less the threads that wait or have timed out.
CountIsBalance == valid => count = available - Cardinality(Pending)

\* More waits never succeed than there were resources.
NeverOverdrawn == available >= 0
=============================================================================
