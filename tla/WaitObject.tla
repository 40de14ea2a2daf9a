----------------------------- MODULE WaitObject ------------------------------
(***************************************************************************)
(* What the synchronisation objects of the kernel have in common: a fixed  *)
(* set of threads, all started and asleep in thread_sleep() at first, that *)
(* share one object with one wait queue.  Mutex, Semaphore and Event       *)
(* extend this module with the calls of their source file.                 *)
(***************************************************************************)
EXTENDS Scheduler

CONSTANTS
  wait,            \* the wait queue of the object
  ThreadPriority,  \* thread -> its priority
  Timeouts,        \* bound: the timeouts that callers pass
  MayDestroy       \* whether the object is destroyed and initialised again

ASSUME WaitObjectAssumption ==
  /\ WaitQueue = {wait}
  /\ ThreadPriority \in [Thread -> Priority]
  /\ ThreadPriority[IdleThread] = IDLE_PRIORITY
  /\ Timeouts \subseteq {"FINITE", "INFINITE"}
  /\ MayDestroy \in BOOLEAN

VARIABLE wait_magic  \* the wait queue is initialised

\* Critical sections entered by the call a thread is in, per label: "wait"
\* is inside wait_queue_block(), "wake_all" and "wake_quiet" in the loop of
\* wait_queue_wake_all() with and without a reschedule, "wake" in the
\* thread_resched() at its end, and "destroy" in the one at its end when
\* wait_queue_destroy() called it.
Frames == [user |-> 0, start |-> 1, yield |-> 1, sleep |-> 1, wait |-> 2,
           wake_all |-> 1, wake_quiet |-> 1, wake |-> 1, destroy |-> 1]

\* Every thread is in its first thread_sleep(), the idle thread runs.
SchedInit ==
  /\ current_thread = IdleThread
  /\ state = [t \in Thread |-> IF t = IdleThread THEN "RUNNING" ELSE "SLEEPING"]
  /\ priority = ThreadPriority
  /\ remaining_quantum = [t \in Thread |-> QUANTUM]
  /\ run_queue = [p \in Priority |-> <<>>]
  /\ run_queue_bitmap = {}
  /\ critical_section_count = 0
  /\ saved_critical_section_count = [t \in Thread |-> 1]
  /\ wait_list = [q \in WaitQueue |-> <<>>]
  /\ wait_count = [q \in WaitQueue |-> 0]
  /\ blocking_wait_queue = [t \in Thread |-> NULL]
  /\ wait_queue_block_ret = [t \in Thread |-> "NO_ERROR"]
  /\ block_timeout = [t \in Thread |-> "INFINITE"]
  /\ timer = [t \in Thread |-> IF t = IdleThread THEN "none" ELSE "sleep"]
  /\ pc = [t \in Thread |-> IF t = IdleThread THEN "user" ELSE "sleep"]
  /\ preempted = {}
  /\ depth = [t \in Thread |-> 0]
  /\ irq = "off"
  /\ wait_magic = TRUE

\* One turn of the loop of wait_queue_wake_all().
wake_all_step(t, err) ==
  /\ Running(t) /\ pc[t] \in {"wake_all", "wake_quiet"}
  /\ wait_list[wait] # <<>>
  /\ wake_head(wait, err)
  /\ UNCHANGED <<current_thread, remaining_quantum, critical_section_count,
                 saved_critical_section_count, timeVars, ctlVars, pc>>

\* The switch after the loop.
wake_all_finish(t, label) ==
  /\ Running(t) /\ pc[t] = "wake_all"
  /\ woken_all(wait)
  /\ wake_all_end
  /\ goto(t, label)
  /\ UNCHANGED <<waitVars, timeVars, ctlVars>>

\* No switch after a loop without a reschedule.
wake_quiet_finish(t) ==
  /\ Running(t) /\ pc[t] = "wake_quiet"
  /\ woken_all(wait)
  /\ leave(t, 1)
  /\ UNCHANGED <<waitVars, timeVars, ctlVars>>

\* A call that only enters and leaves its critical section.
no_switch(t) == Calls(t) /\ UNCHANGED schedVars

\* wait_queue_destroy(): all waiters are woken, and the queue is marked only
\* after the switch to them.
wait_queue_destroy(t) ==
  \/ /\ wait_count[wait] > 0
     /\ wake_all_begin
     /\ critical_section_count' = critical_section_count + 1
     /\ goto(t, "wake_all")
     /\ UNCHANGED <<waitVars, timeVars, ctlVars, wait_magic>>
  \/ /\ wait_count[wait] = 0
     /\ wait_magic' = FALSE
     /\ UNCHANGED schedVars

wait_queue_destroy_return(t) ==
  /\ Running(t) /\ pc[t] = "destroy"
  /\ wait_magic' = FALSE
  /\ leave(t, 1)
  /\ UNCHANGED <<waitVars, timeVars, ctlVars>>

\* Variant for mutation: the queue is left as it is.
wait_queue_not_initialised == UNCHANGED wait_magic

\* wait_queue_init(), of a queue whose list is empty.
wait_queue_init == wait_magic' = TRUE

\* "the caller must assure that no other threads are operating on the wait
\* queue during or after the call" of wait_queue_destroy(): the object is
\* initialised again only when that call is over.
DestroyIsOver ==
  wait_list[wait] = <<>> /\ \A t \in Thread : pc[t] # "destroy"

\* "race: the mutex may have been destroyed after the timeout, but before we
\* got scheduled again which makes messing with the count variable dangerous":
\* nobody waits with a timeout for an object with a count that is destroyed.
NoTimedWait ==
  \A t \in Thread : pc[t] = "wait" => block_timeout[t] = "INFINITE"

\* Every variable of the scheduler has its type.
TypeOK ==
  /\ SchedTypeOK
  /\ pc \in [Thread -> DOMAIN Frames]
  /\ wait_magic \in BOOLEAN

\* As in module Thread: run queues, bitmap, wait queue and states agree.
QueuesCoherent == RunQueueCoherent /\ WaitQueueCoherent /\ OneRunningThread

\* As in module Thread: critical sections are balanced over every switch.
CriticalSectionsBalanced == Balanced(Frames)

\* The inductive invariant of the scheduler with these calls.
WaitObjectInv == SchedInv(Frames)
=============================================================================
