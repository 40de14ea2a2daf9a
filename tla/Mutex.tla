-------------------------------- MODULE Mutex --------------------------------
(***************************************************************************)
(* The mutex of the LK kernel (kernel/mutex.c) on top of the scheduler.    *)
(*                                                                         *)
(* count is the number of threads that hold, wait for or are being handed  *)
(* the mutex; a release hands it to the head of the wait queue, and the    *)
(* woken thread only becomes the holder when it runs.  Callers keep the    *)
(* rules of kernel/mutex.h: no recursive acquire, and only a thread whose  *)
(* acquire succeeded releases.  A mutex is destroyed by its owner or when  *)
(* nobody has a claim on it, and not while a thread waits for it with a    *)
(* timeout; mutex_destroy() itself only looks at holder.                   *)
(* An acquire with a zero timeout of a mutex in use changes nothing.       *)
(***************************************************************************)
EXTENDS WaitObject, FiniteSets

ASSUME MutexAssumption == IsFiniteSet(Thread) /\ NULL \notin Thread

VARIABLES
  magic,   \* the mutex is initialised
  holder,
  count,
  owns     \* threads whose acquire returned NO_ERROR, until they release

mutexVars == <<magic, holder, count, owns, wait_magic>>
vars == <<schedVars, mutexVars>>

Init ==
  /\ SchedInit
  /\ magic = TRUE
  /\ holder = NULL
  /\ count = 0
  /\ owns = {}

mutex_init(t) ==
  /\ no_switch(t) /\ MayDestroy /\ ~magic /\ DestroyIsOver
  /\ magic' = TRUE
  /\ holder' = NULL
  /\ count' = 0
  /\ wait_queue_init
  /\ UNCHANGED owns

\* Variant for mutation: one contender too many is let in.
contended_late(n) == n > 2

\* The count after the increment says that others have a claim.
contended(n) == n > 1

mutex_acquire_timeout(t, timeout) ==
  /\ Calls(t) /\ magic /\ t \notin owns
  /\ count' = count + 1
  /\ \/ /\ ~contended(count')
        /\ holder' = t
        /\ owns' = owns \union {t}
        /\ UNCHANGED schedVars
     \/ /\ contended(count')
        /\ wait_queue_block(wait, timeout, critical_section_count + 1)
        /\ goto(t, "wait")
        /\ UNCHANGED <<ctlVars, holder, owns>>
  /\ UNCHANGED <<magic, wait_magic>>

\* Variant for mutation: a timed out acquire falls through to the end.
acquire_ignores_error(t) ==
  /\ count' = IF wait_queue_block_ret[t] = "ERR_TIMED_OUT" THEN count - 1 ELSE count
  /\ holder' = t
  /\ owns' = IF wait_queue_block_ret[t] = "NO_ERROR" THEN owns \union {t} ELSE owns

\* Variant for mutation: a timed out acquire is not backed out.
acquire_keeps_count(t) ==
  /\ UNCHANGED count
  /\ \/ /\ wait_queue_block_ret[t] = "NO_ERROR"
        /\ holder' = t /\ owns' = owns \union {t}
     \/ /\ wait_queue_block_ret[t] # "NO_ERROR"
        /\ UNCHANGED <<holder, owns>>

\* What mutex_acquire_timeout() does once wait_queue_block() returned.
acquire_result(t) ==
  \/ /\ wait_queue_block_ret[t] = "NO_ERROR"
     /\ holder' = t
     /\ owns' = owns \union {t}
     /\ UNCHANGED count
  \/ /\ wait_queue_block_ret[t] = "ERR_TIMED_OUT"
     /\ count' = count - 1
     /\ UNCHANGED <<holder, owns>>
  \/ /\ wait_queue_block_ret[t] \notin {"NO_ERROR", "ERR_TIMED_OUT"}
     /\ UNCHANGED <<holder, count, owns>>

mutex_acquire_return(t) ==
  /\ Running(t) /\ pc[t] = "wait"
  /\ wait_queue_unblocked(t)
  /\ leave(t, 2)
  /\ acquire_result(t)
  /\ UNCHANGED <<ctlVars, magic, wait_magic>>

\* Variant for mutation: the last waiter is not counted.
waiters_left_off_by_one(n) == n > 1

\* The count after the decrement says that somebody waits.
waiters_left(n) == n >= 1

mutex_release(t) ==
  /\ Calls(t) /\ magic /\ t \in owns
  /\ holder' = NULL
  /\ count' = count - 1
  /\ owns' = owns \ {t}
  /\ \/ /\ waiters_left(count') /\ wait_list[wait] # <<>>
        /\ wake_one_resched(wait, "NO_ERROR", critical_section_count + 1)
        /\ goto(t, "wake")
        /\ UNCHANGED <<timeVars, ctlVars>>
     \/ /\ ~(waiters_left(count') /\ wait_list[wait] # <<>>)
        /\ UNCHANGED schedVars
  /\ UNCHANGED <<magic, wait_magic>>

mutex_destroy(t) ==
  /\ MayDestroy /\ NoTimedWait
  /\ Calls(t) /\ magic /\ (t \in owns \/ count = 0)
  /\ magic' = FALSE
  /\ count' = 0
  /\ owns' = owns \ {t}
  /\ wait_queue_destroy(t)
  /\ UNCHANGED holder

mutex_destroy_return(t) ==
  /\ wait_queue_destroy_return(t)
  /\ UNCHANGED <<magic, holder, count, owns>>

-----------------------------------------------------------------------------
Next ==
  \/ Irq /\ UNCHANGED mutexVars
  \/ \E t \in Thread :
       \/ (thread_sleep(t) \/ Return(t)) /\ UNCHANGED mutexVars
       \/ mutex_init(t)
       \/ \E timeout \in Timeouts : mutex_acquire_timeout(t, timeout)
       \/ mutex_acquire_return(t)
       \/ mutex_release(t)
       \/ mutex_destroy(t)
       \/ wake_all_step(t, "ERR_OBJECT_DESTROYED") /\ UNCHANGED mutexVars
       \/ wake_all_finish(t, "destroy") /\ UNCHANGED mutexVars
       \/ mutex_destroy_return(t)

Spec == Init /\ [][Next]_vars

\* The processor keeps executing kernel code, the periodic interrupt stays
\* pending until it is taken and a sleep comes to its end; an owner that is
\* given the processor again and again comes to its release.
Fairness ==
  /\ SF_vars(irq_enter /\ UNCHANGED mutexVars)
  /\ WF_vars(irq_exit /\ UNCHANGED mutexVars)
  /\ \A t \in Thread :
       /\ WF_vars((Return(t) \/ irq_return(t)) /\ UNCHANGED mutexVars)
       /\ SF_vars(thread_sleep_handler(t) /\ UNCHANGED mutexVars)
       /\ WF_vars(mutex_acquire_return(t))
       /\ SF_vars(mutex_release(t))

FairSpec == Spec /\ Fairness

-----------------------------------------------------------------------------
(* Properties                                                              *)

\* t has been handed the mutex by a release and has not run yet.
Handed(t) ==
  pc[t] = "wait" /\ state[t] # "BLOCKED" /\ wait_queue_block_ret[t] = "NO_ERROR"

\* Threads in wait_queue_block() for the mutex as it is now, those that have
\* timed out and have not run since included.
Claiming == {t \in Thread :
  pc[t] = "wait" /\ wait_queue_block_ret[t] # "ERR_OBJECT_DESTROYED"}

\* Every variable has its type.
MutexTypeOK ==
  /\ TypeOK
  /\ magic \in BOOLEAN
  /\ holder \in Thread \union {NULL}
  /\ count \in Int
  /\ owns \in SUBSET Thread

\* At most one thread owns the mutex or is being handed it, whatever times out
\* or is woken at the same time.
MutualExclusion == \A t, u \in Thread :
  (t \in owns \/ Handed(t)) /\ (u \in owns \/ Handed(u)) => t = u

\* The panics of mutex_release and mutex_acquire_timeout never hit a caller
\* that keeps the rules: holder is the owner, nobody when there is none.
HolderIsOwner ==
  magic => owns = IF holder = NULL THEN {} ELSE {holder}

\* count is the number of threads with a claim on the mutex, those included
\* that have timed out and have not run since.
CountIsClaims == magic => count = Cardinality(owns) + Cardinality(Claiming)

\* Nobody overtakes: a thread that takes the mutex without waiting finds no
\* other thread waiting for it or being handed it.
NoBarging ==
  [][\A t \in owns' \ owns : pc[t] = "user" =>
       wait_list[wait] = <<>> /\ \A u \in Thread : ~Handed(u)]_vars

\* The ASSERTs on wait->magic in wait_queue_block() and wait_queue_wake_one()
\* hold of a mutex in use, though mutex_destroy() clears it only after the
\* threads it has woken may have run.
WaitQueueValid == magic => wait_magic

\* A thread only waits for a mutex that somebody owns or is being handed,
\* so that a release is still to come.
WaitsForAnOwner ==
  wait_list[wait] # <<>> => \/ owns # {}
                            \/ \E t \in Thread : Handed(t)
                            \/ ~magic

\* A thread that waits without a timeout gets the mutex, as long as owners
\* release it ("waits ... for the mutex to become available").
WaiterAcquires == \A t \in Thread :
  pc[t] = "wait" /\ block_timeout[t] = "INFINITE" ~> t \in owns

-----------------------------------------------------------------------------
(* The inductive invariant                                                 *)

\* A blocked thread is in its acquire and has not been given a status yet, an
\* owner is not, and only mutex_destroy() wakes all the waiters.  Only waits
\* with a timeout time out, and none of these is for a destroyed mutex.
WaiterOK(t) ==
  /\ state[t] = "BLOCKED" =>
       pc[t] = "wait" /\ wait_queue_block_ret[t] = "NO_ERROR"
  /\ t \in owns => pc[t] # "wait"
  /\ pc[t] \in {"wake_all", "destroy"} => ~magic
  /\ pc[t] # "wake_quiet"
  /\ wait_queue_block_ret[t] # "ERR_THREAD_DETACHED"
  /\ timer[t] = "timeout" => pc[t] = "wait" /\ block_timeout[t] # "INFINITE"
  /\ pc[t] = "wait" /\ wait_queue_block_ret[t] = "ERR_TIMED_OUT" =>
       block_timeout[t] # "INFINITE"
  /\ pc[t] = "wait" /\ ~magic => block_timeout[t] = "INFINITE"

\* A destroyed mutex has no owner, and its waiters are being woken.
DestroyedOK ==
  ~magic => /\ owns = {}
            /\ \A t \in Claiming : /\ state[t] = "BLOCKED"
                                    /\ \E c \in Thread : pc[c] = "wake_all"

MutexInv ==
  /\ WaitObjectInv
  /\ MutexTypeOK
  /\ MutualExclusion
  /\ HolderIsOwner
  /\ CountIsClaims
  /\ WaitQueueValid
  /\ \A t \in Thread : WaiterOK(t)
  /\ DestroyedOK
=============================================================================
