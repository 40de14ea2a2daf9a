--------------------------- MODULE SemaphoreProofs ---------------------------
(* Proofs about module Semaphore, for any number of threads, any priorities *)
(* and any initial count.                                                   *)
EXTENDS Semaphore, WaitObjectProofs

\* The default time limits are too tight for the size of the obligations.
USE SMTT(60), ZenonT(60)

\* A blocked thread is in its wait, only sem_destroy() wakes all the waiters,
\* only waits with a timeout time out, and none of these is for a semaphore
\* that is destroyed.
WaiterOK(t) ==
  /\ state[t] = "BLOCKED" => pc[t] = "wait"
  /\ pc[t] \in {"wake_all", "destroy"} => ~valid
  /\ pc[t] # "wake_quiet"
  /\ timer[t] = "timeout" => pc[t] = "wait" /\ block_timeout[t] # "INFINITE"
  /\ pc[t] = "wait" /\ wait_queue_block_ret[t] = "ERR_TIMED_OUT" =>
       block_timeout[t] # "INFINITE"
  /\ pc[t] = "wait" /\ ~valid => block_timeout[t] = "INFINITE"

\* The ASSERTs on wait->magic hold of a semaphore in use.
WaitQueueValid == valid => wait_magic

\* The inductive invariant of the semaphore.
SemInv ==
  /\ WaitObjectInv
  /\ SemaphoreTypeOK
  /\ CountIsBalance
  /\ NeverOverdrawn
  /\ WaitQueueValid
  /\ \A t \in Thread : WaiterOK(t)

-----------------------------------------------------------------------------
(* The scheduler underneath                                                *)

\* sem_post() keeps the invariant of the scheduler.
LEMMA PostSched ==
  ASSUME SchedInv(Frames), NEW t \in Thread, sem_post(t)
  PROVE  SchedInv(Frames)'
  <1>1. CASE UNCHANGED schedVars
    BY <1>1, SchedVarsKept, ZenonT(60)
  <1>2. CASE /\ wait_list[wait] # <<>>
             /\ wake_one_resched(wait, "NO_ERROR", critical_section_count + 1)
             /\ goto(t, "wake") /\ UNCHANGED <<timeVars, ctlVars>>
    <2>1. wait \in WaitQueue /\ "NO_ERROR" \in Status /\ Calls(t)
      BY WaitObjectAssumption DEF Status, sem_post
    <2> QED
      BY <1>2, <2>1, FramesFit, WakeOneStep, ZenonT(60)
  <1> QED
    BY <1>1, <1>2 DEF sem_post

\* So does a wait, whether it blocks or not.
LEMMA TimedwaitSched ==
  ASSUME SchedInv(Frames), NEW t \in Thread, NEW timeout \in Timeouts,
         sem_timedwait(t, timeout)
  PROVE  SchedInv(Frames)'
  <1>1. CASE UNCHANGED schedVars
    BY <1>1, SchedVarsKept, ZenonT(60)
  <1>2. CASE /\ wait_queue_block(wait, timeout, critical_section_count + 1)
             /\ goto(t, "wait") /\ UNCHANGED ctlVars
    <2>1. wait \in WaitQueue /\ timeout \in Timeout
      BY WaitObjectAssumption DEF Timeout
    <2>2. Calls(t)
      BY DEF sem_timedwait
    <2> QED
      BY <1>2, <2>1, <2>2, FramesFit, BlockStep, ZenonT(60)
  <1> QED
    BY <1>1, <1>2 DEF sem_timedwait

\* Every step of the semaphore keeps the invariant of the scheduler.
LEMMA SchedStep ==
  ASSUME SchedInv(Frames), [Next]_vars
  PROVE  SchedInv(Frames)'
  <1>1. CASE UNCHANGED vars
    BY <1>1, SchedVarsKept DEF vars
  <1>2. CASE Irq
    BY <1>2, FramesFit, IrqStep, ZenonT(60)
  <1>3. ASSUME NEW t \in Thread, thread_sleep(t) PROVE SchedInv(Frames)'
    BY <1>3, FramesFit, SleepStep
  <1>4. ASSUME NEW t \in Thread, Return(t) PROVE SchedInv(Frames)'
    BY <1>4, FramesFit, ReturnStep
  <1>5. ASSUME NEW t \in Thread, sem_init(t) \/ sem_trywait(t)
        PROVE  SchedInv(Frames)'
    BY <1>5, SchedVarsKept, ZenonT(60) DEF sem_init, sem_trywait, no_switch
  <1>6. ASSUME NEW t \in Thread, sem_destroy(t) \/ sem_destroy_return(t)
        PROVE  SchedInv(Frames)'
    BY <1>6, DestroySched, DestroyReturnSched, ZenonT(60)
       DEF sem_destroy, sem_destroy_return
  <1>7. ASSUME NEW t \in Thread, sem_timedwait_return(t) PROVE SchedInv(Frames)'
    BY <1>7, WaitReturnSched DEF sem_timedwait_return
  <1>8. "ERR_OBJECT_DESTROYED" \in Status /\ "destroy" \in {"wake", "destroy"}
    BY DEF Status
  <1> QED
    BY <1>1, <1>2, <1>3, <1>4, <1>5, <1>6, <1>7, <1>8, PostSched, TimedwaitSched,
       WakeAllSched, ZenonT(60) DEF Next

-----------------------------------------------------------------------------
(* The balance                                                             *)

\* The set that count is made of is finite.
LEMMA Counting ==
  ASSUME CountingLaws
  PROVE  IsFiniteSet(Pending) /\ Cardinality(Pending) \in Nat
  <1>1. Pending \subseteq Thread /\ IsFiniteSet(Thread)
    BY SemaphoreAssumption, ZenonT(60) DEF Pending
  <1>2. IsFiniteSet(Pending)
    BY <1>1, SubsetFinite, ZenonT(60)
  <1> QED
    BY <1>2, CardinalityIsNat, ZenonT(60)

\* A step that leaves the semaphore alone, and the threads that count for it
\* as long as it is in use.
LEMMA InvFrom ==
  ASSUME SemInv, SchedInv(Frames)', UNCHANGED semVars, valid => Pending' = Pending,
         \A t \in Thread : WaiterOK(t)'
  PROVE  SemInv'
  <1>1. SemaphoreTypeOK'
    BY ZenonT(60) DEF SemInv, SemaphoreTypeOK, TypeOK, SchedInv, semVars
  <1>2. CountIsBalance' /\ NeverOverdrawn' /\ WaitQueueValid'
    BY ZenonT(60) DEF SemInv, CountIsBalance, NeverOverdrawn, WaitQueueValid, semVars
  <1> QED
    BY <1>1, <1>2, ZenonT(60) DEF SemInv, WaitObjectInv

\* A step in which no thread starts or stops waiting.
LEMMA InvQuiet ==
  ASSUME SemInv, SchedInv(Frames)', Quiet, UNCHANGED semVars
  PROVE  SemInv'
  <1>1. Pending' = Pending
    BY ZenonT(60) DEF Quiet, Pending
  <1>2. \A t \in Thread : WaiterOK(t)'
    BY ZenonT(60) DEF SemInv, WaiterOK, Quiet, semVars
  <1> QED
    BY <1>1, <1>2, InvFrom, ZenonT(60)

\* A waiter times out, or is woken because the semaphore was destroyed.
LEMMA InvWoken ==
  ASSUME SemInv, SchedInv(Frames)', UNCHANGED semVars,
         NEW h \in Thread, NEW err, Woken(h, err),
         \/ err = "ERR_TIMED_OUT" /\ timer[h] = "timeout"
         \/ err = "ERR_OBJECT_DESTROYED" /\ ~valid
  PROVE  SemInv'
  <1>0. wait_queue_block_ret \in [Thread -> Status]
    BY ZenonT(60) DEF SemInv, WaitObjectInv, SchedInv, SchedTypeOK
  <1>1. valid => Pending' = Pending
    BY <1>0, ZenonT(60) DEF Woken, Pending, SemInv, WaiterOK
  <1>2. \A t \in Thread : WaiterOK(t)'
    BY <1>0 DEF SemInv, WaiterOK, Woken, semVars
  <1> QED
    BY <1>1, <1>2, InvFrom, ZenonT(60)

\* sem_init() of a destroyed semaphore: nobody counts for it any more.
LEMMA InvInit ==
  ASSUME CountingLaws, SemInv, SchedInv(Frames)', NEW t \in Thread, sem_init(t)
  PROVE  SemInv'
  <1>1. /\ UNCHANGED schedVars /\ ~valid /\ valid' = TRUE
        /\ count' = InitialCount /\ available' = InitialCount
        /\ pc[t] = "user" /\ current_thread = t /\ wait_magic' = TRUE
        /\ wait_list[wait] = <<>> /\ \A u \in Thread : pc[u] # "destroy"
    BY ZenonT(60) DEF sem_init, no_switch, Calls, InUser, Running, wait_queue_init,
           DestroyIsOver
  <1>2. SchedInv(Frames) /\ \A u \in Thread : pc[u] # "wake_all"
    BY <1>1, ZenonT(60) DEF SemInv, WaitObjectInv, SchedInv, CurrentRuns
  <1>3. \A u \in Thread : state[u] # "BLOCKED"
    BY <1>1, <1>2, BlockedThreads DEF Range
  <1>4. Pending' = {}
    BY <1>1, <1>3, ZenonT(60)
       DEF SemInv, WaiterOK, Pending, schedVars, runVars, waitVars, timeVars
  <1>5. SemaphoreTypeOK'
    <2>1. wait_magic' \in BOOLEAN /\ valid' \in BOOLEAN
      BY <1>1, Zenon
    <2> QED
      BY <1>1, <2>1, SemaphoreAssumption DEF SemInv, SemaphoreTypeOK, TypeOK, SchedInv
  <1>6. CountIsBalance' /\ NeverOverdrawn'
    BY <1>1, <1>4, EmptyCounted, SemaphoreAssumption DEF CountIsBalance, NeverOverdrawn
  <1>7. WaitQueueValid'
    BY <1>1, ZenonT(60) DEF WaitQueueValid
  <1>8. \A u \in Thread : WaiterOK(u)'
    BY <1>1, <1>2, ZenonT(60)
       DEF SemInv, WaiterOK, schedVars, runVars, waitVars, timeVars
  <1> QED
    BY <1>5, <1>6, <1>7, <1>8, ZenonT(60) DEF SemInv, WaitObjectInv

\* A step of a semaphore in use, after which count and available still differ
\* by the threads that wait.
LEMMA InvInUse ==
  ASSUME SemInv, SchedInv(Frames)', valid, UNCHANGED <<valid, wait_magic>>,
         count' \in Int, available' \in Int, available' >= 0,
         count' = available' - Cardinality(Pending'),
         \A t \in Thread : WaiterOK(t)'
  PROVE  SemInv'
  <1>1. SemaphoreTypeOK'
    BY ZenonT(60) DEF SemInv, SemaphoreTypeOK, TypeOK, SchedInv
  <1>2. CountIsBalance' /\ NeverOverdrawn' /\ WaitQueueValid'
    BY ZenonT(60) DEF SemInv, CountIsBalance, NeverOverdrawn, WaitQueueValid
  <1> QED
    BY <1>1, <1>2, ZenonT(60) DEF SemInv, WaitObjectInv

\* What a semaphore in use satisfies.
LEMMA Balance ==
  ASSUME SemInv, valid
  PROVE  /\ count \in Int /\ available \in Int /\ available >= 0
         /\ count = available - Cardinality(Pending)
         /\ SchedInv(Frames) /\ pc \in [Thread -> DOMAIN Frames]
         /\ wait_queue_block_ret \in [Thread -> Status]
         /\ block_timeout \in [Thread -> Timeout]
         /\ timer \in [Thread -> {"none", "sleep", "timeout"}]
  BY ZenonT(60) DEF SemInv, SemaphoreTypeOK, CountIsBalance, NeverOverdrawn,
                    WaitObjectInv, SchedInv, SchedTypeOK

\* A post and a wait that neither wake nor block.
LEMMA InvNoSwitch ==
  ASSUME CountingLaws,
         SemInv, SchedInv(Frames)', valid, UNCHANGED <<schedVars, valid, wait_magic>>,
         \/ count' = count + 1 /\ available' = available + 1
         \/ count' = count - 1 /\ available' = available - 1 /\ count' >= 0
  PROVE  SemInv'
  <1>1. Pending' = Pending
    BY ZenonT(60) DEF Pending, schedVars, runVars, waitVars
  <1>2. count' \in Int /\ available' \in Int /\ available' >= 0
        /\ count' = available' - Cardinality(Pending)
    BY Balance, Counting
  <1>3. \A u \in Thread : WaiterOK(u)'
    BY ZenonT(60) DEF SemInv, WaiterOK, schedVars, runVars, waitVars, timeVars
  <1> QED
    BY <1>1, <1>2, <1>3, InvInUse, ZenonT(60)

\* A post that wakes a thread: the increment is what its wait was due.
LEMMA InvPostWakes ==
  ASSUME CountingLaws,
         SemInv, SchedInv(Frames)', valid, UNCHANGED <<valid, wait_magic, available>>,
         count' = count + 1, NEW h \in Thread, Woken(h, "NO_ERROR")
  PROVE  SemInv'
  <1>1. h \in Pending /\ Pending' = Pending \ {h}
    BY Balance, ZenonT(60) DEF Woken, Pending, SemInv, WaiterOK
  <1>2. Cardinality(Pending') = Cardinality(Pending) - 1
    BY <1>1, Counting, RemovedCounted, ZenonT(60)
  <1>3. count' \in Int /\ available' \in Int /\ available' >= 0
        /\ count' = available' - Cardinality(Pending')
    BY <1>2, Balance, Counting
  <1>4. \A u \in Thread : WaiterOK(u)'
    <2>1. ASSUME NEW u \in Thread PROVE WaiterOK(u)'
      <3>1. WaiterOK(u) /\ wait_queue_block_ret \in [Thread -> Status]
        BY Balance, ZenonT(60) DEF SemInv
      <3>2. /\ wait_queue_block_ret'[u] = IF u = h THEN "NO_ERROR"
                                          ELSE wait_queue_block_ret[u]
            /\ block_timeout' = block_timeout
        BY <3>1, ZenonT(60) DEF Woken
      <3> QED
        BY <3>1, <3>2, ZenonT(60) DEF WaiterOK, Woken
    <2> QED
      BY <2>1
  <1> QED
    BY <1>3, <1>4, InvInUse, ZenonT(60)

\* A wait that blocks: the decrement is matched by one more waiter.
LEMMA InvBlock ==
  ASSUME CountingLaws,
         SemInv, SchedInv(Frames)', NEW t \in Thread, Calls(t), valid,
         count' = count - 1, NEW timeout \in Timeouts,
         wait_queue_block(wait, timeout, critical_section_count + 1),
         goto(t, "wait"), UNCHANGED <<available, valid, wait_magic>>
  PROVE  SemInv'
  <1>1. pc[t] = "user"
    BY ZenonT(60) DEF Calls, InUser
  <1>2. /\ wait_queue_block_ret' = [wait_queue_block_ret EXCEPT ![t] = "NO_ERROR"]
        /\ pc' = [pc EXCEPT ![t] = "wait"]
        /\ \A u \in Thread : state'[u] = "BLOCKED" <=> state[u] = "BLOCKED" \/ u = t
        /\ block_timeout' = [block_timeout EXCEPT ![t] = timeout]
        /\ \A u \in Thread : timer'[u] = "timeout" =>
             timer[u] = "timeout" \/ (u = t /\ timeout # "INFINITE")
    BY Balance, BlockedCaller, ZenonT(60)
  <1>3. Pending' = Pending \union {t} /\ t \notin Pending
    BY <1>1, <1>2, Balance, ZenonT(60) DEF Pending
  <1>4. Cardinality(Pending') = Cardinality(Pending) + 1
    BY <1>3, Counting, AddedCounted, ZenonT(60)
  <1>5. count' \in Int /\ available' \in Int /\ available' >= 0
        /\ count' = available' - Cardinality(Pending')
    BY <1>4, Balance, Counting
  <1>6. \A u \in Thread : WaiterOK(u)'
    BY <1>1, <1>2, Balance, ZenonT(60) DEF SemInv, WaiterOK
  <1> QED
    BY <1>5, <1>6, InvInUse, ZenonT(60)

\* A waiter runs again: one that timed out takes its decrement back.
LEMMA InvReturn ==
  ASSUME CountingLaws,
         SemInv, SchedInv(Frames)', NEW t \in Thread, sem_timedwait_return(t)
  PROVE  SemInv'
  <1> DEFINE timedOut == wait_queue_block_ret[t] = "ERR_TIMED_OUT"
  <1>1. /\ SchedInv(Frames) /\ pc \in [Thread -> DOMAIN Frames]
        /\ timer \in [Thread -> {"none", "sleep", "timeout"}]
        /\ block_timeout \in [Thread -> Timeout]
    BY ZenonT(60) DEF SemInv, WaitObjectInv, SchedInv, SchedTypeOK
  <1>2. /\ Running(t) /\ pc[t] = "wait" /\ count' = timedwait_count(t)
        /\ UNCHANGED <<valid, available, wait_magic, state, wait_queue_block_ret>>
        /\ pc' = [pc EXCEPT ![t] = "user"]
        /\ block_timeout' = [block_timeout EXCEPT ![t] = "INFINITE"]
        /\ timer' = IF block_timeout[t] # "INFINITE"
                    THEN [timer EXCEPT ![t] = "none"] ELSE timer
    BY <1>1, ZenonT(60) DEF sem_timedwait_return, leave, goto, wait_queue_unblocked,
                            waitVars
  <1>3. \A u \in Thread : timer'[u] = "timeout" => timer[u] = "timeout" /\ u # t
    BY <1>1, <1>2, ZenonT(60) DEF SemInv, WaiterOK
  <1>4. state[t] = "RUNNING"
    <2>1. pc[t] \notin {"exit_wake", "wake_all"} /\ Running(t)
      BY <1>2, ZenonT(60)
    <2> QED
      BY <1>1, <2>1, FramesFit, RunningFacts, ZenonT(60)
  <1>5. Pending' = Pending \ {t} /\ (timedOut <=> t \in Pending)
    BY <1>1, <1>2, <1>4, ZenonT(60) DEF Pending
  <1>6. timedOut => valid
    BY <1>2, ZenonT(60) DEF SemInv, WaiterOK
  <1>7. \A u \in Thread : WaiterOK(u)'
    BY <1>1, <1>2, <1>3, <1>4, ZenonT(60) DEF SemInv, WaiterOK
  <1>8. CASE timedOut
    <2>1. count' = count + 1
      BY <1>2, <1>8, ZenonT(60) DEF timedwait_count
    <2>2. Cardinality(Pending') = Cardinality(Pending) - 1
      BY <1>5, <1>8, Counting, RemovedCounted, ZenonT(60)
    <2>3. count' \in Int /\ available' \in Int /\ available' >= 0
          /\ count' = available' - Cardinality(Pending')
      BY <1>2, <1>6, <1>8, <2>1, <2>2, Balance, Counting
    <2> QED
      BY <1>2, <1>6, <1>7, <1>8, <2>3, InvInUse, ZenonT(60)
  <1>9. CASE ~timedOut
    <2>1. UNCHANGED semVars /\ Pending' = Pending
      BY <1>2, <1>5, <1>9, ZenonT(60) DEF timedwait_count, semVars
    <2> QED
      BY <1>7, <2>1, InvFrom, ZenonT(60)
  <1> QED
    BY <1>8, <1>9, ZenonT(60)

\* sem_destroy() lets nobody wait with a timeout for what is gone.
LEMMA InvDestroy ==
  ASSUME SemInv, SchedInv(Frames)', NEW t \in Thread, sem_destroy(t)
  PROVE  SemInv'
  <1>1. /\ NoTimedWait /\ Calls(t) /\ valid /\ valid' = FALSE /\ count' = 0
        /\ available' = 0 /\ pc[t] = "user"
    BY ZenonT(60) DEF sem_destroy, Calls, InUser
  <1>2. /\ UNCHANGED <<wait_queue_block_ret, timer, block_timeout, wait_list>>
        /\ pc' = [pc EXCEPT ![t] = "wake_all"] \/ UNCHANGED pc
    BY ZenonT(60) DEF sem_destroy, wait_queue_destroy, schedVars, waitVars, timeVars, goto
  <1>3. \A u \in Thread : state'[u] = "BLOCKED" <=> state[u] = "BLOCKED"
    BY <1>1, <1>2, Balance, BlockedThreads, ZenonT(60)
  <1>4. SemaphoreTypeOK'
    <2>1. wait_magic' = wait_magic \/ wait_magic' = FALSE
      BY ZenonT(60) DEF sem_destroy, wait_queue_destroy
    <2>2. wait_magic \in BOOLEAN
      BY ZenonT(60) DEF SemInv, SemaphoreTypeOK, TypeOK
    <2>3. wait_magic' \in BOOLEAN /\ valid' \in BOOLEAN
      BY <1>1, <2>1, <2>2, Zenon
    <2>4. count' \in Int /\ available' \in Int
      BY <1>1
    <2> QED
      BY <2>3, <2>4, ZenonT(60) DEF SemaphoreTypeOK, TypeOK, SchedInv
  <1>5. CountIsBalance' /\ WaitQueueValid'
    BY <1>1, ZenonT(60) DEF CountIsBalance, WaitQueueValid
  <1>6. NeverOverdrawn'
    BY <1>1 DEF NeverOverdrawn
  <1>7. \A u \in Thread : WaiterOK(u)'
    <2>1. \A u \in Thread : /\ pc'[u] = "wait" <=> pc[u] = "wait"
                            /\ pc'[u] = "wake_quiet" <=> pc[u] = "wake_quiet"
      BY <1>1, <1>2, Balance, ZenonT(60)
    <2> QED
      BY <1>1, <1>2, <1>3, <2>1, ZenonT(60) DEF SemInv, WaiterOK, NoTimedWait
  <1> QED
    BY <1>4, <1>5, <1>6, <1>7, ZenonT(60) DEF SemInv, WaitObjectInv

\* The end of the loop of wait_queue_wake_all().
LEMMA InvWakeAllFinish ==
  ASSUME SemInv, SchedInv(Frames)', NEW t \in Thread, wake_all_finish(t, "destroy"),
         UNCHANGED semVars
  PROVE  SemInv'
  <1>1. SchedInv(Frames) /\ pc[t] = "wake_all" /\ "destroy" \in {"wake", "destroy"}
    BY ZenonT(60) DEF SemInv, WaitObjectInv, wake_all_finish
  <1>2. /\ UNCHANGED <<wait_queue_block_ret, block_timeout>>
        /\ \A u \in Thread :
             /\ pc'[u] = "wait" <=> pc[u] = "wait"
             /\ pc'[u] = "wake_quiet" <=> pc[u] = "wake_quiet"
             /\ state'[u] = "BLOCKED" <=> state[u] = "BLOCKED"
             /\ timer'[u] = "timeout" => timer[u] = "timeout"
    BY <1>1, QuietCalls, ZenonT(60)
  <1>3. ~valid
    BY <1>1, ZenonT(60) DEF SemInv, WaiterOK
  <1>4. \A u \in Thread : WaiterOK(u)'
    BY <1>2, <1>3, ZenonT(60) DEF SemInv, WaiterOK, semVars
  <1> QED
    BY <1>3, <1>4, InvFrom, ZenonT(60)

\* The return of sem_destroy() clears the magic of the wait queue.
LEMMA InvDestroyReturn ==
  ASSUME SemInv, SchedInv(Frames)', NEW t \in Thread, sem_destroy_return(t)
  PROVE  SemInv'
  <1>1. /\ SchedInv(Frames) /\ pc[t] = "destroy" /\ wait_magic' = FALSE
        /\ wait_queue_destroy_return(t) /\ UNCHANGED <<valid, count, available>>
    BY ZenonT(60) DEF SemInv, WaitObjectInv, sem_destroy_return, wait_queue_destroy_return
  <1>2. Quiet
    BY <1>1, QuietCalls, ZenonT(60)
  <1>3. ~valid
    BY <1>1, ZenonT(60) DEF SemInv, WaiterOK
  <1>4. SemaphoreTypeOK'
    <2>1. wait_magic' \in BOOLEAN
      BY <1>1, Zenon
    <2> QED
      BY <1>1, <2>1, ZenonT(60) DEF SemInv, SemaphoreTypeOK, TypeOK, SchedInv
  <1>5. CountIsBalance' /\ NeverOverdrawn' /\ WaitQueueValid'
    BY <1>1, <1>3, ZenonT(60) DEF SemInv, CountIsBalance, NeverOverdrawn, WaitQueueValid
  <1>6. \A u \in Thread : WaiterOK(u)'
    BY <1>1, <1>2, ZenonT(60) DEF SemInv, WaiterOK, Quiet
  <1> QED
    BY <1>4, <1>5, <1>6, ZenonT(60) DEF SemInv, WaitObjectInv

\* A wait takes what is available or blocks.
LEMMA InvTimedwait ==
  ASSUME CountingLaws,
         SemInv, SchedInv(Frames)', NEW t \in Thread, NEW timeout \in Timeouts,
         sem_timedwait(t, timeout)
  PROVE  SemInv'
  BY InvNoSwitch, InvBlock, ZenonT(60) DEF sem_timedwait

\* A post wakes the head of the queue or adds to what is available.
LEMMA InvPost ==
  ASSUME CountingLaws, SemInv, SchedInv(Frames)', NEW t \in Thread, sem_post(t)
  PROVE  SemInv'
  <1>1. valid /\ Calls(t) /\ count' = count + 1 /\ UNCHANGED <<valid, wait_magic>>
    BY ZenonT(60) DEF sem_post
  <1>2. CASE UNCHANGED schedVars /\ available' = available + 1
    BY <1>1, <1>2, InvNoSwitch, ZenonT(60)
  <1>3. CASE /\ wait_list[wait] # <<>>
             /\ wake_one_resched(wait, "NO_ERROR", critical_section_count + 1)
             /\ goto(t, "wake") /\ UNCHANGED <<timeVars, available>>
    <2>1. \E h \in Thread : Woken(h, "NO_ERROR")
      BY <1>1, <1>3, Balance, WakeOneWakes, ZenonT(60)
    <2> QED
      BY <1>1, <1>3, <2>1, InvPostWakes, ZenonT(60)
  <1> QED
    BY <1>2, <1>3, ZenonT(60) DEF sem_post

\* sem_trywait() takes one of what count says is there.
LEMMA InvTrywait ==
  ASSUME CountingLaws, SemInv, SchedInv(Frames)', NEW t \in Thread, sem_trywait(t)
  PROVE  SemInv'
  <1>1. /\ valid /\ count > 0 /\ count' = count - 1 /\ available' = available - 1
        /\ UNCHANGED <<schedVars, valid, wait_magic>>
    BY ZenonT(60) DEF sem_trywait, no_switch, trywait_ready
  <1>2. count' >= 0
    BY <1>1, Balance
  <1> QED
    BY <1>1, <1>2, InvNoSwitch, ZenonT(60)

\* Every step keeps the invariant of the semaphore.
LEMMA SemStep ==
  ASSUME CountingLaws, SemInv, [Next]_vars
  PROVE  SemInv'
  <1>1. SchedInv(Frames) /\ SchedInv(Frames)'
    BY SchedStep DEF SemInv, WaitObjectInv
  <1>2. CASE UNCHANGED vars
    <2>1. Quiet /\ UNCHANGED semVars
      BY <1>2, ZenonT(60) DEF vars, schedVars, runVars, waitVars, timeVars, Quiet
    <2> QED
      BY <1>1, <2>1, InvQuiet, ZenonT(60)
  <1>3. CASE Irq /\ UNCHANGED semVars
    BY <1>1, <1>3, IrqWakes, InvQuiet, InvWoken, ZenonT(60)
  <1>4. ASSUME NEW t \in Thread, thread_sleep(t) \/ Return(t), UNCHANGED semVars
        PROVE  SemInv'
    <2>1. pc[t] # "wake_all"
      BY <1>4, ZenonT(60) DEF thread_sleep, Return, Calls, InUser
    <2> QED
      BY <1>1, <1>4, <2>1, QuietCalls, InvQuiet, ZenonT(60)
  <1>5. ASSUME NEW t \in Thread, wake_all_step(t, "ERR_OBJECT_DESTROYED"),
               UNCHANGED semVars
        PROVE  SemInv'
    <2>1. ~valid
      BY <1>5, ZenonT(60) DEF SemInv, WaiterOK, wake_all_step
    <2> QED
      BY <1>1, <1>5, <2>1, WakeAllWakes, InvWoken, ZenonT(60)
  <1> QED
    BY <1>1, <1>2, <1>3, <1>4, <1>5, InvInit, InvDestroy, InvPost, InvTimedwait, InvReturn,
       InvTrywait, InvWakeAllFinish, InvDestroyReturn, ZenonT(60) DEF Next

\* Init of module Semaphore satisfies the invariant.
LEMMA SemInitInv ==
  ASSUME PrioritiesOrdered, CountingLaws, Init
  PROVE  SemInv
  <1>1. SchedInv(Frames)
    BY SchedInitInv, ZenonT(60) DEF Init
  <1>2. /\ valid = TRUE /\ count = InitialCount /\ available = InitialCount
        /\ wait_magic = TRUE
        /\ \A t \in Thread :
             /\ pc[t] \in {"user", "sleep"} /\ state[t] # "BLOCKED"
             /\ timer[t] # "timeout"
    BY ZenonT(60) DEF Init, SchedInit
  <1>3. Pending = {}
    BY <1>2, ZenonT(60) DEF Pending
  <1>4. SemaphoreTypeOK
    <2>1. wait_magic \in BOOLEAN /\ valid \in BOOLEAN
      BY <1>2, Zenon
    <2> QED
      BY <1>1, <1>2, <2>1, SemaphoreAssumption DEF SemaphoreTypeOK, TypeOK, SchedInv
  <1>5. CountIsBalance /\ NeverOverdrawn /\ WaitQueueValid
    BY <1>2, <1>3, EmptyCounted, SemaphoreAssumption
       DEF CountIsBalance, NeverOverdrawn, WaitQueueValid
  <1>6. \A t \in Thread : WaiterOK(t)
    BY <1>2, ZenonT(60) DEF WaiterOK
  <1> QED
    BY <1>1, <1>4, <1>5, <1>6, ZenonT(60) DEF SemInv, WaitObjectInv

-----------------------------------------------------------------------------
(* The theorems                                                            *)

LOCAL FST == INSTANCE FiniteSetTheorems

\* The library counts as the modules of the objects do.
LEMMA SameCounting ==
  ASSUME NEW S
  PROVE  /\ FST!IsFiniteSet(S) <=> IsFiniteSet(S)
         /\ FST!Cardinality(S) = Cardinality(S)
  BY ZenonT(60) DEF IsFiniteSet, Cardinality, FST!IsFiniteSet, FST!Cardinality

\* The facts about finite sets that the lemmas assume.
LEMMA CountingHolds == CountingLaws
  <1>1. \A S : \A T \in SUBSET S : IsFiniteSet(S) => IsFiniteSet(T)
    BY SameCounting, FST!FS_Subset, ZenonT(60)
  <1>2. \A S : IsFiniteSet(S) => Cardinality(S) \in Nat
    BY SameCounting, FST!FS_CardinalityType, ZenonT(60)
  <1>3. /\ IsFiniteSet({}) /\ Cardinality({}) = 0
        /\ \A S : IsFiniteSet(S) => (Cardinality(S) = 0 <=> S = {})
    BY SameCounting, FST!FS_EmptySet, ZenonT(60)
  <1>4. \A S, x : IsFiniteSet(S) =>
          Cardinality(S \cup {x}) = IF x \in S THEN Cardinality(S) ELSE Cardinality(S) + 1
    BY SameCounting, FST!FS_AddElement, ZenonT(60)
  <1>5. \A S, x : IsFiniteSet(S) =>
          Cardinality(S \ {x}) = IF x \in S THEN Cardinality(S) - 1 ELSE Cardinality(S)
    BY SameCounting, FST!FS_RemoveElement, ZenonT(60)
  <1>6. \A x : Cardinality({x}) = 1
    BY SameCounting, FST!FS_Singleton, ZenonT(60)
  <1> QED
    BY <1>1, <1>2, <1>3, <1>4, <1>5, <1>6, ZenonT(60) DEF CountingLaws

LOCAL WF == INSTANCE WellFoundedInduction

\* A set of natural numbers has a least one, and so a set of priorities a
\* highest one.
LEMMA OrderHolds == PrioritiesOrdered
  <1>1. ASSUME NEW T \in SUBSET Nat, T # {}
        PROVE  \E x \in T : \A y \in T : x <= y
    <2> DEFINE R == WF!OpToRel(<, Nat)
    <2>1. WF!IsWellFoundedOn(R, Nat)
      BY WF!NatLessThanWellFounded, ZenonT(60)
    <2> HIDE DEF R
    <2>2. PICK x \in T : \A y \in T : ~(<<y, x>> \in R)
      BY <1>1, <2>1, WF!WFMin, ZenonT(60)
    <2>3. \A y \in T : ~(y < x)
      BY <2>2, ZenonT(60) DEF R, WF!OpToRel
    <2> QED
      BY <2>2, <2>3
  <1> QED
    BY <1>1, Greatest, ZenonT(60)

\* count is what is available less the threads that wait or have timed out and
\* not run yet, whatever waits, posts, timeouts and destructions interleave.
THEOREM SemaphoreBalanced == Spec => [](SemaphoreTypeOK /\ CountIsBalance)
  <1>1. Init => SemInv
    BY CountingHolds, OrderHolds, SemInitInv
  <1>2. SemInv /\ [Next]_vars => SemInv'
    BY CountingHolds, SemStep
  <1>3. SemInv => SemaphoreTypeOK /\ CountIsBalance
    BY DEF SemInv
  <1> QED
    BY <1>1, <1>2, <1>3, PTL DEF Spec

\* More waits never succeed than the initial count and the posts allow, and
\* the ASSERTs on the wait queue hold of a semaphore in use.
THEOREM SemaphoreNeverOverdrawn == Spec => [](NeverOverdrawn /\ WaitQueueValid)
  <1>1. Init => SemInv
    BY CountingHolds, OrderHolds, SemInitInv
  <1>2. SemInv /\ [Next]_vars => SemInv'
    BY CountingHolds, SemStep
  <1>3. SemInv => NeverOverdrawn /\ WaitQueueValid
    BY DEF SemInv
  <1> QED
    BY <1>1, <1>2, <1>3, PTL DEF Spec

\* The semaphore and the scheduler under it keep their types: count stays an
\* integer whatever waits and posts do to it.
THEOREM SemaphoreTypes == Spec => []SemaphoreTypeOK
  BY SemaphoreBalanced, PTL
=============================================================================
