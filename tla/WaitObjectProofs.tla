--------------------------- MODULE WaitObjectProofs --------------------------
(* What the mutex, the semaphore and the event inherit from the scheduler: *)
(* its invariant, and how its steps change who waits.                      *)
EXTENDS WaitObject, SchedulerProofs, FiniteSets

\* The default time limits are too tight for the size of the obligations.
USE SMTT(60), ZenonT(60)

\* The labels of module WaitObject fit the lemmas about module Scheduler.
LEMMA FramesFit == FramesOK(Frames) /\ "wait" \in DOMAIN Frames
                   /\ "wake_all" \in DOMAIN Frames /\ Frames["wait"] = 2
                   /\ \A l \in {"wake", "destroy"} : l \in DOMAIN Frames /\ Frames[l] = 1
  BY DEF FramesOK, Frames

-----------------------------------------------------------------------------
(* The scheduler underneath                                                *)

\* The first state, with all threads asleep, satisfies the invariant.
LEMMA SchedInitInv ==
  ASSUME SchedInit, PrioritiesOrdered
  PROVE  SchedInv(Frames)
  <1> USE SchedulerAssumption, WaitObjectAssumption
  <1>1. SchedTypeOK
    BY DEF SchedInit, SchedTypeOK, ThreadState, Status, Timeout
  <1>2. pc \in [Thread -> DOMAIN Frames]
    BY DEF SchedInit, Frames
  <1>3. RunQueueCoherent
    BY DEF SchedInit, RunQueueCoherent, RunQueueOK, RunQueue, IsInjective, Range
  <1>4. WaitQueueCoherent
    BY DEF SchedInit, WaitQueueCoherent, WaitQueueOK, IsInjective, Range
  <1>5. OneRunningThread /\ SleepTimers /\ OneInterruptFrame
    BY DEF SchedInit, OneRunningThread, SleepTimers, OneInterruptFrame
  <1>6. CurrentRuns
    BY DEF SchedInit, CurrentRuns
  <1>7. Balanced(Frames)
    BY DEF SchedInit, Balanced, Owed, Frames
  <1> QED
    BY <1>1, <1>2, <1>3, <1>4, <1>5, <1>6, <1>7, ZenonT(60) DEF SchedInv

\* A call that leaves the scheduler alone keeps its invariant.
LEMMA SchedVarsKept ==
  ASSUME SchedInv(Frames), UNCHANGED schedVars
  PROVE  SchedInv(Frames)'
  BY ZenonT(60) DEF schedVars, runVars, waitVars, timeVars, ctlVars, SchedInv, SchedTypeOK,
         RunQueueCoherent, RunQueueOK, RunQueue, WaitQueueCoherent, WaitQueueOK,
         OneRunningThread, CurrentRuns, SleepTimers, OneInterruptFrame,
         Balanced, Owed

\* The return from wait_queue_block() keeps the invariant.
LEMMA WaitReturnSched ==
  ASSUME SchedInv(Frames), NEW t \in Thread, Running(t), pc[t] = "wait",
         wait_queue_unblocked(t), leave(t, 2), UNCHANGED ctlVars
  PROVE  SchedInv(Frames)'
  <1>1. /\ Running(t) /\ pc[t] = "wait" /\ leave(t, 2) /\ UNCHANGED ctlVars
        /\ wait_queue_unblocked(t)
    OBVIOUS
  <1>2. OtherTypesOK
    BY Before
  <1>3. /\ timer' \in [Thread -> {"none", "sleep", "timeout"}]
        /\ block_timeout' \in [Thread -> Timeout]
    BY <1>1, <1>2 DEF wait_queue_unblocked, OtherTypesOK, Timeout
  <1>4. OtherTypesOK'
    BY <1>1, <1>2, <1>3 DEF wait_queue_unblocked, OtherTypesOK, ctlVars, waitVars
  <1>5. timer[t] # "sleep"
    <2>1. state[t] = "RUNNING"
      BY <1>1, FramesFit, RunningFacts, ZenonT(60)
    <2> QED
      BY <2>1 DEF SchedInv, SleepTimers
  <1>6. \A u \in Thread : timer'[u] = "sleep" <=> timer[u] = "sleep"
    BY <1>1, <1>2, <1>5 DEF wait_queue_unblocked, OtherTypesOK
  <1>7. leave(t, Frames[pc[t]]) /\ pc[t] \notin {"exit_wake", "wake_all"}
    BY <1>1, FramesFit
  <1>8. UNCHANGED <<ctlVars, wait_list, wait_count, blocking_wait_queue>>
    BY <1>1 DEF wait_queue_unblocked, waitVars
  <1> QED
    BY <1>1, <1>4, <1>6, <1>7, <1>8, FramesFit, LeaveStep

\* wait_queue_destroy() keeps the invariant up to the loop that wakes ...
LEMMA DestroySched ==
  ASSUME SchedInv(Frames), NEW t \in Thread, Calls(t), wait_queue_destroy(t)
  PROVE  SchedInv(Frames)'
  <1>1. CASE UNCHANGED schedVars
    BY <1>1, SchedVarsKept
  <1>2. CASE /\ wake_all_begin
             /\ critical_section_count' = critical_section_count + 1
             /\ goto(t, "wake_all") /\ UNCHANGED <<waitVars, timeVars, ctlVars>>
    BY <1>2, FramesFit, WakeAllBeginStep
  <1> QED
    BY <1>1, <1>2 DEF wait_queue_destroy

\* ... and when it returns.
LEMMA DestroyReturnSched ==
  ASSUME SchedInv(Frames), NEW t \in Thread, wait_queue_destroy_return(t)
  PROVE  SchedInv(Frames)'
  <1>1. /\ Running(t) /\ pc[t] \notin {"exit_wake", "wake_all"}
        /\ leave(t, Frames[pc[t]]) /\ UNCHANGED <<waitVars, timeVars, ctlVars>>
    BY FramesFit DEF wait_queue_destroy_return
  <1>2. OtherTypesOK' /\ UNCHANGED <<wait_list, wait_count, blocking_wait_queue, timer>>
    BY <1>1, Before DEF OtherTypesOK, waitVars, timeVars, ctlVars
  <1>3. UNCHANGED <<ctlVars, wait_list, wait_count, blocking_wait_queue>>
    BY <1>1, <1>2
  <1>4. \A u \in Thread : timer'[u] = "sleep" <=> timer[u] = "sleep"
    BY <1>2
  <1> QED
    BY <1>1, <1>2, <1>3, <1>4, FramesFit, LeaveStep

\* wait_queue_wake_all() keeps the invariant, in its loop and at its end.
LEMMA WakeAllSched ==
  ASSUME SchedInv(Frames), NEW t \in Thread, NEW err \in Status,
         NEW label \in {"wake", "destroy"},
         wake_all_step(t, err) \/ wake_all_finish(t, label)
  PROVE  SchedInv(Frames)'
  <1>1. CASE wake_all_step(t, err)
    <2>1. wait \in WaitQueue
      BY WaitObjectAssumption
    <2>2. /\ wait_list[wait] # <<>> /\ wake_head(wait, err)
          /\ UNCHANGED <<current_thread, remaining_quantum, critical_section_count,
                         saved_critical_section_count, timeVars, ctlVars, pc>>
      BY <1>1 DEF wake_all_step
    <2> QED
      BY <2>1, <2>2, FramesFit, WakeHeadStep
  <1>2. CASE wake_all_finish(t, label)
    <2>1. /\ Running(t) /\ pc[t] = "wake_all" /\ wake_all_end
          /\ goto(t, label) /\ UNCHANGED <<waitVars, timeVars, ctlVars>>
      BY <1>2, ZenonT(60) DEF wake_all_finish
    <2> QED
      BY <2>1, FramesFit, WakeAllEndStep
  <1> QED
    BY <1>1, <1>2

-----------------------------------------------------------------------------
(* Who waits                                                               *)

\* The blocked threads are those on the object's wait queue.
LEMMA BlockedThreads ==
  /\ SchedInv(Frames) => \A u \in Thread :
       state[u] = "BLOCKED" <=> u \in Range(wait_list[wait])
  /\ SchedInv(Frames)' => \A u \in Thread :
       state'[u] = "BLOCKED" <=> u \in Range(wait_list'[wait])
  BY WaitObjectAssumption DEF SchedInv, WaitQueueCoherent, WaitQueueOK

\* A step in which no thread starts or stops waiting.
Quiet ==
  /\ UNCHANGED <<wait_queue_block_ret, block_timeout>>
  /\ \A u \in Thread :
       /\ pc'[u] = "wait" <=> pc[u] = "wait"
       /\ pc'[u] = "wake_all" <=> pc[u] = "wake_all"
       /\ pc'[u] = "wake_quiet" <=> pc[u] = "wake_quiet"
       /\ pc'[u] = "destroy" => pc[u] = "destroy"
       /\ state'[u] = "BLOCKED" <=> state[u] = "BLOCKED"
       /\ timer'[u] = "timeout" => timer[u] = "timeout"

\* A step in which the blocked thread h is woken with err.
Woken(h, err) ==
  /\ h \in Thread /\ state[h] = "BLOCKED"
  /\ wait_queue_block_ret' = [wait_queue_block_ret EXCEPT ![h] = err]
  /\ UNCHANGED block_timeout
  /\ \A u \in Thread :
       /\ pc'[u] = "wait" <=> pc[u] = "wait"
       /\ pc'[u] = "wake_all" <=> pc[u] = "wake_all"
       /\ pc'[u] = "wake_quiet" <=> pc[u] = "wake_quiet"
       /\ pc'[u] = "destroy" => pc[u] = "destroy"
       /\ state'[u] = "BLOCKED" <=> state[u] = "BLOCKED" /\ u # h
       /\ timer'[u] = "timeout" => timer[u] = "timeout"

\* A thread that leaves the wait queue, and nobody else, is no longer blocked.
LEMMA DequeuedThread ==
  ASSUME SchedInv(Frames), SchedInv(Frames)', NEW h \in Thread,
         state[h] = "BLOCKED",
         wait_list' = [wait_list EXCEPT ![wait] = list_delete(@, h)]
  PROVE  \A u \in Thread : state'[u] = "BLOCKED" <=> state[u] = "BLOCKED" /\ u # h
  <1>1. wait_list[wait] \in Seq(Thread) /\ IsInjective(wait_list[wait])
        /\ wait_list \in [WaitQueue -> Seq(Thread)] /\ wait \in WaitQueue
    BY WaitObjectAssumption, ZenonT(60)
       DEF SchedInv, SchedTypeOK, WaitQueueCoherent, WaitQueueOK
  <1>2. h \in Range(wait_list[wait])
    BY BlockedThreads
  <1>3. Range(list_delete(wait_list[wait], h)) = Range(wait_list[wait]) \ {h}
    BY <1>1, <1>2, DeleteSeq
  <1>4. Range(wait_list'[wait]) = Range(wait_list[wait]) \ {h}
    BY <1>1, <1>3, ZenonT(60)
  <1> QED
    BY <1>4, BlockedThreads, ZenonT(60)

\* The head of the wait queue is a blocked thread.
LEMMA HeadBlocked ==
  ASSUME SchedInv(Frames), wait_list[wait] # <<>>
  PROVE  Head(wait_list[wait]) \in Thread /\ state[Head(wait_list[wait])] = "BLOCKED"
  <1>1. wait \in WaitQueue
    BY WaitObjectAssumption
  <1> QED
    BY <1>1, Before, WaitHead

\* The calls that neither wait nor wake are quiet.
LEMMA QuietCalls ==
  ASSUME SchedInv(Frames), SchedInv(Frames)', NEW t \in Thread,
         NEW label \in {"wake", "destroy"},
         \/ thread_sleep(t) \/ Return(t)
         \/ wake_all_finish(t, label) \/ wait_queue_destroy_return(t)
  PROVE  /\ pc[t] # "wake_all" => Quiet
         /\ UNCHANGED <<wait_queue_block_ret, block_timeout>>
         /\ \A u \in Thread :
              /\ pc'[u] = "wait" <=> pc[u] = "wait"
              /\ pc'[u] = "wake_all" <=> pc[u] = "wake_all" /\ u # t
              /\ pc'[u] = "wake_quiet" <=> pc[u] = "wake_quiet"
              /\ pc'[u] = "destroy" => pc[u] \in {"destroy", "wake_all"}
              /\ state'[u] = "BLOCKED" <=> state[u] = "BLOCKED"
              /\ timer'[u] = "timeout" => timer[u] = "timeout"
  <1>1. pc \in [Thread -> DOMAIN Frames] /\ timer \in [Thread -> {"none", "sleep", "timeout"}]
    BY ZenonT(60) DEF SchedInv, SchedTypeOK
  <1>2. UNCHANGED <<wait_list, wait_queue_block_ret, block_timeout>>
    BY DEF thread_sleep, Return, wake_all_finish, wait_queue_destroy_return, waitVars,
           timeVars
  <1>3. \A u \in Thread : state'[u] = "BLOCKED" <=> state[u] = "BLOCKED"
    BY <1>2, BlockedThreads, ZenonT(60)
  <1>4. \A u \in Thread : timer'[u] = "timeout" => timer[u] = "timeout"
    BY <1>1 DEF thread_sleep, Return, wake_all_finish, wait_queue_destroy_return,
                timeVars
  <1>5. pc[t] \in {"user", "start", "yield", "sleep", "wake", "destroy", "wake_all"}
    BY DEF thread_sleep, Return, wake_all_finish, wait_queue_destroy_return,
           Calls, InUser
  <1>6. \E l \in {"user", "sleep", "wake", "destroy"} :
          /\ pc' = [pc EXCEPT ![t] = l]
          /\ l = "destroy" => pc[t] = "wake_all"
    BY DEF thread_sleep, Return, wake_all_finish, wait_queue_destroy_return,
           goto, leave
  <1>7. \A u \in Thread : /\ pc'[u] = "wait" <=> pc[u] = "wait"
                          /\ pc'[u] = "wake_all" <=> pc[u] = "wake_all" /\ u # t
                          /\ pc'[u] = "wake_quiet" <=> pc[u] = "wake_quiet"
                          /\ pc'[u] = "destroy" =>
                               pc[u] = "destroy" \/ (u = t /\ pc[t] = "wake_all")
    <2>1. PICK l \in {"user", "sleep", "wake", "destroy"} :
            pc' = [pc EXCEPT ![t] = l] /\ (l = "destroy" => pc[t] = "wake_all")
      BY <1>6, ZenonT(60)
    <2>2. pc'[t] = l /\ \A u \in Thread : u # t => pc'[u] = pc[u]
      BY <1>1, <2>1
    <2>3. pc[t] \notin {"wait", "wake_quiet"} /\ pc'[t] \notin {"wait", "wake_all", "wake_quiet"}
      BY <1>5, <2>2
    <2>4. pc'[t] = "destroy" => pc[t] = "wake_all"
      BY <2>1, <2>2, ZenonT(60)
    <2> QED
      BY <2>2, <2>3, <2>4
  <1>8. pc[t] # "wake_all" => Quiet
    BY <1>2, <1>3, <1>4, <1>7, ZenonT(60) DEF Quiet
  <1> QED
    BY <1>2, <1>3, <1>4, <1>7, <1>8, ZenonT(60)

\* A turn of the loop of wait_queue_wake_all() wakes a thread.
LEMMA WakeAllWakes ==
  ASSUME SchedInv(Frames), SchedInv(Frames)', NEW t \in Thread, NEW err,
         wake_all_step(t, err)
  PROVE  \E h \in Thread : Woken(h, err)
  <1> DEFINE h == Head(wait_list[wait])
  <1>1. h \in Thread /\ state[h] = "BLOCKED"
    BY HeadBlocked DEF wake_all_step
  <1>2. /\ wait_list' = [wait_list EXCEPT ![wait] = list_delete(@, h)]
        /\ wait_queue_block_ret' = [wait_queue_block_ret EXCEPT ![h] = err]
        /\ UNCHANGED <<pc, timer, block_timeout>>
    BY DEF wake_all_step, wake_head, dequeue, timeVars
  <1>3. \A u \in Thread : state'[u] = "BLOCKED" <=> state[u] = "BLOCKED" /\ u # h
    BY <1>1, <1>2, DequeuedThread, ZenonT(60)
  <1> QED
    BY <1>1, <1>2, <1>3, ZenonT(60) DEF Woken

\* An interrupt is quiet or lets a wait time out.
LEMMA IrqWakes ==
  ASSUME SchedInv(Frames), SchedInv(Frames)', Irq
  PROVE  \/ Quiet
         \/ \E h \in Thread : timer[h] = "timeout" /\ Woken(h, "ERR_TIMED_OUT")
  <1>1. timer \in [Thread -> {"none", "sleep", "timeout"}]
    BY DEF SchedInv, SchedTypeOK
  <1>2. ASSUME UNCHANGED <<wait_list, wait_queue_block_ret, pc, block_timeout>>,
               \A u \in Thread : timer'[u] = "timeout" => timer[u] = "timeout"
        PROVE  Quiet
    BY <1>2, BlockedThreads, ZenonT(60) DEF Quiet
  <1>3. CASE irq_enter \/ irq_exit \/ \E t \in Thread : irq_return(t)
    BY <1>2, <1>3 DEF irq_enter, irq_exit, irq_return, waitVars, timeVars
  <1>4. CASE \E t \in Thread : thread_sleep_handler(t)
    BY <1>1, <1>2, <1>4, ZenonT(60) DEF thread_sleep_handler, waitVars
  <1>5. ASSUME NEW h \in Thread, wait_queue_timeout_handler(h)
        PROVE  \/ Quiet
               \/ timer[h] = "timeout" /\ Woken(h, "ERR_TIMED_OUT")
    <2>1. /\ timer[h] = "timeout" /\ timer' = [timer EXCEPT ![h] = "none"]
          /\ UNCHANGED <<pc, block_timeout>>
      BY <1>5 DEF wait_queue_timeout_handler
    <2>2. CASE state[h] # "BLOCKED"
      <3>1. UNCHANGED <<wait_list, wait_queue_block_ret>>
        BY <1>5, <2>2 DEF wait_queue_timeout_handler, waitVars
      <3>2. \A u \in Thread : timer'[u] = "timeout" => timer[u] = "timeout"
        BY <1>1, <2>1, ZenonT(60)
      <3> QED
        BY <1>2, <2>1, <3>1, <3>2, ZenonT(60)
    <2>3. CASE state[h] = "BLOCKED"
      <3>1. blocking_wait_queue[h] = wait
        BY <2>3, WaitObjectAssumption, ZenonT(60) DEF SchedInv, WaitQueueCoherent, WaitQueueOK
      <3>2. dequeue(wait, h, "ERR_TIMED_OUT")
        BY <1>5, <2>3, <3>1
           DEF wait_queue_timeout_handler, thread_unblock_from_wait_queue
      <3>3. \A u \in Thread : state'[u] = "BLOCKED" <=> state[u] = "BLOCKED" /\ u # h
        BY <2>3, <3>2, DequeuedThread, ZenonT(60) DEF dequeue
      <3> QED
        BY <1>1, <2>1, <2>3, <3>2, <3>3, ZenonT(60) DEF Woken, dequeue
    <2> QED
      BY <2>2, <2>3
  <1> QED
    BY <1>3, <1>4, <1>5, ZenonT(60) DEF Irq

\* wait_queue_block() adds the calling thread to those that wait.
LEMMA BlockedCaller ==
  ASSUME SchedInv(Frames), SchedInv(Frames)', NEW t \in Thread, Calls(t),
         NEW timeout, wait_queue_block(wait, timeout, critical_section_count + 1),
         goto(t, "wait")
  PROVE  /\ wait_queue_block_ret' = [wait_queue_block_ret EXCEPT ![t] = "NO_ERROR"]
         /\ pc' = [pc EXCEPT ![t] = "wait"]
         /\ \A u \in Thread : state'[u] = "BLOCKED" <=> state[u] = "BLOCKED" \/ u = t
         /\ block_timeout' = [block_timeout EXCEPT ![t] = timeout]
         /\ \A u \in Thread : timer'[u] = "timeout" =>
              timer[u] = "timeout" \/ (u = t /\ timeout # "INFINITE")
  <1>1. /\ wait_list[wait] \in Seq(Thread) /\ IsInjective(wait_list[wait])
        /\ wait_list \in [WaitQueue -> Seq(Thread)] /\ wait \in WaitQueue
        /\ timer \in [Thread -> {"none", "sleep", "timeout"}]
    BY WaitObjectAssumption
       DEF SchedInv, SchedTypeOK, WaitQueueCoherent, WaitQueueOK
  <1>2. current_thread = t
    BY ZenonT(60) DEF Calls, InUser, Running
  <1>3. t \notin Range(wait_list[wait])
    <2>1. pc[t] \notin {"exit_wake", "wake_all"} /\ Running(t)
      BY DEF Calls, InUser
    <2>2. state[t] = "RUNNING"
      BY <2>1, FramesFit, RunningFacts, ZenonT(60)
    <2> QED
      BY <2>2, BlockedThreads
  <1>4. Range(list_add_tail(wait_list[wait], t)) = Range(wait_list[wait]) \union {t}
    BY <1>1, <1>3, TailInsertSeq
  <1>5. wait_list' = [wait_list EXCEPT ![wait] = list_add_tail(@, t)]
    BY <1>2 DEF wait_queue_block
  <1>6. Range(wait_list'[wait]) = Range(wait_list[wait]) \union {t}
    BY <1>1, <1>4, <1>5, ZenonT(60)
  <1>7. \A u \in Thread : state'[u] = "BLOCKED" <=> state[u] = "BLOCKED" \/ u = t
    BY <1>6, BlockedThreads
  <1>8. timer' = IF timeout # "INFINITE" THEN [timer EXCEPT ![t] = "timeout"] ELSE timer
    BY <1>2 DEF wait_queue_block
  <1> QED
    BY <1>1, <1>2, <1>7, <1>8, ZenonT(60) DEF wait_queue_block, goto

\* wait_queue_wake_one() wakes the head of the queue.
LEMMA WakeOneWakes ==
  ASSUME SchedInv(Frames), SchedInv(Frames)', NEW t \in Thread, Calls(t),
         wait_list[wait] # <<>>, NEW err,
         wake_one_resched(wait, err, critical_section_count + 1),
         goto(t, "wake"), UNCHANGED timeVars
  PROVE  \E h \in Thread : Woken(h, err)
  <1> DEFINE h == Head(wait_list[wait])
  <1>1. h \in Thread /\ state[h] = "BLOCKED"
    BY HeadBlocked
  <1>2. /\ wait_list' = [wait_list EXCEPT ![wait] = list_delete(@, h)]
        /\ wait_queue_block_ret' = [wait_queue_block_ret EXCEPT ![h] = err]
        /\ UNCHANGED <<block_timeout, timer>>
    BY DEF wake_one_resched, dequeue, timeVars
  <1>3. \A u \in Thread : state'[u] = "BLOCKED" <=> state[u] = "BLOCKED" /\ u # h
    BY <1>1, <1>2, DequeuedThread, ZenonT(60)
  <1>4. \A u \in Thread : /\ pc'[u] = "wait" <=> pc[u] = "wait"
                          /\ pc'[u] = "wake_all" <=> pc[u] = "wake_all"
                          /\ pc'[u] = "wake_quiet" <=> pc[u] = "wake_quiet"
                          /\ pc'[u] = "destroy" => pc[u] = "destroy"
    BY DEF goto, Calls, InUser, SchedInv
  <1> QED
    BY <1>1, <1>2, <1>3, <1>4, ZenonT(60) DEF Woken

-----------------------------------------------------------------------------
(* Counting threads                                                        *)

\* What the proofs use of finite sets.  Their lemmas assume it and their
\* theorems discharge it (CountingHolds), which keeps the theorems of the
\* library out of the obligations in between.
CountingLaws ==
  /\ \A S : \A T \in SUBSET S : IsFiniteSet(S) => IsFiniteSet(T)
  /\ \A S : IsFiniteSet(S) => Cardinality(S) \in Nat
  /\ IsFiniteSet({}) /\ Cardinality({}) = 0
  /\ \A S : IsFiniteSet(S) => (Cardinality(S) = 0 <=> S = {})
  /\ \A S, x : IsFiniteSet(S) =>
       Cardinality(S \cup {x}) = IF x \in S THEN Cardinality(S) ELSE Cardinality(S) + 1
  /\ \A S, x : IsFiniteSet(S) =>
       Cardinality(S \ {x}) = IF x \in S THEN Cardinality(S) - 1 ELSE Cardinality(S)
  /\ \A x : Cardinality({x}) = 1

\* A subset of the threads is finite.
LEMMA SubsetFinite ==
  ASSUME CountingLaws, NEW S, IsFiniteSet(S), NEW T \in SUBSET S
  PROVE  IsFiniteSet(T)
  BY ZenonT(60) DEF CountingLaws

\* A finite set has a number of members.
LEMMA CardinalityIsNat ==
  ASSUME CountingLaws, NEW S, IsFiniteSet(S)
  PROVE  Cardinality(S) \in Nat
  BY ZenonT(60) DEF CountingLaws

\* Only the empty set has no members.
LEMMA EmptyCounted ==
  ASSUME CountingLaws
  PROVE  /\ Cardinality({}) = 0
         /\ \A S : IsFiniteSet(S) => (Cardinality(S) = 0 <=> S = {})
  BY ZenonT(60) DEF CountingLaws

\* One member more.
LEMMA AddedCounted ==
  ASSUME CountingLaws, NEW S, NEW x, IsFiniteSet(S)
  PROVE  Cardinality(S \cup {x}) =
           IF x \in S THEN Cardinality(S) ELSE Cardinality(S) + 1
  BY ZenonT(60) DEF CountingLaws

\* One member less.
LEMMA RemovedCounted ==
  ASSUME CountingLaws, NEW S, NEW x, IsFiniteSet(S)
  PROVE  Cardinality(S \ {x}) =
           IF x \in S THEN Cardinality(S) - 1 ELSE Cardinality(S)
  BY ZenonT(60) DEF CountingLaws

\* Sets of one member.
LEMMA SingleCounted ==
  ASSUME CountingLaws
  PROVE  \A x : Cardinality({x}) = 1
  BY ZenonT(60) DEF CountingLaws
=============================================================================
