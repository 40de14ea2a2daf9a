---------------------------- MODULE ThreadProofs -----------------------------
(* Proofs about module Thread, for any number of threads and priorities.    *)
EXTENDS Thread, SchedulerProofs

\* The default time limits are too tight for the size of the obligations.
USE SMTT(60), ZenonT(60)

-----------------------------------------------------------------------------
(* The inductive invariant                                                 *)

\* The types of what module Thread adds.
HandleTypes ==
  /\ thread_list \in SUBSET Thread /\ detached \in SUBSET Thread
  /\ arg \in [Thread -> Thread \union {NULL}]
  /\ owner \in [Thread -> Thread \union {NULL}]

\* A thread that has not begun or has ended holds no critical section of its
\* own, is in no interrupt frame, and is at the begin or the end of its code.
Parked == {"FREE", "SUSPENDED", "DEATH"}

ParkedOK == \A t \in Thread :
  /\ state[t] \in Parked => depth[t] = 0 /\ t \notin preempted
  /\ state[t] = "FREE" => pc[t] = "dead"
  /\ state[t] = "SUSPENDED" => pc[t] = "start"
  /\ state[t] = "DEATH" => pc[t] \in {"exit_wake", "dead"}

\* The master list holds the threads that are allocated.
ListOK == \A t \in Thread : t \in thread_list <=> state[t] # "FREE"

\* A timer is armed only while the function whose stack it is on runs.
TimersOK == \A t \in Thread :
  /\ timer[t] = "timeout" => pc[t] = "join" /\ block_timeout[t] = "FINITE"
  /\ timer[t] = "sleep" => pc[t] = "sleep"

\* A caller in one of these calls has a thread it is about, and a blocked one
\* waits on the queue of that thread.
Busy(c) == pc[c] \in {"join", "detach_wake", "dar_wake", "detach_join", "dar_resume"}

ArgOK == \A c \in Thread :
  /\ Busy(c) => arg[c] \in Thread
  /\ state[c] = "BLOCKED" => pc[c] = "join" /\ blocking_wait_queue[c] = arg[c]

\* There are handles only for allocated threads, and once a detached thread is
\* on its way nobody holds its handle.
OwnerOK == \A t \in Thread :
  /\ owner[t] # NULL => t \in thread_list
  /\ t \in detached /\ state[t] # "SUSPENDED" => owner[t] = NULL

ThreadInv ==
  /\ SchedInv(Frames)
  /\ HandleTypes /\ ParkedOK /\ ListOK /\ TimersOK /\ ArgOK /\ OwnerOK
  /\ NoJoinerForgotten
  /\ OwnJoinFindsDeadThread

\* The ASSERTs of thread_join(), when it frees the thread it has waited for.
JoinAsserts == \A c \in Thread :
  thread_join_return(c) /\ wait_queue_block_ret[c] = "NO_ERROR" => FindsDeadThread(c)

\* The labels of module Thread fit the lemmas about module Scheduler.
LEMMA FramesFit ==
  /\ FramesOK(Frames)
  /\ {"user", "start", "yield", "sleep", "wake", "resume", "join", "detach_wake",
      "detach_join", "dar_wake", "dar_resume", "exit_wake", "dead", "become_idle"}
       = DOMAIN Frames
  /\ \A l \in {"user", "detach_join", "dar_resume", "become_idle"} : Frames[l] = 0
  /\ \A l \in {"start", "detach_wake", "dar_wake", "exit_wake", "dead", "yield"} :
       Frames[l] = 1
  /\ \A l \in {"resume", "join"} : Frames[l] = 2
  BY DEF FramesOK, Frames

\* The threads somebody is blocked on in thread_join().
Awaited(t) == \E w \in Thread : state[w] = "BLOCKED" /\ arg[w] = t

\* A step that blocks nobody.
BlocksNobody ==
  \A u \in Thread : state'[u] = "BLOCKED" => state[u] = "BLOCKED" /\ arg'[u] = arg[u]

\* A step that takes none of the threads that are waited for away.
KeepsAwaited == \A u \in Thread : Awaited(u) =>
  /\ u \in thread_list \ detached => u \in thread_list' \ detached'
  /\ state'[u] = "DEATH" =>
       pc'[u] = "exit_wake" \/ (state[u] = "DEATH" /\ pc[u] # "exit_wake")

\* A step after which nobody else is about to free a thread, and in which no
\* thread is freed that still has an owner.
KeepsReapers ==
  /\ \A u \in Thread : Reaping(u)' => Reaping(u) /\ arg'[u] = arg[u]
  /\ \A u, w \in Thread : owner'[u] = w /\ Reaping(w) => owner[u] = w
  /\ \A u \in Thread : u \in thread_list /\ state[u] = "DEATH" =>
       owner'[u] = NULL \/ (u \in thread_list' /\ state'[u] = "DEATH")

\* No joiner is forgotten by such a step.
LEMMA JoinersKept ==
  ASSUME ThreadInv, BlocksNobody, KeepsAwaited
  PROVE  NoJoinerForgotten'
  <1> SUFFICES ASSUME NEW w \in Thread, state'[w] = "BLOCKED"
               PROVE  /\ arg'[w] \in thread_list' \ detached'
                      /\ state'[arg'[w]] # "DEATH" \/ pc'[arg'[w]] = "exit_wake"
    BY ZenonT(60) DEF NoJoinerForgotten
  <1>1. state[w] = "BLOCKED" /\ pc[w] = "join" /\ arg'[w] = arg[w] /\ arg[w] \in Thread
    BY ZenonT(60) DEF ThreadInv, ArgOK, Busy, BlocksNobody
  <1>2. Awaited(arg[w])
    BY <1>1, ZenonT(60) DEF Awaited
  <1>3. /\ arg[w] \in thread_list \ detached
        /\ state[arg[w]] # "DEATH" \/ pc[arg[w]] = "exit_wake"
    BY <1>1, ZenonT(60) DEF ThreadInv, NoJoinerForgotten
  <1> QED
    BY <1>1, <1>2, <1>3, ZenonT(60) DEF KeepsAwaited

\* A caller about to free a thread it owns still finds it dead after such a step.
LEMMA OwnJoinKept ==
  ASSUME ThreadInv, KeepsReapers
  PROVE  OwnJoinFindsDeadThread'
  <1> SUFFICES ASSUME NEW d \in Thread, Reaping(d)', owner'[arg'[d]] = d
               PROVE  FindsDeadThread(d)'
    BY ZenonT(60) DEF OwnJoinFindsDeadThread
  <1>1. Reaping(d) /\ arg'[d] = arg[d]
    BY ZenonT(60) DEF KeepsReapers
  <1>2. arg[d] \in Thread
    BY <1>1, ZenonT(60) DEF ThreadInv, ArgOK, Busy, Reaping
  <1>3. owner[arg[d]] = d
    BY <1>1, <1>2, ZenonT(60) DEF KeepsReapers
  <1>4. arg[d] \in thread_list /\ state[arg[d]] = "DEATH"
    BY <1>1, <1>3, ZenonT(60) DEF ThreadInv, OwnJoinFindsDeadThread, FindsDeadThread
  <1>5. owner'[arg[d]] # NULL
    BY <1>1, ThreadAssumption, ZenonT(60)
  <1> QED
    BY <1>1, <1>2, <1>4, <1>5, ZenonT(60) DEF FindsDeadThread, KeepsReapers

-----------------------------------------------------------------------------
(* Steps that concern no handle                                            *)

\* Only thread_resume() gets a suspended thread going.
KeepsSuspended == \A u \in Thread : state[u] = "SUSPENDED" => state'[u] = "SUSPENDED"

\* The labels of calls that are about the caller only.
Plain == {"user", "start", "yield", "sleep", "wake", "resume", "become_idle"}

\* A step in which threads run, yield, sleep or are interrupted.
Quiet ==
  /\ UNCHANGED <<threadVars, wait_queue_block_ret, blocking_wait_queue, block_timeout>>
  /\ After(state)
  /\ \A u \in Thread :
       /\ pc'[u] = pc[u] \/ (state[u] \in Alive /\ pc[u] \in Plain /\ pc'[u] \in Plain)
       /\ depth'[u] = depth[u] \/ state[u] \in Alive
       /\ u \in preempted' => u \in preempted \/ state[u] \in Alive
       /\ timer'[u] = "timeout" => timer[u] = "timeout"
       /\ timer'[u] = "sleep" => pc'[u] = "sleep"

\* Such a step keeps the invariant.
LEMMA QuietInv ==
  ASSUME ThreadInv, SchedInv(Frames)', Quiet
  PROVE  ThreadInv'
  <1>1. \A u \in Thread : \A x \in {"FREE", "SUSPENDED", "DEATH", "BLOCKED"} :
          state'[u] = x <=> state[u] = x
    BY ZenonT(60) DEF Quiet, After, Alive
  <1>2. UNCHANGED <<thread_list, detached, arg, owner, wait_queue_block_ret,
                    blocking_wait_queue, block_timeout>>
    BY ZenonT(60) DEF Quiet, threadVars
  <1>3. \A u \in Thread : \A l \in {"join", "detach_wake", "dar_wake", "detach_join",
                                    "dar_resume", "exit_wake", "dead"} :
          pc'[u] = l <=> pc[u] = l
    BY ZenonT(60) DEF Quiet, Plain
  <1>4. HandleTypes'
    BY <1>2, ZenonT(60) DEF ThreadInv, HandleTypes
  <1>5. ParkedOK'
    BY <1>1, ZenonT(60) DEF ThreadInv, ParkedOK, Parked, Quiet, Alive
  <1>6. ListOK'
    BY <1>1, <1>2, ZenonT(60) DEF ThreadInv, ListOK
  <1>7. TimersOK'
    BY <1>2, <1>3, ZenonT(60) DEF ThreadInv, TimersOK, Quiet
  <1>8. ArgOK'
    BY <1>1, <1>2, <1>3, ZenonT(60) DEF ThreadInv, ArgOK, Busy
  <1>9. OwnerOK'
    BY <1>1, <1>2, ZenonT(60) DEF ThreadInv, OwnerOK
  <1>10. NoJoinerForgotten'
    BY <1>1, <1>2, <1>3, ZenonT(60) DEF ThreadInv, NoJoinerForgotten, ArgOK, Busy
  <1>11. OwnJoinFindsDeadThread'
    BY <1>1, <1>2, <1>3, ZenonT(60)
       DEF ThreadInv, OwnJoinFindsDeadThread, Reaping, FindsDeadThread, ArgOK, Busy
  <1> QED
    BY <1>4, <1>5, <1>6, <1>7, <1>8, <1>9, <1>10, <1>11, ZenonT(60) DEF ThreadInv

\* A step in which the blocked thread h is woken with err.
Woken(h, err) ==
  /\ state[h] = "BLOCKED"
  /\ UNCHANGED <<threadVars, block_timeout, pc, depth, preempted>>
  /\ wait_queue_block_ret' = [wait_queue_block_ret EXCEPT ![h] = err]
  /\ \A u \in Thread : u # h => blocking_wait_queue'[u] = blocking_wait_queue[u]
  /\ After([state EXCEPT ![h] = "READY"])
  /\ \A u \in Thread : timer'[u] \in {"timeout", "sleep"} => timer'[u] = timer[u]
  /\ err = "NO_ERROR" => FindsDeadThread(h)

\* Such a step keeps the invariant.
LEMMA WokenInv ==
  ASSUME ThreadInv, SchedInv(Frames)', NEW h \in Thread, NEW err, Woken(h, err)
  PROVE  ThreadInv'
  <1>0. /\ state \in StateType /\ wait_queue_block_ret \in [Thread -> Status]
        /\ state[h] = "BLOCKED" /\ pc[h] = "join" /\ arg[h] \in Thread
    BY ZenonT(60) DEF ThreadInv, SchedInv, SchedTypeOK, StateType, Woken, ArgOK, Busy
  <1>1. /\ \A u \in Thread : \A x \in {"FREE", "SUSPENDED", "DEATH"} :
             state'[u] = x <=> state[u] = x
        /\ \A u \in Thread : state'[u] = "BLOCKED" <=> state[u] = "BLOCKED" /\ u # h
    BY <1>0, ZenonT(60) DEF Woken, After, Alive, StateType
  <1>2. /\ UNCHANGED <<thread_list, detached, arg, owner, block_timeout, pc, depth,
                       preempted>>
        /\ \A u \in Thread : u # h =>
             /\ wait_queue_block_ret'[u] = wait_queue_block_ret[u]
             /\ blocking_wait_queue'[u] = blocking_wait_queue[u]
        /\ wait_queue_block_ret'[h] = err
    BY <1>0, ZenonT(60) DEF Woken, threadVars
  <1>4. HandleTypes'
    BY <1>2, ZenonT(60) DEF ThreadInv, HandleTypes
  <1>5. ParkedOK'
    BY <1>1, <1>2, ZenonT(60) DEF ThreadInv, ParkedOK, Parked
  <1>6. ListOK'
    BY <1>1, <1>2, ZenonT(60) DEF ThreadInv, ListOK
  <1>7. TimersOK'
    BY <1>2, ZenonT(60) DEF ThreadInv, TimersOK, Woken
  <1>8. ArgOK'
    BY <1>1, <1>2, ZenonT(60) DEF ThreadInv, ArgOK, Busy
  <1>9. OwnerOK'
    BY <1>1, <1>2, ZenonT(60) DEF ThreadInv, OwnerOK
  <1>10. NoJoinerForgotten'
    BY <1>1, <1>2 DEF ThreadInv, NoJoinerForgotten, ArgOK, Busy
  <1>11. OwnJoinFindsDeadThread'
    <2> SUFFICES ASSUME NEW c \in Thread, Reaping(c)', owner'[arg'[c]] = c
                 PROVE  FindsDeadThread(c)'
      BY ZenonT(60) DEF OwnJoinFindsDeadThread
    <2>1. CASE c = h
      <3>1. FindsDeadThread(h)
        BY <2>1, <1>0, <1>2, ZenonT(60) DEF Woken, Reaping
      <3> QED
        BY <2>1, <3>1, <1>0, <1>1, <1>2, ZenonT(60) DEF FindsDeadThread
    <2>2. CASE c # h
      <3>1. Reaping(c) /\ owner[arg[c]] = c /\ arg[c] \in Thread
        BY <2>2, <1>1, <1>2, ZenonT(60) DEF Reaping, ThreadInv, ArgOK, Busy
      <3>2. FindsDeadThread(c)
        BY <3>1, ZenonT(60) DEF ThreadInv, OwnJoinFindsDeadThread
      <3> QED
        BY <3>1, <3>2, <1>1, <1>2, ZenonT(60) DEF FindsDeadThread
    <2> QED
      BY <2>1, <2>2, ZenonT(60)
  <1> QED
    BY <1>4, <1>5, <1>6, <1>7, <1>8, <1>9, <1>10, <1>11, ZenonT(60) DEF ThreadInv

\* A call of the running thread c that is about itself only.
LEMMA QuietCall ==
  ASSUME ThreadInv, SchedInv(Frames)', After(state),
         UNCHANGED <<threadVars, wait_queue_block_ret, blocking_wait_queue,
                     block_timeout, preempted>>,
         NEW c \in Thread, state[c] = "RUNNING", pc[c] \in Plain,
         NEW l \in Plain, pc' = [pc EXCEPT ![c] = l],
         \A u \in Thread : u # c => depth'[u] = depth[u],
         timer' = timer \/ (l = "sleep" /\ timer' = [timer EXCEPT ![c] = "sleep"])
  PROVE  ThreadInv'
  <1>1. pc \in [Thread -> DOMAIN Frames] /\ timer \in [Thread -> {"none", "sleep", "timeout"}]
    BY ZenonT(60) DEF ThreadInv, SchedInv, SchedTypeOK
  <1>2. pc'[c] = l /\ \A u \in Thread : u # c => pc'[u] = pc[u]
    BY <1>1, ZenonT(60)
  <1>3. timer[c] # "sleep"
    BY ZenonT(60) DEF ThreadInv, SchedInv, SleepTimers
  <1>4. \A u \in Thread : timer[u] = "sleep" => pc[u] = "sleep"
    BY ZenonT(60) DEF ThreadInv, TimersOK
  <1>5. \A u \in Thread : /\ timer'[u] = "timeout" => timer[u] = "timeout"
                          /\ timer'[u] = "sleep" => pc'[u] = "sleep"
    BY <1>1, <1>2, <1>3, <1>4, ZenonT(60)
  <1>6. Quiet
    BY <1>2, <1>5, ZenonT(60) DEF Quiet, Alive
  <1> QED
    BY <1>6, QuietInv, ZenonT(60)

\* What is known of a caller.
LEMMA CallerRuns ==
  ASSUME ThreadInv, NEW c \in Thread, Running(c), pc[c] # "exit_wake"
  PROVE  /\ state[c] = "RUNNING" /\ current_thread = c /\ irq = "off"
         /\ c \notin preempted
         /\ critical_section_count = OwedWith(Frames, depth[c], pc[c], FALSE)
         /\ critical_section_count \in Int /\ depth[c] \in Nat
         /\ OtherTypesOK
  <1>1. pc[c] \notin {"exit_wake", "wake_all"}
    BY FramesFit, ZenonT(60) DEF ThreadInv, SchedInv
  <1>2. SchedInv(Frames)
    BY ZenonT(60) DEF ThreadInv
  <1> QED
    BY <1>1, <1>2, FramesFit, RunningFacts, Before, ZenonT(60)

\* The calls that are about the caller only keep the invariant.
LEMMA QuietCallsInv ==
  ASSUME ThreadInv, NEW c \in Thread, UNCHANGED threadVars,
         \/ thread_yield(c) \/ thread_sleep(c) \/ Return(c)
         \/ enter_critical_section(c) \/ exit_critical_section(c)
         \/ \E p \in SetPriority : thread_set_priority(c, p)
  PROVE  ThreadInv' /\ HandsOver /\ After(state)
  <1>1. SchedInv(Frames)' /\ HandsOver /\ After(state)
    <2>1. SchedInv(Frames) /\ FramesOK(Frames) /\ SetPriority \subseteq Int
      BY FramesFit, ThreadAssumption, ZenonT(60) DEF ThreadInv
    <2>2. CASE \E p \in SetPriority : thread_set_priority(c, p)
      BY <2>1, <2>2, SetPriorityStep, ZenonT(60)
    <2> QED
      BY <2>1, <2>2, YieldStep, SleepStep, ReturnStep, EnterStep, ZenonT(60)
  <1>2. Running(c) /\ pc[c] \in Plain
    BY ZenonT(60) DEF thread_yield, thread_sleep, Return, enter_critical_section,
           exit_critical_section, thread_set_priority, Calls, InUser, Plain
  <1>3. state[c] = "RUNNING"
    BY <1>2, CallerRuns, ZenonT(60) DEF Plain
  <1>4. UNCHANGED <<wait_queue_block_ret, blocking_wait_queue, block_timeout, preempted>>
    BY ZenonT(60) DEF thread_yield, thread_sleep, Return, enter_critical_section,
           exit_critical_section, thread_set_priority, waitVars, timeVars, ctlVars
  <1>5. \A u \in Thread : u # c => depth'[u] = depth[u]
    <2>1. depth \in [Thread -> Nat]
      BY ZenonT(60) DEF ThreadInv, SchedInv, SchedTypeOK
    <2> QED
      BY <2>1, ZenonT(60) DEF thread_yield, thread_sleep, Return, enter_critical_section,
             exit_critical_section, thread_set_priority, ctlVars
  <1>6. pc \in [Thread -> DOMAIN Frames]
    BY ZenonT(60) DEF ThreadInv, SchedInv
  <1>7. PICK l \in Plain : /\ pc' = [pc EXCEPT ![c] = l]
                           /\ \/ timer' = timer
                              \/ l = "sleep" /\ timer' = [timer EXCEPT ![c] = "sleep"]
    <2>1. CASE thread_yield(c)
      BY <2>1, ZenonT(60) DEF thread_yield, goto, timeVars, Plain
    <2>2. CASE thread_sleep(c)
      BY <2>2, ZenonT(60) DEF thread_sleep, goto, Plain
    <2>3. CASE Return(c)
      BY <2>3, ZenonT(60) DEF Return, leave, goto, timeVars, Plain
    <2>4. CASE UNCHANGED <<pc, timer>>
      <3>1. pc' = [pc EXCEPT ![c] = pc[c]] /\ timer' = timer
        BY <2>4, <1>6, ZenonT(60)
      <3> QED
        BY <3>1, <1>2, ZenonT(60)
    <2> QED
      BY <2>1, <2>2, <2>3, <2>4, ZenonT(60)
         DEF enter_critical_section, exit_critical_section, thread_set_priority, timeVars
  <1>8. ThreadInv'
    BY <1>1, <1>2, <1>3, <1>4, <1>5, <1>7, QuietCall, ZenonT(60)
  <1> QED
    BY <1>1, <1>8, ZenonT(60)

\* The boot code becomes the idle thread.
LEMMA BecomeIdleInv ==
  ASSUME ThreadInv, thread_become_idle \/ thread_become_idle_yield
  PROVE  ThreadInv' /\ HandsOver /\ After(state)
  <1>1. /\ SchedInv(Frames) /\ IdleThread \in Thread
        /\ RunTypesOK /\ OtherTypesOK /\ pc \in [Thread -> DOMAIN Frames]
        /\ depth \in [Thread -> Nat] /\ priority \in [Thread -> Priority]
        /\ state \in StateType /\ RunQueue \in RunQueueType
        /\ RunQueueOK(state, priority, RunQueue)
        /\ remaining_quantum \in [Thread -> 0 .. QUANTUM]
    BY SchedulerAssumption, Before, ZenonT(60) DEF ThreadInv
  <1>2. Running(IdleThread) /\ pc[IdleThread] \in {"user", "become_idle"}
    BY ZenonT(60) DEF thread_become_idle, thread_become_idle_yield, InUser
  <1>3. /\ state[IdleThread] = "RUNNING" /\ current_thread = IdleThread /\ irq = "off"
        /\ IdleThread \notin preempted
        /\ critical_section_count = OwedWith(Frames, depth[IdleThread], pc[IdleThread], FALSE)
        /\ critical_section_count \in Int
    BY <1>1, <1>2, CallerRuns, ZenonT(60)
  <1>4. CASE thread_become_idle
    <2>1. /\ pc[IdleThread] = "user" /\ depth[IdleThread] = 1
          /\ priority' = [priority EXCEPT ![IdleThread] = IDLE_PRIORITY]
          /\ depth' = [depth EXCEPT ![IdleThread] = 0]
          /\ critical_section_count' = critical_section_count - 1
          /\ pc' = [pc EXCEPT ![IdleThread] = "become_idle"]
          /\ UNCHANGED <<current_thread, state, remaining_quantum, run_queue,
                         run_queue_bitmap, saved_critical_section_count, wait_list,
                         wait_count, blocking_wait_queue, wait_queue_block_ret,
                         block_timeout, timer, preempted, irq, threadVars>>
      BY <1>4, ZenonT(60) DEF thread_become_idle, Booting, goto, waitVars, timeVars, InUser
    <2>2. /\ priority' \in [Thread -> Priority] /\ depth' \in [Thread -> Nat]
          /\ pc' \in [Thread -> DOMAIN Frames]
          /\ depth'[IdleThread] = 0 /\ pc'[IdleThread] = "become_idle"
          /\ \A u \in Thread : u # IdleThread =>
               depth'[u] = depth[u] /\ pc'[u] = pc[u] /\ priority'[u] = priority[u]
      BY <2>1, <1>1, FramesFit, SchedulerAssumption
         DEF IDLE_PRIORITY, LOWEST_PRIORITY, Priority
    <2>3. OtherTypesOK'
      BY <2>1, <2>2, <1>1, ZenonT(60) DEF OtherTypesOK
    <2>4. /\ critical_section_count' \in Int
          /\ critical_section_count' = OwedWith(Frames, depth'[IdleThread],
               pc'[IdleThread], IdleThread \in preempted') + 0
      BY <2>1, <2>2, <1>3, FramesFit DEF OwedWith
    <2>5. Stays(Frames)
      BY <1>1, <1>3, <2>1, <2>2, <2>3, <2>4, ZenonT(60) DEF Stays
    <2>6. SchedInv(Frames)' /\ HandsOver /\ After(state)
      BY <1>1, <2>5, FramesFit, Stay, ZenonT(60)
    <2>7. ThreadInv'
      BY <1>1, <1>3, <2>1, <2>2, <2>6, QuietCall, ZenonT(60) DEF Plain
    <2> QED
      BY <2>6, <2>7, ZenonT(60)
  <1>5. CASE thread_become_idle_yield
    <2>1. /\ pc[IdleThread] = "become_idle"
          /\ yield(state, RunQueue, critical_section_count + 1)
          /\ pc' = [pc EXCEPT ![IdleThread] = "yield"]
          /\ UNCHANGED <<waitVars, timeVars, ctlVars>> /\ UNCHANGED threadVars
      BY <1>5, ZenonT(60) DEF thread_become_idle_yield, goto
    <2>2. Yields(Frames, IdleThread, "yield", 1, state, RunQueue)
      <3>1. /\ "yield" \in DOMAIN Frames /\ Frames["yield"] = 1
            /\ Frames["become_idle"] = 0
        BY ZenonT(60) DEF Frames
      <3>2. Frames["yield"] = Frames[pc[IdleThread]] + 1
        BY <2>1, <3>1
      <3>3. "yield" \in DOMAIN Frames \ {"exit_wake", "wake_all"}
            /\ pc[IdleThread] \notin {"exit_wake", "wake_all"} /\ 1 \in Int
        BY <2>1, <3>1
      <3> QED
        BY <1>1, <1>2, <1>3, <2>1, <3>2, <3>3, ZenonT(60) DEF Yields
    <2>3. SchedInv(Frames)' /\ HandsOver /\ After(state)
      BY <1>1, <2>2, FramesFit, YieldFrom, ZenonT(60)
    <2>4. UNCHANGED <<wait_queue_block_ret, blocking_wait_queue, block_timeout, preempted,
                      timer, depth>>
      BY <2>1, ZenonT(60) DEF waitVars, timeVars, ctlVars
    <2>5. ThreadInv'
      BY <1>1, <1>3, <2>1, <2>3, <2>4, QuietCall, ZenonT(60) DEF Plain
    <2> QED
      BY <2>3, <2>5, ZenonT(60)
  <1> QED
    BY <1>4, <1>5, ZenonT(60)

\* The interrupt keeps the invariant: it is quiet, or lets a join time out.
LEMMA IrqInv ==
  ASSUME ThreadInv, Irq, UNCHANGED threadVars
  PROVE  ThreadInv' /\ HandsOver /\ KeepsSuspended
  <1>1. /\ SchedInv(Frames) /\ FramesOK(Frames) /\ current_thread \in Thread
        /\ timer \in [Thread -> {"none", "sleep", "timeout"}]
        /\ preempted \in SUBSET Thread
    BY FramesFit, ZenonT(60) DEF ThreadInv, SchedInv, SchedTypeOK
  <1>2. SchedInv(Frames)' /\ HandsOver
    BY <1>1, IrqStep, ZenonT(60)
  <1>3. \A u \in Thread : timer[u] = "sleep" => pc[u] = "sleep"
    BY ZenonT(60) DEF ThreadInv, TimersOK
  <1>4. ASSUME After(state),
               UNCHANGED <<wait_queue_block_ret, blocking_wait_queue, block_timeout, pc, depth>>,
               \A u \in Thread : u \in preempted' => u \in preempted \/ state[u] \in Alive,
               \A u \in Thread : timer'[u] \in {"timeout", "sleep"} => timer'[u] = timer[u]
        PROVE  ThreadInv' /\ KeepsSuspended
    <2>1. Quiet
      BY <1>3, <1>4, ZenonT(60) DEF Quiet
    <2>2. KeepsSuspended
      BY <1>4, ZenonT(60) DEF KeepsSuspended, After, Alive
    <2> QED
      BY <1>2, <2>1, <2>2, QuietInv, ZenonT(60)
  <1>5. CASE irq_enter \/ \E t \in Thread : irq_return(t)
    <2>1. After(state)
      BY <1>1, <1>5, IrqEnterStep, IrqReturnStep, ZenonT(60)
    <2>2. UNCHANGED <<wait_queue_block_ret, blocking_wait_queue, block_timeout, pc, depth, timer>>
          /\ preempted' \subseteq preempted
      BY <1>5, ZenonT(60) DEF irq_enter, irq_return, waitVars, timeVars
    <2> QED
      BY <1>2, <1>4, <2>1, <2>2, ZenonT(60)
  <1>6. CASE irq_exit
    <2>1. After(state)
      BY <1>1, <1>6, IrqExitStep, ZenonT(60)
    <2>2. /\ UNCHANGED <<wait_queue_block_ret, blocking_wait_queue, block_timeout, pc, depth, timer>>
          /\ preempted' \subseteq preempted \union {current_thread} /\ irq # "off"
      BY <1>6, ZenonT(60) DEF irq_exit, waitVars, timeVars
    <2>3. state[current_thread] \in Alive
      BY <1>1, <2>2, InterruptedRuns, ZenonT(60) DEF Alive
    <2> QED
      BY <1>2, <1>4, <2>1, <2>2, <2>3, ZenonT(60)
  <1>7. ASSUME NEW t \in Thread, thread_sleep_handler(t)
        PROVE  ThreadInv' /\ KeepsSuspended
    <2>1. After(state)
      BY <1>1, <1>7, SleepHandlerStep, ZenonT(60)
    <2>2. /\ UNCHANGED <<wait_queue_block_ret, blocking_wait_queue, block_timeout, pc, depth,
                         preempted>>
          /\ timer' = [timer EXCEPT ![t] = "none"]
      BY <1>7, ZenonT(60) DEF thread_sleep_handler, waitVars
    <2>3. \A u \in Thread : timer'[u] \in {"timeout", "sleep"} => timer'[u] = timer[u]
      BY <1>1, <2>2, ZenonT(60)
    <2> QED
      BY <1>4, <2>1, <2>2, <2>3, ZenonT(60)
  <1>8. ASSUME NEW t \in Thread, wait_queue_timeout_handler(t)
        PROVE  ThreadInv' /\ KeepsSuspended
    <2>1. /\ UNCHANGED <<block_timeout, pc, depth, preempted>>
          /\ timer' = [timer EXCEPT ![t] = "none"]
      BY <1>8, ZenonT(60) DEF wait_queue_timeout_handler
    <2>2. \A u \in Thread : timer'[u] \in {"timeout", "sleep"} => timer'[u] = timer[u]
      BY <1>1, <2>1, ZenonT(60)
    <2>3. CASE state[t] # "BLOCKED"
      <3>1. UNCHANGED <<state, wait_queue_block_ret, blocking_wait_queue>>
        BY <1>8, <2>3, ZenonT(60) DEF wait_queue_timeout_handler, waitVars
      <3>2. After(state)
        BY <3>1, ZenonT(60) DEF After
      <3> QED
        BY <1>4, <2>1, <2>2, <3>1, <3>2, ZenonT(60)
    <2>4. CASE state[t] = "BLOCKED"
      <3>1. /\ dequeue(blocking_wait_queue[t], t, "ERR_TIMED_OUT")
            /\ state' = [state EXCEPT ![t] = "READY"]
        BY <1>8, <2>4, ZenonT(60)
           DEF wait_queue_timeout_handler, thread_unblock_from_wait_queue, make_ready
      <3>2. /\ wait_queue_block_ret' = [wait_queue_block_ret EXCEPT ![t] = "ERR_TIMED_OUT"]
            /\ \A u \in Thread : u # t => blocking_wait_queue'[u] = blocking_wait_queue[u]
        BY <3>1, <1>1, ZenonT(60) DEF dequeue, SchedInv, SchedTypeOK
      <3>3. After([state EXCEPT ![t] = "READY"])
        BY <3>1, ZenonT(60) DEF After
      <3>4. Woken(t, "ERR_TIMED_OUT")
        BY <2>1, <2>2, <2>4, <3>2, <3>3, ZenonT(60) DEF Woken
      <3>5. KeepsSuspended
        BY <2>4, <3>3, <1>1, ZenonT(60)
           DEF KeepsSuspended, After, Alive, SchedInv, SchedTypeOK
      <3> QED
        BY <1>2, <3>4, <3>5, WokenInv, ZenonT(60)
    <2> QED
      BY <2>3, <2>4, ZenonT(60)
  <1> QED
    BY <1>2, <1>5, <1>6, <1>7, <1>8, ZenonT(60) DEF Irq

-----------------------------------------------------------------------------
(* Threads are created and resumed                                         *)

\* Nobody is on the wait queue of a thread that is not allocated.
LEMMA NoWaiters ==
  ASSUME ThreadInv, NEW t \in Thread,
         \A c \in Thread : state[c] = "BLOCKED" => arg[c] # t
  PROVE  wait_list[t] = <<>> /\ wait_count[t] = 0 /\ t \in WaitQueue
  <1>1. /\ wait_list \in WaitListType /\ t \in WaitQueue
        /\ WaitQueueOK(state, blocking_wait_queue, wait_list, wait_count)
    BY Before, ThreadAssumption, ZenonT(60) DEF ThreadInv
  <1>2. Range(wait_list[t]) = {} /\ wait_count[t] = Len(wait_list[t])
    BY <1>1, ZenonT(60) DEF WaitQueueOK, ThreadInv, ArgOK
  <1>3. wait_list[t] \in Seq(Thread)
    BY <1>1, ZenonT(60) DEF WaitListType
  <1>4. wait_list[t] = <<>>
    <2> SUFFICES ASSUME wait_list[t] # <<>> PROVE FALSE
      BY ZenonT(60)
    <2>1. 1 \in DOMAIN wait_list[t]
      BY <1>3
    <2>2. wait_list[t][1] \in Range(wait_list[t])
      BY <2>1, ZenonT(60) DEF Range
    <2> QED
      BY <1>2, <2>2, ZenonT(60)
  <1> QED
    BY <1>1, <1>2, <1>4, ZenonT(60)

\* thread_create() keeps the invariant.
LEMMA CreateInv ==
  ASSUME ThreadInv, NEW c \in Thread, NEW t \in Thread, NEW p \in CreatePriority,
         thread_create(c, t, p)
  PROVE  ThreadInv' /\ HandsOver
  <1>1. Running(c) /\ pc[c] = "user" /\ state[t] = "FREE"
    BY ZenonT(60) DEF thread_create, Handles, Calls, InUser
  <1>2. /\ state[c] = "RUNNING" /\ current_thread = c /\ irq = "off" /\ c \notin preempted
        /\ critical_section_count = OwedWith(Frames, depth[c], pc[c], FALSE)
        /\ critical_section_count \in Int /\ OtherTypesOK /\ RunTypesOK
        /\ pc \in [Thread -> DOMAIN Frames] /\ p \in Priority
        /\ state \in StateType /\ SchedInv(Frames)
    BY <1>1, CallerRuns, Before, ThreadAssumption, ZenonT(60) DEF ThreadInv
  <1>3. t # c
    BY <1>1, <1>2, ZenonT(60)
  <1>4. /\ state' = [state EXCEPT ![t] = "SUSPENDED"]
        /\ priority' = [priority EXCEPT ![t] = p]
        /\ remaining_quantum' = [remaining_quantum EXCEPT ![t] = 0]
        /\ saved_critical_section_count' = [saved_critical_section_count EXCEPT ![t] = 1]
        /\ blocking_wait_queue' = [blocking_wait_queue EXCEPT ![t] = NULL]
        /\ wait_queue_block_ret' = [wait_queue_block_ret EXCEPT ![t] = "NO_ERROR"]
        /\ wait_list' = [wait_list EXCEPT ![t] = <<>>]
        /\ wait_count' = [wait_count EXCEPT ![t] = 0]
        /\ pc' = [pc EXCEPT ![t] = "start"]
        /\ thread_list' = thread_list \union {t} /\ detached' = detached \ {t}
        /\ owner' = [owner EXCEPT ![t] = c]
        /\ UNCHANGED <<current_thread, run_queue, run_queue_bitmap,
                       critical_section_count, block_timeout, timer, preempted, depth,
                       irq, arg>>
    BY ZenonT(60) DEF thread_create, retcode_wait_queue, timeVars
  <1>5. depth[t] = 0 /\ t \notin preempted /\ pc[t] = "dead" /\ t \notin thread_list
    BY <1>1, ZenonT(60) DEF ThreadInv, ParkedOK, Parked, ListOK
  <1>6. UNCHANGED <<wait_list, wait_count>>
    <2>1. \A u \in Thread : state[u] = "BLOCKED" => arg[u] # t
      BY <1>5, ZenonT(60) DEF ThreadInv, NoJoinerForgotten, ArgOK
    <2>2. wait_list[t] = <<>> /\ wait_count[t] = 0 /\ t \in WaitQueue
      BY <2>1, NoWaiters, ZenonT(60)
    <2>3. wait_list \in [WaitQueue -> Seq(Thread)] /\ wait_count \in [WaitQueue -> Int]
      BY <1>2, ZenonT(60) DEF OtherTypesOK, WaitListType, WaitCountType
    <2> QED
      BY <1>4, <2>2, <2>3, ZenonT(60)
  <1>7. /\ pc' \in [Thread -> DOMAIN Frames] /\ pc'[t] = "start"
        /\ \A u \in Thread : u # t => pc'[u] = pc[u]
    BY <1>2, <1>4, FramesFit, ZenonT(60)
  <1>8. /\ \A u \in Thread : u # t =>
             /\ priority'[u] = priority[u]
             /\ blocking_wait_queue'[u] = blocking_wait_queue[u]
             /\ saved_critical_section_count'[u] = saved_critical_section_count[u]
             /\ wait_queue_block_ret'[u] = wait_queue_block_ret[u]
             /\ state'[u] = state[u]
        /\ saved_critical_section_count'[t] = 1 /\ state'[t] = "SUSPENDED"
        /\ saved_critical_section_count' \in [Thread -> Int]
        /\ remaining_quantum' \in [Thread -> 0 .. QUANTUM]
    <2>1. 0 \in 0 .. QUANTUM /\ 1 \in Int
      BY SchedulerAssumption
    <2> QED
      BY <1>2, <1>4, <2>1, ZenonT(60) DEF OtherTypesOK, RunTypesOK, StateType, BlockingType
  <1>9. OtherTypesOK'
    BY <1>2, <1>4, <1>6, ZenonT(60) DEF OtherTypesOK, BlockingType, Status
  <1>10. /\ saved_critical_section_count'[t] = OwedWith(Frames, depth[t], pc'[t], t \in preempted)
         /\ critical_section_count' = OwedWith(Frames, depth[c], pc'[c], FALSE)
    BY <1>2, <1>3, <1>4, <1>5, <1>7, <1>8, FramesFit DEF OwedWith
  <1>11. Parks(Frames, t, "SUSPENDED")
    BY <1>1, <1>2, <1>3, <1>4, <1>6, <1>7, <1>8, <1>9, <1>10, ZenonT(60) DEF Parks
  <1>12. SchedInv(Frames)' /\ HandsOver
    BY <1>2, <1>11, FramesFit, ParkStep, ZenonT(60)
  <1>13. HandleTypes' /\ owner'[t] = c /\ \A u \in Thread : u # t => owner'[u] = owner[u]
    BY <1>4, ZenonT(60) DEF ThreadInv, HandleTypes
  <1>14. ParkedOK'
    BY <1>4, <1>5, <1>7, <1>8 DEF ThreadInv, ParkedOK, Parked
  <1>15. ListOK'
    BY <1>4, <1>8, ZenonT(60) DEF ThreadInv, ListOK
  <1>16. TimersOK'
    BY <1>4, <1>5, <1>7, ZenonT(60) DEF ThreadInv, TimersOK
  <1>17. ArgOK'
    BY <1>4, <1>7, <1>8 DEF ThreadInv, ArgOK, Busy
  <1>18. OwnerOK'
    BY <1>4, <1>8, <1>13, ZenonT(60) DEF ThreadInv, OwnerOK
  <1>19. NoJoinerForgotten'
    <2>1. BlocksNobody
      BY <1>4, <1>5, <1>7, <1>8, ZenonT(60) DEF BlocksNobody, ThreadInv, ArgOK
    <2>2. KeepsAwaited
      BY <1>4, <1>5, <1>7, <1>8, ZenonT(60) DEF KeepsAwaited, Awaited
    <2> QED
      BY <2>1, <2>2, JoinersKept, ZenonT(60)
  <1>20. OwnJoinFindsDeadThread'
    <2>1. \A u \in Thread : Reaping(u)' => Reaping(u) /\ arg'[u] = arg[u]
      BY <1>1, <1>3, <1>4, <1>7, <1>8, <1>13, ZenonT(60) DEF Reaping
    <2>2. \A u, w \in Thread : owner'[u] = w /\ Reaping(w) => owner[u] = w
      BY <1>1, <1>13, ZenonT(60) DEF Reaping
    <2>3. \A u \in Thread : u \in thread_list /\ state[u] = "DEATH" =>
            owner'[u] = NULL \/ (u \in thread_list' /\ state'[u] = "DEATH")
      BY <1>1, <1>3, <1>4, <1>7, <1>8, <1>13, ZenonT(60)
    <2> QED
      BY <2>1, <2>2, <2>3, OwnJoinKept, ZenonT(60) DEF KeepsReapers
  <1> QED
    BY <1>12, <1>13, <1>14, <1>15, <1>16, <1>17, <1>18, <1>19, <1>20, ZenonT(60) DEF ThreadInv

\* thread_resume(), and thread_detach_and_resume() that goes on into it, keep
\* the invariant.
LEMMA ResumeInv ==
  ASSUME ThreadInv, NEW c \in Thread, NEW t \in Thread, Running(c),
         pc[c] \in {"user", "dar_resume"}, resume(c, t)
  PROVE  /\ ThreadInv' /\ HandsOver
         /\ \A u \in Thread : state[u] = "SUSPENDED" /\ u # t => state'[u] = "SUSPENDED"
  <1> DEFINE st0 == [state EXCEPT ![t] = "READY"]
  <1> DEFINE rq0 == insert_in_run_queue_head(RunQueue, t)
  <1>1. /\ state[c] = "RUNNING" /\ current_thread = c /\ SchedInv(Frames)
        /\ state \in StateType /\ priority \in [Thread -> Priority]
        /\ RunQueue \in RunQueueType /\ RunQueueOK(state, priority, RunQueue)
        /\ pc \in [Thread -> DOMAIN Frames]
    BY CallerRuns, Before, ZenonT(60) DEF ThreadInv
  <1>2. state[t] = "SUSPENDED" /\ yield(st0, rq0, critical_section_count + 2)
    BY ZenonT(60) DEF resume
  <1>3. /\ pc' = [pc EXCEPT ![c] = "resume"] /\ arg' = [arg EXCEPT ![c] = NULL]
        /\ owner' = IF t \in detached THEN [owner EXCEPT ![t] = NULL] ELSE owner
        /\ UNCHANGED <<waitVars, timeVars, ctlVars>>
        /\ UNCHANGED <<thread_list, detached>>
    BY ZenonT(60) DEF resume, goto
  <1>4. Yields(Frames, c, "resume", 2, st0, rq0)
    <2>1. rq0 \in RunQueueType /\ RunQueueOK(st0, priority, rq0)
      BY <1>1, <1>2, InsertHead, ZenonT(60)
    <2>2. /\ st0 \in StateType /\ st0[c] = "RUNNING"
          /\ \A u \in Thread : \/ st0[u] = state[u]
                               \/ st0[u] = "READY" /\ state[u] = "SUSPENDED"
      <3>1. state \in StateType /\ state[c] = "RUNNING" /\ state[t] = "SUSPENDED"
        BY <1>1, <1>2, ZenonT(60)
      <3>2. state \in [Thread -> ThreadState] /\ "READY" \in ThreadState /\ c # t
        BY <3>1, ZenonT(60) DEF StateType, ThreadState
      <3>3. st0[t] = "READY" /\ \A u \in Thread : u # t => st0[u] = state[u]
        BY <3>2, ZenonT(60)
      <3>4. st0 \in StateType
        BY <3>2, ZenonT(60) DEF StateType
      <3> QED
        BY <3>1, <3>2, <3>3, <3>4, ZenonT(60)
    <2>3. /\ "resume" \in DOMAIN Frames \ {"exit_wake", "wake_all"}
          /\ pc[c] \notin {"exit_wake", "wake_all"} /\ 2 \in Int
          /\ Frames["resume"] = Frames[pc[c]] + 2
      BY FramesFit
    <2> HIDE DEF st0, rq0
    <2> QED
      BY <1>2, <1>3, <2>1, <2>2, <2>3, ZenonT(60) DEF Yields
  <1>5. SchedInv(Frames)' /\ HandsOver /\ After(st0)
    <2> HIDE DEF st0, rq0
    <2> QED
      BY <1>1, <1>4, FramesFit, YieldFrom, ZenonT(60)
  <1>6. /\ \A u \in Thread : \A x \in {"FREE", "DEATH", "BLOCKED"} :
             state'[u] = x <=> state[u] = x
        /\ \A u \in Thread : state'[u] = "SUSPENDED" <=> state[u] = "SUSPENDED" /\ u # t
    BY <1>1, <1>2, <1>5, ZenonT(60) DEF After, Alive, StateType
  <1>7. /\ pc'[c] = "resume" /\ \A u \in Thread : u # c => pc'[u] = pc[u]
        /\ UNCHANGED <<thread_list, detached, wait_queue_block_ret, blocking_wait_queue,
                       block_timeout, timer, preempted, depth>>
    BY <1>1, <1>3, ZenonT(60) DEF waitVars, timeVars, ctlVars
  <1>8. /\ arg'[c] = NULL /\ \A u \in Thread : u # c => arg'[u] = arg[u]
        /\ t \in detached => owner'[t] = NULL
        /\ \A u \in Thread : owner'[u] = owner[u] \/ owner'[u] = NULL
        /\ HandleTypes'
    BY <1>3, <1>7, ZenonT(60) DEF ThreadInv, HandleTypes
  <1>9. ParkedOK'
    BY <1>1, <1>6, <1>7, ZenonT(60) DEF ThreadInv, ParkedOK, Parked
  <1>10. ListOK'
    BY <1>6, <1>7, ZenonT(60) DEF ThreadInv, ListOK
  <1>11. TimersOK'
    BY <1>7, ZenonT(60) DEF ThreadInv, TimersOK
  <1>12. ArgOK'
    BY <1>1, <1>6, <1>7, <1>8 DEF ThreadInv, ArgOK, Busy
  <1>13. OwnerOK'
    BY <1>6, <1>7, <1>8, ZenonT(60) DEF ThreadInv, OwnerOK
  <1>14. NoJoinerForgotten'
    BY <1>1, <1>6, <1>7, <1>8 DEF ThreadInv, NoJoinerForgotten, ArgOK, Busy
  <1>15. OwnJoinFindsDeadThread'
    BY <1>1, <1>6, <1>7, <1>8, ThreadAssumption
       DEF ThreadInv, OwnJoinFindsDeadThread, Reaping, FindsDeadThread, ArgOK, Busy
  <1> QED
    BY <1>5, <1>6, <1>8, <1>9, <1>10, <1>11, <1>12, <1>13, <1>14, <1>15, ZenonT(60)
       DEF ThreadInv

\* thread_resume() returns.
LEMMA ResumeReturnInv ==
  ASSUME ThreadInv, NEW c \in Thread, thread_resume_return(c)
  PROVE  ThreadInv' /\ HandsOver
  <1>1. /\ Running(c) /\ pc[c] = "resume" /\ leave(c, Frames[pc[c]])
        /\ pc' = [pc EXCEPT ![c] = "user"]
        /\ UNCHANGED <<waitVars, timeVars, ctlVars>> /\ UNCHANGED threadVars
    BY FramesFit, ZenonT(60) DEF thread_resume_return, leave, goto
  <1>2. state[c] = "RUNNING" /\ SchedInv(Frames) /\ OtherTypesOK
    BY <1>1, CallerRuns, ZenonT(60) DEF ThreadInv
  <1>3. /\ OtherTypesOK' /\ timer' = timer
        /\ UNCHANGED <<ctlVars, wait_list, wait_count, blocking_wait_queue>>
        /\ UNCHANGED <<wait_queue_block_ret, blocking_wait_queue, block_timeout, preempted,
                       depth>>
    BY <1>1, <1>2, ZenonT(60) DEF OtherTypesOK, waitVars, timeVars, ctlVars
  <1>4. SchedInv(Frames)' /\ HandsOver /\ After(state)
    BY <1>1, <1>2, <1>3, FramesFit, LeaveStep, ZenonT(60)
  <1>5. ThreadInv'
    BY <1>1, <1>2, <1>3, <1>4, QuietCall, ZenonT(60) DEF Plain
  <1> QED
    BY <1>4, <1>5, ZenonT(60)

-----------------------------------------------------------------------------
(* Threads are detached                                                    *)

\* The caller goes on at label with n more critical sections, nothing else of
\* the scheduler changes.
LEMMA CallerStays ==
  ASSUME ThreadInv, NEW c \in Thread, Running(c), pc[c] # "exit_wake",
         NEW label \in DOMAIN Frames \ {"exit_wake"}, NEW n \in Int,
         Frames[label] = Frames[pc[c]] + n, goto(c, label),
         critical_section_count' = critical_section_count + n,
         UNCHANGED <<current_thread, state, remaining_quantum, run_queue,
                     run_queue_bitmap, saved_critical_section_count>>,
         UNCHANGED <<waitVars, timeVars, ctlVars>>
  PROVE  /\ SchedInv(Frames)' /\ HandsOver
         /\ pc'[c] = label /\ \A u \in Thread : u # c => pc'[u] = pc[u]
         /\ UNCHANGED <<wait_queue_block_ret, blocking_wait_queue, block_timeout, timer,
                        preempted, depth>>
  <1>1. /\ state[c] = "RUNNING" /\ current_thread = c /\ irq = "off" /\ c \notin preempted
        /\ critical_section_count = OwedWith(Frames, depth[c], pc[c], FALSE)
        /\ critical_section_count \in Int /\ depth[c] \in Nat
        /\ OtherTypesOK /\ SchedInv(Frames) /\ pc \in [Thread -> DOMAIN Frames]
        /\ remaining_quantum \in [Thread -> 0 .. QUANTUM]
    BY CallerRuns, Before, ZenonT(60) DEF ThreadInv
  <1>2. /\ UNCHANGED <<wait_list, wait_count, blocking_wait_queue, wait_queue_block_ret,
                       block_timeout, timer, priority, preempted, depth, irq>>
        /\ OtherTypesOK'
    BY <1>1, ZenonT(60) DEF OtherTypesOK, waitVars, timeVars, ctlVars
  <1>3. /\ pc' \in [Thread -> DOMAIN Frames] /\ pc'[c] = label
        /\ \A u \in Thread : u # c => pc'[u] = pc[u]
    BY <1>1, ZenonT(60) DEF goto
  <1>4. label # "wake_all" /\ Frames[pc[c]] \in Int /\ Frames[label] \in Int
    BY <1>1, FramesFit DEF FramesOK
  <1>5. /\ critical_section_count' \in Int
        /\ critical_section_count' =
             OwedWith(Frames, depth'[c], pc'[c], c \in preempted') + 0
    <2>1. c \notin preempted' /\ depth'[c] = depth[c]
      BY <1>1, <1>2, ZenonT(60)
    <2> QED
      BY <1>1, <1>3, <1>4, <2>1 DEF OwedWith
  <1>6. Stays(Frames)
    BY <1>1, <1>2, <1>3, <1>4, <1>5, ZenonT(60) DEF Stays
  <1>7. SchedInv(Frames)' /\ HandsOver
    BY <1>1, <1>6, FramesFit, Stay, ZenonT(60)
  <1> QED
    BY <1>2, <1>3, <1>7, ZenonT(60)

\* thread_detach() begins.
LEMMA DetachInv ==
  ASSUME ThreadInv, NEW c \in Thread, NEW t \in Thread,
         NEW label \in {"detach_wake", "dar_wake"}, thread_detach(c, t, label)
  PROVE  ThreadInv' /\ HandsOver
  <1>1. Running(c) /\ pc[c] = "user"
    BY ZenonT(60) DEF thread_detach, Handles, Calls, InUser
  <1>2. /\ critical_section_count' = critical_section_count + 1
        /\ arg' = [arg EXCEPT ![c] = t] /\ goto(c, label)
        /\ UNCHANGED <<current_thread, state, remaining_quantum, run_queue,
                       run_queue_bitmap, saved_critical_section_count>>
        /\ UNCHANGED <<waitVars, timeVars, ctlVars>>
        /\ UNCHANGED <<thread_list, detached, owner>>
    BY ZenonT(60) DEF thread_detach
  <1>3. /\ label \in DOMAIN Frames \ {"exit_wake"} /\ 1 \in Int
        /\ Frames[label] = Frames[pc[c]] + 1
    BY <1>1, FramesFit
  <1>4. /\ SchedInv(Frames)' /\ HandsOver
        /\ pc'[c] = label /\ \A u \in Thread : u # c => pc'[u] = pc[u]
        /\ UNCHANGED <<wait_queue_block_ret, blocking_wait_queue, block_timeout, timer,
                       preempted, depth>>
    BY <1>1, <1>2, <1>3, CallerStays, ZenonT(60)
  <1>5. /\ HandleTypes' /\ arg'[c] = t /\ \A u \in Thread : u # c => arg'[u] = arg[u]
        /\ state' = state /\ state[c] = "RUNNING"
    BY <1>1, <1>2, CallerRuns, ZenonT(60) DEF ThreadInv, HandleTypes
  <1>6. ParkedOK'
    BY <1>4, <1>5, ZenonT(60) DEF ThreadInv, ParkedOK, Parked
  <1>7. ListOK' /\ OwnerOK'
    BY <1>2, <1>5, ZenonT(60) DEF ThreadInv, ListOK, OwnerOK
  <1>8. TimersOK'
    BY <1>1, <1>4, ZenonT(60) DEF ThreadInv, TimersOK
  <1>9. ArgOK'
    BY <1>4, <1>5, ZenonT(60) DEF ThreadInv, ArgOK, Busy
  <1>10. NoJoinerForgotten'
    <2>1. BlocksNobody
      BY <1>1, <1>2, <1>4, <1>5, ZenonT(60) DEF BlocksNobody, ThreadInv, ArgOK
    <2>2. KeepsAwaited
      BY <1>1, <1>2, <1>4, <1>5, ZenonT(60) DEF KeepsAwaited, Awaited
    <2> QED
      BY <2>1, <2>2, JoinersKept, ZenonT(60)
  <1>11. OwnJoinFindsDeadThread'
    <2>1. \A u \in Thread : Reaping(u)' => Reaping(u) /\ arg'[u] = arg[u]
      BY <1>1, <1>2, <1>4, <1>5, ZenonT(60) DEF Reaping
    <2>2. \A u, w \in Thread : owner'[u] = w /\ Reaping(w) => owner[u] = w
      BY <1>1, <1>2, <1>4, <1>5, ThreadAssumption, ZenonT(60) DEF Reaping
    <2>3. \A u \in Thread : u \in thread_list /\ state[u] = "DEATH" =>
            owner'[u] = NULL \/ (u \in thread_list' /\ state'[u] = "DEATH")
      BY <1>1, <1>2, <1>4, <1>5, ZenonT(60)
    <2> QED
      BY <2>1, <2>2, <2>3, OwnJoinKept, ZenonT(60) DEF KeepsReapers
  <1> QED
    BY <1>4, <1>5, <1>6, <1>7, <1>8, <1>9, <1>10, <1>11, ZenonT(60) DEF ThreadInv

\* A caller wakes the first thread that waits for t.
LEMMA WakeInv ==
  ASSUME ThreadInv, NEW t \in Thread, NEW err \in Status, wait_list[t] # <<>>,
         wake_head(t, err),
         UNCHANGED <<current_thread, remaining_quantum, critical_section_count,
                     saved_critical_section_count>>,
         UNCHANGED <<timeVars, ctlVars, pc>>, UNCHANGED threadVars,
         err = "NO_ERROR" => t \in thread_list /\ state[t] = "DEATH"
  PROVE  ThreadInv' /\ HandsOver /\ KeepsSuspended
  <1> DEFINE h == Head(wait_list[t])
  <1>1. /\ t \in WaitQueue /\ SchedInv(Frames) /\ state \in StateType
        /\ WaitQueueOK(state, blocking_wait_queue, wait_list, wait_count)
        /\ wait_list \in WaitListType /\ wait_count \in WaitCountType
        /\ blocking_wait_queue \in BlockingType
    BY Before, ThreadAssumption, ZenonT(60) DEF ThreadInv
  <1>2. h \in Thread /\ state[h] = "BLOCKED" /\ blocking_wait_queue[h] = t
    BY <1>1, WaitHead
  <1>3. UNCHANGED <<current_thread, remaining_quantum, critical_section_count,
                    saved_critical_section_count, timeVars, ctlVars, pc>>
    BY ZenonT(60)
  <1>4. SchedInv(Frames)' /\ HandsOver /\ After([state EXCEPT ![h] = "READY"])
    BY <1>1, <1>3, FramesFit, WakeHeadStep, ZenonT(60)
  <1>5. /\ wait_queue_block_ret' = [wait_queue_block_ret EXCEPT ![h] = err]
        /\ blocking_wait_queue' = [blocking_wait_queue EXCEPT ![h] = NULL]
    BY ZenonT(60) DEF wake_head, dequeue
  <1>6. \A u \in Thread : u # h => blocking_wait_queue'[u] = blocking_wait_queue[u]
    BY <1>1, <1>5, ZenonT(60) DEF BlockingType
  <1>7. UNCHANGED <<block_timeout, timer, pc, depth, preempted>>
    BY ZenonT(60) DEF timeVars, ctlVars
  <1>8. err = "NO_ERROR" => FindsDeadThread(h)
    BY <1>2, ZenonT(60) DEF FindsDeadThread, ThreadInv, ArgOK
  <1>9. Woken(h, err)
    <2> HIDE DEF h
    <2> QED
      BY <1>2, <1>4, <1>5, <1>6, <1>7, <1>8, ZenonT(60) DEF Woken
  <1> HIDE DEF h
  <1>10. KeepsSuspended
    BY <1>1, <1>2, <1>4, ZenonT(60) DEF KeepsSuspended, After, Alive, StateType
  <1> QED
    BY <1>2, <1>4, <1>9, <1>10, WokenInv, ZenonT(60)

\* One turn of the loop that wakes the joiners of a thread that is detached.
LEMMA DetachWakeInv ==
  ASSUME ThreadInv, NEW c \in Thread, thread_detach_wake(c)
  PROVE  ThreadInv' /\ HandsOver /\ KeepsSuspended
  <1>1. /\ pc[c] \in {"detach_wake", "dar_wake"} /\ wait_list[arg[c]] # <<>>
        /\ wake_head(arg[c], "ERR_THREAD_DETACHED")
        /\ UNCHANGED <<current_thread, remaining_quantum, critical_section_count,
                       saved_critical_section_count>>
        /\ UNCHANGED <<timeVars, ctlVars, pc>> /\ UNCHANGED threadVars
    BY ZenonT(60) DEF thread_detach_wake, retcode_wait_queue
  <1>2. arg[c] \in Thread
    BY <1>1, ZenonT(60) DEF ThreadInv, ArgOK, Busy
  <1>3. "ERR_THREAD_DETACHED" \in Status /\ "ERR_THREAD_DETACHED" # "NO_ERROR"
    BY ZenonT(60) DEF Status
  <1> QED
    BY <1>1, <1>2, <1>3, WakeInv, ZenonT(60)

\* The same for a thread that exits: it is dead already.
LEMMA ExitWakeInv ==
  ASSUME ThreadInv, NEW c \in Thread, thread_exit_wake(c)
  PROVE  ThreadInv' /\ HandsOver /\ KeepsSuspended
  <1>1. /\ Running(c) /\ pc[c] = "exit_wake" /\ wait_list[c] # <<>>
        /\ wake_head(c, "NO_ERROR")
        /\ UNCHANGED <<current_thread, remaining_quantum, critical_section_count,
                       saved_critical_section_count>>
        /\ UNCHANGED <<timeVars, ctlVars, pc>> /\ UNCHANGED threadVars
    BY ZenonT(60) DEF thread_exit_wake, retcode_wait_queue
  <1>2. state[c] = "DEATH"
    BY <1>1, ZenonT(60) DEF ThreadInv, SchedInv, CurrentRuns, Running
  <1>3. c \in thread_list
    BY <1>2, ZenonT(60) DEF ThreadInv, ListOK
  <1>4. "NO_ERROR" \in Status
    BY ZenonT(60) DEF Status
  <1> QED
    BY <1>1, <1>2, <1>3, <1>4, WakeInv, ZenonT(60)

\* A thread with an empty wait queue has nobody blocked in thread_join().
LEMMA NobodyWaits ==
  ASSUME ThreadInv, NEW t \in Thread, wait_list[t] = <<>>
  PROVE  \A u \in Thread : state[u] = "BLOCKED" => arg[u] # t
  <1>1. /\ t \in WaitQueue
        /\ WaitQueueOK(state, blocking_wait_queue, wait_list, wait_count)
    BY Before, ThreadAssumption, ZenonT(60) DEF ThreadInv
  <1>2. Range(wait_list[t]) = {}
    BY DEF Range
  <1>3. {u \in Thread : state[u] = "BLOCKED" /\ blocking_wait_queue[u] = t} = {}
    BY <1>1, <1>2, ZenonT(60) DEF WaitQueueOK
  <1> QED
    BY <1>3, ZenonT(60) DEF ThreadInv, ArgOK

\* The loop ends: a live thread is marked detached.
LEMMA DetachFinishInv ==
  ASSUME ThreadInv, NEW c \in Thread, thread_detach_finish(c)
  PROVE  ThreadInv' /\ HandsOver
  <1> DEFINE t == arg[c]
  <1>1. Running(c) /\ pc[c] \in {"detach_wake", "dar_wake"} /\ wait_list[t] = <<>>
    BY ZenonT(60) DEF thread_detach_finish, woken_all, retcode_wait_queue
  <1>2. t \in Thread /\ state[c] = "RUNNING"
    BY <1>1, CallerRuns, ZenonT(60) DEF ThreadInv, ArgOK, Busy
  <1>3. /\ critical_section_count' = critical_section_count - 1
        /\ \/ /\ state[t] = "DEATH" /\ detached' = detached \ {t}
              /\ goto(c, "detach_join") /\ owner' = owner
           \/ /\ state[t] # "DEATH" /\ detached' = detached \union {t}
              /\ goto(c, IF pc[c] = "dar_wake" THEN "dar_resume" ELSE "user")
              /\ owner' = IF state[t] = "SUSPENDED" THEN owner
                          ELSE [owner EXCEPT ![t] = NULL]
        /\ arg' = IF pc'[c] = "user" THEN [arg EXCEPT ![c] = NULL] ELSE arg
        /\ UNCHANGED <<current_thread, state, remaining_quantum, run_queue,
                       run_queue_bitmap, saved_critical_section_count>>
        /\ UNCHANGED <<waitVars, timeVars, ctlVars>> /\ thread_list' = thread_list
    BY ZenonT(60) DEF thread_detach_finish
  <1>4. PICK label \in {"detach_join", "dar_resume", "user"} :
          goto(c, label) /\ (label = "detach_join" <=> state[t] = "DEATH")
    BY <1>3, ZenonT(60)
  <1>5. /\ label \in DOMAIN Frames \ {"exit_wake"} /\ -1 \in Int
        /\ Frames[label] = Frames[pc[c]] + (-1)
        /\ critical_section_count' = critical_section_count + (-1)
    <2>1. Frames[label] = Frames[pc[c]] + (-1) /\ label \in DOMAIN Frames \ {"exit_wake"}
      BY <1>1, FramesFit
    <2>2. critical_section_count \in Int
      BY Before, ZenonT(60) DEF ThreadInv
    <2> QED
      BY <2>1, <2>2, <1>3
  <1>6. /\ SchedInv(Frames)' /\ HandsOver
        /\ pc'[c] = label /\ \A u \in Thread : u # c => pc'[u] = pc[u]
        /\ UNCHANGED <<wait_queue_block_ret, blocking_wait_queue, block_timeout, timer,
                       preempted, depth>>
    BY <1>1, <1>3, <1>4, <1>5, CallerStays, ZenonT(60)
  <1>7. /\ \A u \in Thread : u # c => arg'[u] = arg[u]
        /\ label # "user" => arg'[c] = t
        /\ \A u \in Thread : owner'[u] = owner[u] \/ owner'[u] = NULL
        /\ state[t] \notin {"DEATH", "SUSPENDED"} => owner'[t] = NULL
        /\ detached' \subseteq detached \union {t}
        /\ state[t] = "DEATH" => detached' \subseteq detached
        /\ HandleTypes' /\ state' = state
    <2>1. HandleTypes /\ HandleTypes'
      BY <1>2, <1>3, ZenonT(60) DEF ThreadInv, HandleTypes
    <2> QED
      BY <2>1, <1>2, <1>3, <1>6, ZenonT(60) DEF HandleTypes
  <1>8. \A u \in Thread : state[u] = "BLOCKED" => arg[u] # t
    BY <1>1, <1>2, NobodyWaits, ZenonT(60)
  <1> HIDE DEF t
  <1>9. ParkedOK'
    BY <1>2, <1>6, <1>7, ZenonT(60) DEF ThreadInv, ParkedOK, Parked
  <1>10. ListOK'
    BY <1>3, <1>7, ZenonT(60) DEF ThreadInv, ListOK
  <1>11. OwnerOK'
    <2>1. \A u \in Thread : owner'[u] # NULL => u \in thread_list'
      BY <1>3, <1>7, ZenonT(60) DEF ThreadInv, OwnerOK
    <2>2. ASSUME NEW u \in Thread, u \in detached', state[u] # "SUSPENDED"
          PROVE  owner'[u] = NULL
      <3>1. CASE u \in detached
        BY <2>2, <3>1, <1>7, ZenonT(60) DEF ThreadInv, OwnerOK
      <3>2. CASE u \notin detached
        BY <2>2, <3>2, <1>7, ZenonT(60)
      <3> QED
        BY <3>1, <3>2, ZenonT(60)
    <2> QED
      BY <2>1, <2>2, <1>7, ZenonT(60) DEF OwnerOK
  <1>12. TimersOK'
    BY <1>1, <1>6, ZenonT(60) DEF ThreadInv, TimersOK
  <1>13. ArgOK'
    BY <1>2, <1>6, <1>7, ZenonT(60) DEF ThreadInv, ArgOK, Busy
  <1>14. NoJoinerForgotten'
    <2>1. BlocksNobody
      BY <1>1, <1>2, <1>3, <1>6, <1>7, <1>8, ZenonT(60) DEF BlocksNobody, ThreadInv, ArgOK
    <2>2. KeepsAwaited
      BY <1>1, <1>2, <1>3, <1>6, <1>7, <1>8, ZenonT(60) DEF KeepsAwaited, Awaited
    <2> QED
      BY <2>1, <2>2, JoinersKept, ZenonT(60)
  <1>15. OwnJoinFindsDeadThread'
    <2> SUFFICES ASSUME NEW d \in Thread, Reaping(d)', owner'[arg'[d]] = d
                 PROVE  FindsDeadThread(d)'
      BY ZenonT(60) DEF OwnJoinFindsDeadThread
    <2>1. CASE d = c
      <3>1. state[t] = "DEATH" /\ arg'[c] = t
        BY <2>1, <1>4, <1>6, <1>7, ZenonT(60) DEF Reaping
      <3>2. t \in thread_list
        BY <3>1, <1>2, ZenonT(60) DEF ThreadInv, ListOK
      <3> QED
        BY <2>1, <3>1, <3>2, <1>3, <1>7 DEF FindsDeadThread
    <2>2. CASE d # c
      <3>1. Reaping(d) /\ arg[d] \in Thread /\ arg'[d] = arg[d]
        BY <2>2, <1>6, <1>7, ZenonT(60) DEF Reaping, ThreadInv, ArgOK, Busy
      <3>2. owner[arg[d]] = d
        BY <3>1, <1>7, ThreadAssumption, ZenonT(60)
      <3>3. FindsDeadThread(d)
        BY <3>1, <3>2, ZenonT(60) DEF ThreadInv, OwnJoinFindsDeadThread
      <3>4. thread_list' = thread_list /\ state' = state
        BY <1>3, <1>7, ZenonT(60)
      <3> QED
        BY <3>1, <3>3, <3>4, ZenonT(60) DEF FindsDeadThread
    <2> QED
      BY <2>1, <2>2, ZenonT(60)
  <1> QED
    BY <1>6, <1>7, <1>9, <1>10, <1>11, <1>12, <1>13, <1>14, <1>15, ZenonT(60) DEF ThreadInv

-----------------------------------------------------------------------------
(* Threads are joined                                                      *)

\* What the end of a call of c in thread_join() does to the scheduler's
\* variables, the freed thread's state left out.
Leaves(c) ==
  /\ Running(c) /\ pc[c] \in {"user", "detach_join", "join"}
  /\ critical_section_count' = critical_section_count - Frames[pc[c]]
  /\ pc' = [pc EXCEPT ![c] = "user"]
  /\ arg' = [arg EXCEPT ![c] = NULL]
  /\ UNCHANGED <<current_thread, remaining_quantum, run_queue, run_queue_bitmap,
                 saved_critical_section_count>>
  /\ UNCHANGED <<wait_list, wait_count, blocking_wait_queue, wait_queue_block_ret>>
  /\ UNCHANGED ctlVars
  /\ OtherTypesOK'
  /\ timer'[c] # "timeout" /\ (timer'[c] = "sleep" <=> timer[c] = "sleep")
  /\ \A u \in Thread : u # c => timer'[u] = timer[u] /\ block_timeout'[u] = block_timeout[u]

\* The caller frees the dead thread t.
LEMMA ReapInv ==
  ASSUME ThreadInv, NEW c \in Thread, NEW t \in Thread, Leaves(c), state[t] = "DEATH", reap(t)
  PROVE  ThreadInv' /\ HandsOver
  <1>1. /\ Running(c) /\ pc[c] \in {"user", "detach_join", "join"}
        /\ critical_section_count' = critical_section_count - Frames[pc[c]]
        /\ pc' = [pc EXCEPT ![c] = "user"] /\ arg' = [arg EXCEPT ![c] = NULL]
        /\ UNCHANGED <<current_thread, remaining_quantum, run_queue, run_queue_bitmap,
                       saved_critical_section_count, wait_list, wait_count,
                       blocking_wait_queue, wait_queue_block_ret, priority, preempted,
                       depth, irq>>
        /\ OtherTypesOK'
    BY ZenonT(60) DEF Leaves, ctlVars
  <1>2. /\ timer'[c] # "timeout"
        /\ \A u \in Thread : timer'[u] = "sleep" <=> timer[u] = "sleep"
        /\ \A u \in Thread : u # c =>
             timer'[u] = timer[u] /\ block_timeout'[u] = block_timeout[u]
    BY ZenonT(60) DEF Leaves
  <1>3. /\ state' = [state EXCEPT ![t] = "FREE"] /\ thread_list' = thread_list \ {t}
        /\ owner' = [owner EXCEPT ![t] = NULL] /\ detached' = detached
    BY ZenonT(60) DEF reap
  <1>4. /\ state[c] = "RUNNING" /\ current_thread = c /\ SchedInv(Frames)
        /\ critical_section_count = OwedWith(Frames, depth[c], pc[c], FALSE)
        /\ critical_section_count \in Int /\ depth[c] \in Nat /\ c # t
        /\ pc \in [Thread -> DOMAIN Frames] /\ state \in StateType
        /\ remaining_quantum \in [Thread -> 0 .. QUANTUM]
        /\ saved_critical_section_count \in [Thread -> Int]
    BY <1>1, CallerRuns, Before, ZenonT(60) DEF ThreadInv, RunTypesOK
  <1>5. pc[t] = "dead"
    BY <1>4, ZenonT(60) DEF ThreadInv, SchedInv, CurrentRuns, ParkedOK
  <1>6. /\ pc' \in [Thread -> DOMAIN Frames] /\ pc'[c] = "user"
        /\ \A u \in Thread : u # c => pc'[u] = pc[u]
        /\ state'[t] = "FREE" /\ \A u \in Thread : u # t => state'[u] = state[u]
    BY <1>1, <1>3, <1>4, FramesFit, ZenonT(60) DEF StateType
  <1>7. /\ critical_section_count' \in Int
        /\ critical_section_count' = OwedWith(Frames, depth[c], pc'[c], FALSE)
    <2>1. Frames[pc[c]] \in Int /\ Frames["user"] = 0
      BY <1>1, FramesFit
    <2> QED
      BY <1>1, <1>4, <1>6, <2>1 DEF OwedWith
  <1>8. Parks(Frames, t, "FREE")
    BY <1>1, <1>2, <1>3, <1>4, <1>5, <1>6, <1>7, ZenonT(60) DEF Parks
  <1>9. SchedInv(Frames)' /\ HandsOver
    BY <1>4, <1>8, FramesFit, ParkStep, ZenonT(60)
  <1>10. /\ HandleTypes' /\ owner'[t] = NULL
         /\ \A u \in Thread : u # t => owner'[u] = owner[u]
         /\ \A u \in Thread : u # c => arg'[u] = arg[u]
    BY <1>1, <1>3, ZenonT(60) DEF ThreadInv, HandleTypes
  <1>11. \A u \in Thread : state[u] = "BLOCKED" => u # c /\ arg[u] # t
    BY <1>4, <1>5, ZenonT(60) DEF ThreadInv, NoJoinerForgotten, ArgOK
  <1>12. ParkedOK'
    BY <1>1, <1>4, <1>5, <1>6, ZenonT(60) DEF ThreadInv, ParkedOK, Parked
  <1>13. ListOK'
    BY <1>3, <1>6, ZenonT(60) DEF ThreadInv, ListOK
  <1>14. OwnerOK'
    BY <1>3, <1>6, <1>10, ZenonT(60) DEF ThreadInv, OwnerOK
  <1>15. TimersOK'
    <2>1. \A u \in Thread : timer[u] = "sleep" => u # c
      BY <1>4, ZenonT(60) DEF ThreadInv, SchedInv, SleepTimers
    <2> QED
      BY <1>2, <1>6, <2>1, ZenonT(60) DEF ThreadInv, TimersOK
  <1>16. ArgOK'
    BY <1>1, <1>6, <1>10, <1>11, ZenonT(60) DEF ThreadInv, ArgOK, Busy
  <1>17. NoJoinerForgotten'
    <2>1. BlocksNobody
      BY <1>4, <1>6, <1>10, <1>11, ZenonT(60) DEF BlocksNobody
    <2>2. KeepsAwaited
      BY <1>1, <1>3, <1>4, <1>5, <1>6, <1>10, <1>11, ZenonT(60) DEF KeepsAwaited, Awaited
    <2> QED
      BY <2>1, <2>2, JoinersKept, ZenonT(60)
  <1>18. OwnJoinFindsDeadThread'
    <2>1. \A u \in Thread : Reaping(u)' => Reaping(u) /\ arg'[u] = arg[u]
      BY <1>1, <1>3, <1>6, <1>10, ZenonT(60) DEF Reaping
    <2>2. \A u, w \in Thread : owner'[u] = w /\ Reaping(w) => owner[u] = w
      BY <1>1, <1>3, <1>6, <1>10, ThreadAssumption, ZenonT(60) DEF Reaping
    <2>3. \A u \in Thread : u \in thread_list /\ state[u] = "DEATH" =>
            owner'[u] = NULL \/ (u \in thread_list' /\ state'[u] = "DEATH")
      BY <1>1, <1>3, <1>6, <1>10, ZenonT(60)
    <2> QED
      BY <2>1, <2>2, <2>3, OwnJoinKept, ZenonT(60) DEF KeepsReapers
  <1> QED
    BY <1>9, <1>10, <1>12, <1>13, <1>14, <1>15, <1>16, <1>17, <1>18, ZenonT(60)
       DEF ThreadInv

\* thread_join() of a dead thread.
LEMMA JoinDeadInv ==
  ASSUME ThreadInv, NEW c \in Thread, thread_join_dead(c)
  PROVE  ThreadInv' /\ HandsOver
  <1>1. PICK t \in Thread :
          /\ Running(c) /\ pc[c] \in {"user", "detach_join"}
          /\ state[t] = "DEATH" /\ reap(t) /\ goto(c, "user")
          /\ arg' = [arg EXCEPT ![c] = NULL]
          /\ UNCHANGED <<current_thread, remaining_quantum, run_queue,
                         run_queue_bitmap, critical_section_count,
                         saved_critical_section_count>>
          /\ UNCHANGED <<waitVars, timeVars, ctlVars>>
    BY ZenonT(60) DEF thread_join_dead, Calls, InUser
  <1>2. OtherTypesOK /\ critical_section_count \in Int
    BY Before, ZenonT(60) DEF ThreadInv
  <1>3. critical_section_count' = critical_section_count - Frames[pc[c]]
    BY <1>1, <1>2, FramesFit
  <1>4. /\ UNCHANGED <<wait_list, wait_count, blocking_wait_queue, wait_queue_block_ret>>
        /\ UNCHANGED <<timer, block_timeout>> /\ UNCHANGED ctlVars
        /\ OtherTypesOK'
    BY <1>1, <1>2, ZenonT(60) DEF waitVars, timeVars, ctlVars, OtherTypesOK
  <1>5. timer[c] # "timeout"
    BY <1>1, ZenonT(60) DEF ThreadInv, TimersOK
  <1>6. Leaves(c)
    BY <1>1, <1>3, <1>4, <1>5, ZenonT(60) DEF Leaves, goto
  <1> QED
    BY <1>1, <1>6, ReapInv, ZenonT(60)

\* thread_join() blocks.
LEMMA JoinInv ==
  ASSUME ThreadInv, NEW c \in Thread, NEW t \in Thread,
         NEW timeout \in {"FINITE", "INFINITE"}, thread_join(c, t, timeout)
  PROVE  ThreadInv' /\ HandsOver /\ KeepsSuspended
  <1>1. /\ Calls(c) /\ owner[t] = c /\ t \notin detached /\ state[t] # "DEATH"
        /\ wait_queue_block(t, timeout, critical_section_count + 1)
        /\ arg' = [arg EXCEPT ![c] = t] /\ goto(c, "join")
        /\ UNCHANGED ctlVars /\ UNCHANGED <<thread_list, detached, owner>>
    BY ZenonT(60) DEF thread_join, retcode_wait_queue
  <1>2. Running(c) /\ pc[c] = "user"
    BY <1>1, ZenonT(60) DEF Calls, InUser
  <1>3. /\ state[c] = "RUNNING" /\ current_thread = c /\ SchedInv(Frames) /\ t \in WaitQueue
        /\ state \in StateType /\ pc \in [Thread -> DOMAIN Frames] /\ OtherTypesOK
    BY <1>2, CallerRuns, Before, ThreadAssumption, ZenonT(60) DEF ThreadInv
  <1>4. /\ timeout \in Timeout /\ Frames["join"] = 2
        /\ "join" \in DOMAIN Frames \ {"exit_wake", "wake_all"}
    BY FramesFit, ZenonT(60) DEF Timeout
  <1>5. SchedInv(Frames)' /\ HandsOver /\ After([state EXCEPT ![c] = "BLOCKED"])
    BY <1>1, <1>3, <1>4, FramesFit, BlockStep, ZenonT(60)
  <1>6. /\ blocking_wait_queue' = [blocking_wait_queue EXCEPT ![c] = t]
        /\ wait_queue_block_ret' = [wait_queue_block_ret EXCEPT ![c] = "NO_ERROR"]
        /\ block_timeout' = [block_timeout EXCEPT ![c] = timeout]
        /\ timer' = IF timeout # "INFINITE" THEN [timer EXCEPT ![c] = "timeout"] ELSE timer
    BY <1>1, <1>3, ZenonT(60) DEF wait_queue_block
  <1>7. /\ blocking_wait_queue'[c] = t /\ block_timeout'[c] = timeout
        /\ timer'[c] = IF timeout # "INFINITE" THEN "timeout" ELSE timer[c]
        /\ \A u \in Thread : u # c =>
             /\ blocking_wait_queue'[u] = blocking_wait_queue[u]
             /\ wait_queue_block_ret'[u] = wait_queue_block_ret[u]
             /\ block_timeout'[u] = block_timeout[u] /\ timer'[u] = timer[u]
    BY <1>3, <1>6, ZenonT(60) DEF OtherTypesOK, BlockingType
  <1>8. /\ pc'[c] = "join" /\ \A u \in Thread : u # c => pc'[u] = pc[u]
        /\ arg'[c] = t /\ \A u \in Thread : u # c => arg'[u] = arg[u]
        /\ HandleTypes' /\ UNCHANGED <<preempted, depth>>
    BY <1>1, <1>3, ZenonT(60) DEF goto, ThreadInv, HandleTypes, ctlVars
  <1>9. /\ \A u \in Thread : \A x \in {"FREE", "SUSPENDED", "DEATH"} :
             state'[u] = x <=> state[u] = x
        /\ \A u \in Thread : state'[u] = "BLOCKED" <=> state[u] = "BLOCKED" \/ u = c
    BY <1>3, <1>5, ZenonT(60) DEF After, Alive, StateType
  <1>10. t \in thread_list
    BY <1>1, ThreadAssumption, ZenonT(60) DEF ThreadInv, OwnerOK
  <1>11. ParkedOK'
    BY <1>3, <1>8, <1>9, ZenonT(60) DEF ThreadInv, ParkedOK, Parked
  <1>12. ListOK' /\ OwnerOK'
    BY <1>1, <1>9, ZenonT(60) DEF ThreadInv, ListOK, OwnerOK
  <1>13. TimersOK'
    BY <1>2, <1>7, <1>8, ZenonT(60) DEF ThreadInv, TimersOK
  <1>14. ArgOK'
    BY <1>7, <1>8, <1>9 DEF ThreadInv, ArgOK, Busy
  <1>15. NoJoinerForgotten'
    BY <1>1, <1>2, <1>8, <1>9, <1>10 DEF ThreadInv, NoJoinerForgotten, ArgOK, Busy
  <1>16. OwnJoinFindsDeadThread'
    <2>1. \A u \in Thread : Reaping(u)' => Reaping(u) /\ arg'[u] = arg[u]
      BY <1>1, <1>7, <1>8, <1>9, ZenonT(60) DEF Reaping
    <2>2. \A u, w \in Thread : owner'[u] = w /\ Reaping(w) => owner[u] = w
      BY <1>1, <1>7, <1>8, <1>9, ThreadAssumption, ZenonT(60) DEF Reaping
    <2>3. \A u \in Thread : u \in thread_list /\ state[u] = "DEATH" =>
            owner'[u] = NULL \/ (u \in thread_list' /\ state'[u] = "DEATH")
      BY <1>1, <1>7, <1>8, <1>9, ZenonT(60)
    <2> QED
      BY <2>1, <2>2, <2>3, OwnJoinKept, ZenonT(60) DEF KeepsReapers
  <1>17. KeepsSuspended
    BY <1>9, ZenonT(60) DEF KeepsSuspended
  <1> QED
    BY <1>5, <1>8, <1>11, <1>12, <1>13, <1>14, <1>15, <1>16, <1>17, ZenonT(60) DEF ThreadInv

\* thread_join() runs again after it was blocked.
LEMMA JoinReturnInv ==
  ASSUME ThreadInv, NEW c \in Thread, thread_join_return(c),
         wait_queue_block_ret[c] = "NO_ERROR" => FindsDeadThread(c)
  PROVE  ThreadInv' /\ HandsOver
  <1>1. /\ Running(c) /\ pc[c] = "join" /\ wait_queue_unblocked(c)
        /\ critical_section_count' = critical_section_count - 2 /\ goto(c, "user")
        /\ arg' = [arg EXCEPT ![c] = NULL]
        /\ \/ wait_queue_block_ret[c] = "NO_ERROR" /\ reap(arg[c])
           \/ /\ wait_queue_block_ret[c] # "NO_ERROR"
              /\ UNCHANGED <<state, thread_list, detached, owner>>
        /\ UNCHANGED <<current_thread, remaining_quantum, run_queue, run_queue_bitmap,
                       saved_critical_section_count>>
        /\ UNCHANGED ctlVars
    BY ZenonT(60) DEF thread_join_return
  <1>2. /\ state[c] = "RUNNING" /\ current_thread = c /\ SchedInv(Frames)
        /\ OtherTypesOK /\ arg[c] \in Thread /\ pc \in [Thread -> DOMAIN Frames]
    BY <1>1, CallerRuns, Before, ZenonT(60) DEF ThreadInv, ArgOK, Busy
  <1>3. /\ timer' = IF block_timeout[c] # "INFINITE" THEN [timer EXCEPT ![c] = "none"]
                    ELSE timer
        /\ block_timeout' = [block_timeout EXCEPT ![c] = "INFINITE"]
        /\ UNCHANGED <<wait_list, wait_count, blocking_wait_queue, wait_queue_block_ret>>
    BY <1>1, ZenonT(60) DEF wait_queue_unblocked, waitVars
  <1>4. timer[c] = "timeout" => block_timeout[c] = "FINITE"
    BY ZenonT(60) DEF ThreadInv, TimersOK
  <1>5. timer[c] # "sleep"
    BY <1>2, ZenonT(60) DEF ThreadInv, SchedInv, SleepTimers
  <1>6. /\ timer'[c] \notin {"timeout", "sleep"}
        /\ \A u \in Thread : u # c =>
             timer'[u] = timer[u] /\ block_timeout'[u] = block_timeout[u]
    BY <1>2, <1>3, <1>4, <1>5, ZenonT(60) DEF OtherTypesOK
  <1>7. OtherTypesOK'
    BY <1>1, <1>2, <1>3, ZenonT(60) DEF OtherTypesOK, ctlVars, Timeout
  <1>8. Frames[pc[c]] = 2
    BY <1>1, FramesFit, ZenonT(60)
  <1>9. CASE wait_queue_block_ret[c] = "NO_ERROR"
    <2>1. reap(arg[c]) /\ state[arg[c]] = "DEATH"
      BY <1>1, <1>9, ZenonT(60) DEF FindsDeadThread
    <2>2. Leaves(c)
      BY <1>1, <1>3, <1>5, <1>6, <1>7, <1>8, ZenonT(60) DEF Leaves, goto
    <2> QED
      BY <1>2, <2>1, <2>2, ReapInv, ZenonT(60)
  <1>10. CASE wait_queue_block_ret[c] # "NO_ERROR"
    <2>1. UNCHANGED <<state, thread_list, detached, owner>> /\ leave(c, Frames[pc[c]])
      BY <1>1, <1>8, <1>10, ZenonT(60) DEF leave
    <2>2. /\ UNCHANGED <<ctlVars, wait_list, wait_count, blocking_wait_queue>>
          /\ pc[c] \notin {"exit_wake", "wake_all"}
          /\ \A u \in Thread : timer'[u] = "sleep" <=> timer[u] = "sleep"
      BY <1>1, <1>3, <1>5, <1>6, ZenonT(60)
    <2>3. SchedInv(Frames)' /\ HandsOver
      BY <1>1, <1>2, <1>7, <2>1, <2>2, FramesFit, LeaveStep, ZenonT(60)
    <2>4. /\ pc'[c] = "user" /\ \A u \in Thread : u # c => pc'[u] = pc[u]
          /\ \A u \in Thread : u # c => arg'[u] = arg[u]
          /\ HandleTypes' /\ UNCHANGED <<preempted, depth>>
      BY <1>1, <1>2, <2>1, ZenonT(60) DEF goto, ThreadInv, HandleTypes, ctlVars
    <2>5. ParkedOK'
      BY <1>2, <2>1, <2>4, ZenonT(60) DEF ThreadInv, ParkedOK, Parked
    <2>6. ListOK' /\ OwnerOK'
      BY <2>1, ZenonT(60) DEF ThreadInv, ListOK, OwnerOK
    <2>7. TimersOK'
      BY <1>6, <2>4, ZenonT(60) DEF ThreadInv, TimersOK
    <2>8. ArgOK'
      BY <1>2, <1>3, <2>1, <2>4, ZenonT(60) DEF ThreadInv, ArgOK, Busy
    <2>9. NoJoinerForgotten'
      <3>1. BlocksNobody
        BY <1>1, <1>2, <2>1, <2>4, ZenonT(60) DEF BlocksNobody, ThreadInv, ArgOK
      <3>2. KeepsAwaited
        BY <1>1, <1>2, <2>1, <2>4, ZenonT(60) DEF KeepsAwaited, Awaited
      <3> QED
        BY <3>1, <3>2, JoinersKept, ZenonT(60)
    <2>10. OwnJoinFindsDeadThread'
      <3>1. \A u \in Thread : Reaping(u)' => Reaping(u) /\ arg'[u] = arg[u]
        BY <1>3, <2>1, <2>4, ZenonT(60) DEF Reaping
      <3>2. \A u, w \in Thread : owner'[u] = w /\ Reaping(w) => owner[u] = w
        BY <1>3, <2>1, <2>4, ThreadAssumption, ZenonT(60) DEF Reaping
      <3>3. \A u \in Thread : u \in thread_list /\ state[u] = "DEATH" =>
              owner'[u] = NULL \/ (u \in thread_list' /\ state'[u] = "DEATH")
        BY <1>3, <2>1, <2>4, ZenonT(60)
      <3> QED
        BY <3>1, <3>2, <3>3, OwnJoinKept, ZenonT(60) DEF KeepsReapers
    <2> QED
      BY <2>3, <2>4, <2>5, <2>6, <2>7, <2>8, <2>9, <2>10, ZenonT(60) DEF ThreadInv
  <1> QED
    BY <1>9, <1>10, ZenonT(60)

-----------------------------------------------------------------------------
(* Threads exit                                                            *)

\* What an exiting thread does to the handles it holds.
LEMMA Forgets ==
  ASSUME HandleTypes, NEW c \in Thread, owner' = forget_handles(c)
  PROVE  /\ owner' \in [Thread -> Thread \union {NULL}]
         /\ \A u \in Thread : owner'[u] = owner[u] \/ owner'[u] = NULL
         /\ \A u \in Thread : owner[u] = NULL => owner'[u] = NULL
  BY ZenonT(60) DEF HandleTypes, forget_handles

\* thread_exit() of a detached thread.
LEMMA ExitDetachedInv ==
  ASSUME ThreadInv, NEW c \in Thread, thread_exit_detached(c)
  PROVE  ThreadInv' /\ HandsOver /\ KeepsSuspended
  <1>1. /\ Calls(c) /\ depth[c] = 0 /\ c \in detached /\ thread_list' = thread_list \ {c}
        /\ thread_resched([state EXCEPT ![c] = "FREE"], remaining_quantum, RunQueue,
                          critical_section_count + 1)
        /\ pc' = [pc EXCEPT ![c] = "dead"] /\ owner' = forget_handles(c)
        /\ UNCHANGED <<waitVars, timeVars, ctlVars>> /\ UNCHANGED <<detached, arg>>
    BY ZenonT(60) DEF thread_exit_detached, goto
  <1>2. Running(c) /\ pc[c] = "user" /\ c # IdleThread
    BY <1>1, ZenonT(60) DEF Calls, InUser
  <1>3. /\ state[c] = "RUNNING" /\ SchedInv(Frames) /\ state \in StateType
        /\ OtherTypesOK /\ pc \in [Thread -> DOMAIN Frames] /\ c \notin preempted
        /\ WaitQueueOK(state, blocking_wait_queue, wait_list, wait_count)
        /\ \A u \in Thread : timer[u] = "sleep" <=> state[u] = "SLEEPING"
    BY <1>2, CallerRuns, Before, ZenonT(60) DEF ThreadInv
  <1>4. /\ UNCHANGED <<wait_list, wait_count, blocking_wait_queue, wait_queue_block_ret,
                       block_timeout, timer, priority, preempted, depth, irq>>
        /\ OtherTypesOK'
    BY <1>1, <1>3, ZenonT(60) DEF OtherTypesOK, waitVars, timeVars, ctlVars
  <1>5. /\ "dead" \in DOMAIN Frames \ {"exit_wake", "wake_all"}
        /\ pc[c] \notin {"exit_wake", "wake_all"} /\ 1 \in Int
        /\ Frames["dead"] = Frames[pc[c]] + 1
    BY <1>2, FramesFit
  <1>6. WaitQueueOK([state EXCEPT ![c] = "FREE"], blocking_wait_queue', wait_list', wait_count')
    <2>1. \A u \in Thread : [state EXCEPT ![c] = "FREE"][u] = "BLOCKED" <=> state[u] = "BLOCKED"
      BY <1>3, ZenonT(60) DEF StateType
    <2> QED
      BY <1>3, <1>4, <2>1, WaitQueueFrame, ZenonT(60)
  <1>7. GivesUp(Frames, c, "dead", 1, "FREE")
    <2>1. /\ timer'[c] = "sleep" <=> FALSE
          /\ \A u \in Thread : u # c => (timer'[u] = "sleep" <=> timer[u] = "sleep")
      BY <1>3, <1>4, ZenonT(60)
    <2>2. "FREE" \in {"BLOCKED", "SLEEPING", "FREE"} /\ "FREE" # "SLEEPING"
          /\ UNCHANGED <<priority, depth, preempted, irq>>
      BY <1>4, ZenonT(60)
    <2> QED
      BY <1>1, <1>2, <1>4, <1>5, <1>6, <2>1, <2>2, ZenonT(60) DEF GivesUp
  <1>8. SchedInv(Frames)' /\ HandsOver /\ After([state EXCEPT ![c] = "FREE"])
    BY <1>3, <1>7, FramesFit, GiveUp, ZenonT(60)
  <1>9. /\ state'[c] = "FREE"
        /\ \A u \in Thread : u # c => \A x \in {"FREE", "SUSPENDED", "DEATH", "BLOCKED"} :
             state'[u] = x <=> state[u] = x
    BY <1>3, <1>8, ZenonT(60) DEF After, Alive, StateType
  <1>10. /\ pc'[c] = "dead" /\ \A u \in Thread : u # c => pc'[u] = pc[u]
         /\ UNCHANGED <<detached, arg>>
    BY <1>1, <1>3, ZenonT(60)
  <1>11. /\ owner' \in [Thread -> Thread \union {NULL}]
         /\ \A u \in Thread : owner'[u] = owner[u] \/ owner'[u] = NULL
         /\ \A u \in Thread : owner[u] = NULL => owner'[u] = NULL
    BY <1>1, Forgets, ZenonT(60) DEF ThreadInv
  <1>12. owner'[c] = NULL
    BY <1>1, <1>3, <1>11, ZenonT(60) DEF ThreadInv, OwnerOK
  <1>13. \A u \in Thread : state[u] = "BLOCKED" => u # c /\ arg[u] # c
    BY <1>1, <1>3, ZenonT(60) DEF ThreadInv, NoJoinerForgotten, ArgOK
  <1>14. HandleTypes'
    BY <1>1, <1>10, <1>11, ZenonT(60) DEF ThreadInv, HandleTypes
  <1>15. ParkedOK'
    BY <1>1, <1>3, <1>4, <1>9, <1>10, ZenonT(60) DEF ThreadInv, ParkedOK, Parked
  <1>16. ListOK'
    BY <1>1, <1>9, ZenonT(60) DEF ThreadInv, ListOK
  <1>17. OwnerOK'
    BY <1>1, <1>9, <1>10, <1>11, <1>12, ZenonT(60) DEF ThreadInv, OwnerOK
  <1>18. TimersOK'
    BY <1>2, <1>4, <1>10, ZenonT(60) DEF ThreadInv, TimersOK
  <1>19. ArgOK'
    BY <1>4, <1>9, <1>10, ZenonT(60) DEF ThreadInv, ArgOK, Busy
  <1>20. NoJoinerForgotten'
    <2>1. BlocksNobody
      BY <1>1, <1>9, <1>10, <1>13, ZenonT(60) DEF BlocksNobody, ThreadInv, ArgOK
    <2>2. KeepsAwaited
      BY <1>1, <1>9, <1>10, <1>13, ZenonT(60) DEF KeepsAwaited, Awaited
    <2> QED
      BY <2>1, <2>2, JoinersKept, ZenonT(60)
  <1>21. OwnJoinFindsDeadThread'
    <2>1. \A u \in Thread : Reaping(u)' => Reaping(u) /\ arg'[u] = arg[u]
      BY <1>1, <1>3, <1>4, <1>9, <1>10, <1>11, <1>12, ZenonT(60) DEF Reaping
    <2>2. \A u, w \in Thread : owner'[u] = w /\ Reaping(w) => owner[u] = w
      BY <1>1, <1>3, <1>4, <1>9, <1>10, <1>11, <1>12, ThreadAssumption, ZenonT(60) DEF Reaping
    <2>3. \A u \in Thread : u \in thread_list /\ state[u] = "DEATH" =>
            owner'[u] = NULL \/ (u \in thread_list' /\ state'[u] = "DEATH")
      BY <1>1, <1>3, <1>4, <1>9, <1>10, <1>11, <1>12, ZenonT(60)
    <2> QED
      BY <2>1, <2>2, <2>3, OwnJoinKept, ZenonT(60) DEF KeepsReapers
  <1>22. KeepsSuspended
    BY <1>3, <1>9, ZenonT(60) DEF KeepsSuspended
  <1> QED
    BY <1>8, <1>14, <1>15, <1>16, <1>17, <1>18, <1>19, <1>20, <1>21, <1>22, ZenonT(60)
       DEF ThreadInv

\* thread_exit() of a thread that can be joined begins.
LEMMA ExitInv ==
  ASSUME ThreadInv, NEW c \in Thread, thread_exit(c)
  PROVE  ThreadInv' /\ HandsOver
  <1>1. /\ Calls(c) /\ depth[c] = 0 /\ c \notin detached
        /\ state' = [state EXCEPT ![c] = "DEATH"]
        /\ critical_section_count' = critical_section_count + 1
        /\ goto(c, "exit_wake") /\ owner' = forget_handles(c)
        /\ UNCHANGED <<current_thread, remaining_quantum, run_queue, run_queue_bitmap,
                       saved_critical_section_count, waitVars, timeVars, ctlVars>>
        /\ UNCHANGED <<thread_list, detached, arg>>
    BY ZenonT(60) DEF thread_exit
  <1>2. Running(c) /\ pc[c] = "user"
    BY <1>1, ZenonT(60) DEF Calls, InUser
  <1>3. /\ state[c] = "RUNNING" /\ SchedInv(Frames) /\ state \in StateType
        /\ pc \in [Thread -> DOMAIN Frames] /\ c \notin preempted
    BY <1>2, CallerRuns, Before, ZenonT(60) DEF ThreadInv
  <1>4. SchedInv(Frames)' /\ HandsOver
    BY <1>1, <1>3, FramesFit, ExitStep, ZenonT(60)
  <1>5. /\ UNCHANGED <<blocking_wait_queue, wait_queue_block_ret, block_timeout, timer,
                       preempted, depth>>
        /\ pc'[c] = "exit_wake" /\ \A u \in Thread : u # c => pc'[u] = pc[u]
        /\ state'[c] = "DEATH" /\ \A u \in Thread : u # c => state'[u] = state[u]
    BY <1>1, <1>3, ZenonT(60) DEF goto, StateType, waitVars, timeVars, ctlVars
  <1>6. /\ owner' \in [Thread -> Thread \union {NULL}]
        /\ \A u \in Thread : owner'[u] = owner[u] \/ owner'[u] = NULL
        /\ \A u \in Thread : owner[u] = NULL => owner'[u] = NULL
    BY <1>1, Forgets, ZenonT(60) DEF ThreadInv
  <1>7. HandleTypes'
    BY <1>1, <1>6, ZenonT(60) DEF ThreadInv, HandleTypes
  <1>8. ParkedOK'
    BY <1>1, <1>3, <1>5, ZenonT(60) DEF ThreadInv, ParkedOK, Parked
  <1>9. ListOK'
    BY <1>1, <1>3, <1>5, ZenonT(60) DEF ThreadInv, ListOK
  <1>10. OwnerOK'
    BY <1>1, <1>5, <1>6, ZenonT(60) DEF ThreadInv, OwnerOK
  <1>11. TimersOK'
    BY <1>2, <1>5, ZenonT(60) DEF ThreadInv, TimersOK
  <1>12. ArgOK'
    BY <1>1, <1>5, ZenonT(60) DEF ThreadInv, ArgOK, Busy
  <1>13. NoJoinerForgotten'
    <2>1. BlocksNobody
      BY <1>1, <1>5, ZenonT(60) DEF BlocksNobody, ThreadInv, ArgOK
    <2>2. KeepsAwaited
      BY <1>1, <1>5, ZenonT(60) DEF KeepsAwaited, Awaited
    <2> QED
      BY <2>1, <2>2, JoinersKept, ZenonT(60)
  <1>14. OwnJoinFindsDeadThread'
    <2>1. \A u \in Thread : Reaping(u)' => Reaping(u) /\ arg'[u] = arg[u]
      BY <1>1, <1>5, <1>6, ZenonT(60) DEF Reaping
    <2>2. \A u, w \in Thread : owner'[u] = w /\ Reaping(w) => owner[u] = w
      BY <1>1, <1>5, <1>6, ThreadAssumption, ZenonT(60) DEF Reaping
    <2>3. \A u \in Thread : u \in thread_list /\ state[u] = "DEATH" =>
            owner'[u] = NULL \/ (u \in thread_list' /\ state'[u] = "DEATH")
      BY <1>1, <1>5, <1>6, ZenonT(60)
    <2> QED
      BY <2>1, <2>2, <2>3, OwnJoinKept, ZenonT(60) DEF KeepsReapers
  <1> QED
    BY <1>4, <1>7, <1>8, <1>9, <1>10, <1>11, <1>12, <1>13, <1>14, ZenonT(60) DEF ThreadInv

\* Every joiner is woken, and the dead thread switches away for good.
LEMMA ExitFinishInv ==
  ASSUME ThreadInv, NEW c \in Thread, thread_exit_finish(c)
  PROVE  ThreadInv' /\ HandsOver /\ After(state)
  <1>1. /\ Running(c) /\ pc[c] = "exit_wake" /\ wait_list[c] = <<>> /\ wake_all_end
        /\ goto(c, "dead") /\ UNCHANGED <<waitVars, timeVars, ctlVars>>
        /\ UNCHANGED threadVars
    BY ZenonT(60) DEF thread_exit_finish, woken_all, retcode_wait_queue, wake_all_end
  <1>2. SchedInv(Frames) /\ pc \in [Thread -> DOMAIN Frames]
    BY Before, ZenonT(60) DEF ThreadInv
  <1>3. "dead" \in DOMAIN Frames \ {"exit_wake", "wake_all"} /\ Frames["dead"] = 1
    BY FramesFit, ZenonT(60)
  <1>4. SchedInv(Frames)' /\ HandsOver /\ After(state)
    BY <1>1, <1>2, <1>3, FramesFit, WakeAllEndStep, ZenonT(60)
  <1>5. state[c] = "DEATH"
    BY <1>1, ZenonT(60) DEF ThreadInv, SchedInv, CurrentRuns, Running
  <1>6. \A u \in Thread : \A x \in {"FREE", "SUSPENDED", "DEATH", "BLOCKED"} :
          state'[u] = x <=> state[u] = x
    BY <1>4, ZenonT(60) DEF After, Alive
  <1>7. /\ UNCHANGED <<blocking_wait_queue, wait_queue_block_ret, block_timeout, timer,
                       preempted, depth>>
        /\ UNCHANGED <<thread_list, detached, arg, owner>>
        /\ pc'[c] = "dead" /\ \A u \in Thread : u # c => pc'[u] = pc[u]
    BY <1>1, <1>2, ZenonT(60) DEF goto, waitVars, timeVars, ctlVars, threadVars
  <1>8. \A u \in Thread : state[u] = "BLOCKED" => arg[u] # c
    BY <1>1, NobodyWaits, ZenonT(60)
  <1>9. HandleTypes'
    BY <1>7, ZenonT(60) DEF ThreadInv, HandleTypes
  <1>10. ParkedOK'
    BY <1>5, <1>6, <1>7, ZenonT(60) DEF ThreadInv, ParkedOK, Parked
  <1>11. ListOK' /\ OwnerOK'
    BY <1>6, <1>7, ZenonT(60) DEF ThreadInv, ListOK, OwnerOK
  <1>12. TimersOK'
    BY <1>1, <1>7, ZenonT(60) DEF ThreadInv, TimersOK
  <1>13. ArgOK'
    BY <1>5, <1>6, <1>7, ZenonT(60) DEF ThreadInv, ArgOK, Busy
  <1>14. NoJoinerForgotten'
    <2>1. BlocksNobody
      BY <1>1, <1>6, <1>7, <1>8, ZenonT(60) DEF BlocksNobody, ThreadInv, ArgOK
    <2>2. KeepsAwaited
      BY <1>1, <1>6, <1>7, <1>8, ZenonT(60) DEF KeepsAwaited, Awaited
    <2> QED
      BY <2>1, <2>2, JoinersKept, ZenonT(60)
  <1>15. OwnJoinFindsDeadThread'
    <2>1. \A u \in Thread : Reaping(u)' => Reaping(u) /\ arg'[u] = arg[u]
      BY <1>1, <1>6, <1>7, ZenonT(60) DEF Reaping
    <2>2. \A u, w \in Thread : owner'[u] = w /\ Reaping(w) => owner[u] = w
      BY <1>1, <1>6, <1>7, ThreadAssumption, ZenonT(60) DEF Reaping
    <2>3. \A u \in Thread : u \in thread_list /\ state[u] = "DEATH" =>
            owner'[u] = NULL \/ (u \in thread_list' /\ state'[u] = "DEATH")
      BY <1>1, <1>6, <1>7, ZenonT(60)
    <2> QED
      BY <2>1, <2>2, <2>3, OwnJoinKept, ZenonT(60) DEF KeepsReapers
  <1> QED
    BY <1>4, <1>9, <1>10, <1>11, <1>12, <1>13, <1>14, <1>15, ZenonT(60) DEF ThreadInv

-----------------------------------------------------------------------------
(* The invariant                                                           *)

\* No element of an empty queue is in it twice.
LEMMA NoneTwice == IsInjective(<<>>)
  <1>1. DOMAIN <<>> = {}
    OBVIOUS
  <1> QED
    BY <1>1, ZenonT(60) DEF IsInjective

\* thread_init_early() establishes the invariant.
LEMMA InitInv ==
  ASSUME Init, PrioritiesOrdered
  PROVE  ThreadInv
  <1>1. /\ IdleThread \in Thread /\ NULL \notin Thread
        /\ \A t \in Thread : state[t] = IF t = IdleThread THEN "RUNNING" ELSE "FREE"
        /\ \A t \in Thread : pc[t] = IF t = IdleThread THEN "user" ELSE "dead"
        /\ \A t \in Thread : depth[t] = IF t = IdleThread THEN 1 ELSE 0
        /\ \A t \in Thread : /\ timer[t] = "none" /\ owner[t] = NULL
                             /\ saved_critical_section_count[t] = 1
        /\ current_thread = IdleThread /\ critical_section_count = 1
        /\ irq = "off" /\ preempted = {} /\ thread_list = {IdleThread}
    BY SchedulerAssumption, ThreadAssumption, ZenonT(60) DEF Init
  <1>2. SchedTypeOK /\ pc \in [Thread -> DOMAIN Frames]
    <2>1. pc \in [Thread -> DOMAIN Frames]
      BY FramesFit, ZenonT(60) DEF Init
    <2>2. SchedTypeOK
      BY SchedulerAssumption DEF Init, SchedTypeOK, ThreadState, Status, Timeout, Priority,
         LOWEST_PRIORITY
    <2> QED
      BY <2>1, <2>2, ZenonT(60)
  <1>3. RunQueueCoherent
    <2>1. \A p \in Priority : run_queue[p] = <<>> /\ Range(run_queue[p]) = {}
      BY DEF Init, Range
    <2>2. run_queue_bitmap = {} /\ \A t \in Thread : state[t] # "READY"
      BY <1>1, ZenonT(60) DEF Init
    <2>3. \A p \in Priority : IsInjective(run_queue[p])
      BY <2>1, NoneTwice, ZenonT(60)
    <2> QED
      BY <2>1, <2>2, <2>3, ZenonT(60) DEF RunQueueCoherent, RunQueueOK, RunQueue
  <1>4. WaitQueueCoherent
    <2>1. /\ \A q \in WaitQueue : /\ wait_list[q] = <<>> /\ Range(wait_list[q]) = {}
                                  /\ wait_count[q] = 0
          /\ \A t \in Thread : state[t] # "BLOCKED"
      BY <1>1 DEF Init, Range
    <2>2. \A q \in WaitQueue : IsInjective(wait_list[q])
      BY <2>1, NoneTwice, ZenonT(60)
    <2> QED
      BY <2>1, <2>2, ZenonT(60) DEF WaitQueueCoherent, WaitQueueOK
  <1>5. Balanced(Frames)
    BY <1>1, FramesFit DEF Balanced, Owed, OwedWith
  <1>6. OneRunningThread /\ CurrentRuns /\ SleepTimers /\ OneInterruptFrame
    BY <1>1, ZenonT(60) DEF OneRunningThread, CurrentRuns, SleepTimers, OneInterruptFrame
  <1>7. SchedInv(Frames)
    BY <1>2, <1>3, <1>4, <1>5, <1>6, ZenonT(60) DEF SchedInv
  <1>8. HandleTypes
    BY SchedulerAssumption, ZenonT(60) DEF Init, HandleTypes
  <1>9. ParkedOK /\ ListOK /\ TimersOK
    BY <1>1, ZenonT(60) DEF ParkedOK, Parked, ListOK, TimersOK
  <1>10. ArgOK /\ OwnerOK /\ NoJoinerForgotten /\ OwnJoinFindsDeadThread
    BY <1>1, ZenonT(60)
       DEF ArgOK, Busy, OwnerOK, NoJoinerForgotten, OwnJoinFindsDeadThread, Reaping
  <1> QED
    BY <1>7, <1>8, <1>9, <1>10, ZenonT(60) DEF ThreadInv

\* Every step keeps the invariant, and gives the processor to a ready thread of
\* the highest priority if to another one at all; thread_join() has to find
\* what its ASSERTs say.
LEMMA ThreadStep ==
  ASSUME ThreadInv, [Next]_vars, JoinAsserts
  PROVE  ThreadInv' /\ HandsOver
  <1>1. CASE UNCHANGED vars
    <2>1. UNCHANGED <<schedVars, threadVars>>
      BY <1>1, ZenonT(60) DEF vars
    <2>2. SchedInv(Frames)' /\ HandsOver
      <3>1. SchedInv(Frames)
        BY ZenonT(60) DEF ThreadInv
      <3>2. SchedInv(Frames)'
        BY <2>1, <3>1, ZenonT(60)
           DEF schedVars, runVars, waitVars, timeVars, ctlVars, SchedInv, SchedTypeOK,
               RunQueueCoherent, RunQueueOK, RunQueue, WaitQueueCoherent, WaitQueueOK,
               OneRunningThread, CurrentRuns, SleepTimers, OneInterruptFrame,
               Balanced, Owed
      <3>3. HandsOver
        BY <2>1, ZenonT(60) DEF schedVars, runVars, HandsOver
      <3> QED
        BY <3>2, <3>3, ZenonT(60)
    <2>3. Quiet
      BY <2>1, ZenonT(60) DEF ThreadInv, TimersOK, Quiet, After, schedVars, runVars, waitVars,
                  timeVars, ctlVars, threadVars
    <2> QED
      BY <2>2, <2>3, QuietInv, ZenonT(60)
  <1>2. CASE Irq /\ UNCHANGED threadVars
    BY <1>2, IrqInv, ZenonT(60)
  <1>3. CASE thread_become_idle \/ thread_become_idle_yield
    BY <1>3, BecomeIdleInv, ZenonT(60)
  <1>4. ASSUME NEW c \in Thread,
               (\/ thread_yield(c) \/ thread_sleep(c) \/ Return(c)
                \/ enter_critical_section(c) \/ exit_critical_section(c)
                \/ \E p \in SetPriority : thread_set_priority(c, p)) /\ UNCHANGED threadVars
        PROVE  ThreadInv' /\ HandsOver
    BY <1>4, QuietCallsInv, ZenonT(60)
  <1>5. ASSUME NEW c \in Thread, \E t \in Thread, p \in CreatePriority : thread_create(c, t, p)
        PROVE  ThreadInv' /\ HandsOver
    BY <1>5, CreateInv, ZenonT(60)
  <1>6. ASSUME NEW c \in Thread, NEW t \in Thread, thread_resume(c, t)
        PROVE  ThreadInv' /\ HandsOver
    <2>1. Running(c) /\ pc[c] \in {"user", "dar_resume"} /\ resume(c, t)
      BY <1>6, ZenonT(60) DEF thread_resume, Handles, Calls, InUser
    <2> QED
      BY <2>1, ResumeInv, ZenonT(60)
  <1>7. ASSUME NEW c \in Thread, thread_resume_return(c)
        PROVE  ThreadInv' /\ HandsOver
    BY <1>7, ResumeReturnInv, ZenonT(60)
  <1>8. ASSUME NEW c \in Thread, \E t \in Thread, label \in {"detach_wake", "dar_wake"} :
                                   thread_detach(c, t, label)
        PROVE  ThreadInv' /\ HandsOver
    BY <1>8, DetachInv, ZenonT(60)
  <1>9. ASSUME NEW c \in Thread, thread_detach_wake(c) \/ thread_detach_finish(c)
        PROVE  ThreadInv' /\ HandsOver
    BY <1>9, DetachWakeInv, DetachFinishInv, ZenonT(60)
  <1>10. ASSUME NEW c \in Thread, thread_detach_and_resume_finish(c)
         PROVE  ThreadInv' /\ HandsOver
    <2>1. /\ Running(c) /\ pc[c] \in {"user", "dar_resume"} /\ resume(c, arg[c])
          /\ arg[c] \in Thread
      BY <1>10, ZenonT(60) DEF thread_detach_and_resume_finish, ThreadInv, ArgOK, Busy
    <2> QED
      BY <2>1, ResumeInv, ZenonT(60)
  <1>11. ASSUME NEW c \in Thread, \E t \in Thread, timeout \in {"FINITE", "INFINITE"} :
                                    thread_join(c, t, timeout)
         PROVE  ThreadInv' /\ HandsOver
    BY <1>11, JoinInv, ZenonT(60)
  <1>12. ASSUME NEW c \in Thread, thread_join_dead(c)
         PROVE  ThreadInv' /\ HandsOver
    BY <1>12, JoinDeadInv, ZenonT(60)
  <1>13. ASSUME NEW c \in Thread, thread_join_return(c)
         PROVE  ThreadInv' /\ HandsOver
    BY <1>13, JoinReturnInv, ZenonT(60) DEF JoinAsserts
  <1>14. ASSUME NEW c \in Thread, thread_exit_detached(c) \/ thread_exit(c)
         PROVE  ThreadInv' /\ HandsOver
    BY <1>14, ExitDetachedInv, ExitInv, ZenonT(60)
  <1>15. ASSUME NEW c \in Thread, thread_exit_wake(c) \/ thread_exit_finish(c)
         PROVE  ThreadInv' /\ HandsOver
    BY <1>15, ExitWakeInv, ExitFinishInv, ZenonT(60)
  <1> QED
    BY <1>1, <1>2, <1>3, <1>4, <1>5, <1>6, <1>7, <1>8, <1>9, <1>10, <1>11, <1>12,
       <1>13, <1>14, <1>15, ZenonT(60) DEF Next

-----------------------------------------------------------------------------
(* Handles that are not shared                                             *)

\* A caller still holds the handle of the thread its call is about, and a
\* thread that is detached and resumed in one call waits for the latter.
HandleOK == \A c \in Thread : Busy(c) =>
  /\ owner[arg[c]] = c
  /\ pc[c] \in {"dar_wake", "dar_resume"} => state[arg[c]] = "SUSPENDED"

\* A step that concerns no handle keeps it.
LEMMA HandleQuiet ==
  ASSUME ThreadInv, HandleOK, UNCHANGED threadVars, KeepsSuspended,
         \A u \in Thread : pc'[u] = pc[u] \/ ~Busy(u)'
  PROVE  HandleOK'
  <1>1. \A u \in Thread : Busy(u)' => Busy(u) /\ pc'[u] = pc[u] /\ arg[u] \in Thread
    BY ZenonT(60) DEF Busy, ThreadInv, ArgOK
  <1>2. UNCHANGED <<arg, owner>>
    BY ZenonT(60) DEF threadVars
  <1> QED
    BY <1>1, <1>2, ZenonT(60) DEF HandleOK, KeepsSuspended

\* So does a step of c that uses no handle of anybody else.
LEMMA HandleKept ==
  ASSUME ThreadInv, HandleOK, NEW c \in Thread,
         \A d \in Thread : d # c => arg'[d] = arg[d] /\ (pc'[d] = pc[d] \/ ~Busy(d)'),
         \A u \in Thread : owner[u] \notin {c, NULL} =>
           owner'[u] = owner[u] /\ (state[u] = "SUSPENDED" => state'[u] = "SUSPENDED"),
         Busy(c)' =>
           /\ owner'[arg'[c]] = c
           /\ pc'[c] \in {"dar_wake", "dar_resume"} => state'[arg'[c]] = "SUSPENDED"
  PROVE  HandleOK'
  <1> SUFFICES ASSUME NEW d \in Thread, d # c, Busy(d)'
               PROVE  /\ owner'[arg'[d]] = d
                      /\ pc'[d] \in {"dar_wake", "dar_resume"} =>
                           state'[arg'[d]] = "SUSPENDED"
    BY ZenonT(60) DEF HandleOK
  <1>1. pc'[d] = pc[d] /\ arg'[d] = arg[d]
    BY ZenonT(60)
  <1>2. Busy(d) /\ arg[d] \in Thread
    BY <1>1, ZenonT(60) DEF Busy, ThreadInv, ArgOK
  <1>3. owner[arg[d]] = d /\ owner[arg[d]] \notin {c, NULL}
    BY <1>2, ThreadAssumption DEF HandleOK
  <1> QED
    BY <1>1, <1>2, <1>3, ZenonT(60) DEF HandleOK

\* The steps that use a handle.
LEMMA HandleCalls ==
  ASSUME ThreadInv, HandleOK, ~SharedHandles, NEW c \in Thread,
         \/ \E t \in Thread, p \in CreatePriority : thread_create(c, t, p)
         \/ \E t \in Thread : thread_resume(c, t)
         \/ thread_detach_and_resume_finish(c)
         \/ \E t \in Thread, label \in {"detach_wake", "dar_wake"} : thread_detach(c, t, label)
         \/ thread_detach_finish(c)
  PROVE  HandleOK'
  <1>1. /\ pc \in [Thread -> DOMAIN Frames] /\ state \in [Thread -> ThreadState]
        /\ HandleTypes /\ NULL \notin Thread
    BY Before, ThreadAssumption, ZenonT(60) DEF ThreadInv, StateType
  <1>2. \A d \in Thread : Busy(d) => arg[d] \in Thread
    BY ZenonT(60) DEF ThreadInv, ArgOK
  <1>3. ASSUME NEW t \in Thread, NEW p \in CreatePriority, thread_create(c, t, p)
        PROVE  HandleOK'
    <2>1. /\ Running(c) /\ pc[c] = "user" /\ state[t] = "FREE"
          /\ state' = [state EXCEPT ![t] = "SUSPENDED"] /\ pc' = [pc EXCEPT ![t] = "start"]
          /\ owner' = [owner EXCEPT ![t] = c] /\ arg' = arg
      BY <1>3, ZenonT(60) DEF thread_create, Handles, Calls, InUser
    <2>2. owner[t] = NULL
      BY <2>1, ZenonT(60) DEF ThreadInv, OwnerOK, ListOK
    <2>3. \A d \in Thread : pc'[d] = pc[d] \/ ~Busy(d)'
      BY <2>1, <1>1, ZenonT(60) DEF Busy
    <2>4. ~Busy(c)'
      BY <2>1, <1>1, ZenonT(60) DEF Busy
    <2>5. \A u \in Thread : owner[u] \notin {c, NULL} =>
            owner'[u] = owner[u] /\ (state[u] = "SUSPENDED" => state'[u] = "SUSPENDED")
      BY <2>1, <2>2, <1>1, ZenonT(60) DEF HandleTypes
    <2> QED
      BY <2>1, <2>3, <2>4, <2>5, HandleKept, ZenonT(60)
  <1>4. ASSUME NEW t \in Thread, Running(c), pc[c] \in {"user", "dar_resume"},
               resume(c, t), owner[t] = c
        PROVE  HandleOK'
    <2>1. /\ pc' = [pc EXCEPT ![c] = "resume"] /\ arg' = [arg EXCEPT ![c] = NULL]
          /\ owner' = IF t \in detached THEN [owner EXCEPT ![t] = NULL] ELSE owner
      BY <1>4, ZenonT(60) DEF resume, goto
    <2>2. \A u \in Thread : state[u] = "SUSPENDED" /\ u # t => state'[u] = "SUSPENDED"
      BY <1>4, ResumeInv, ZenonT(60)
    <2>3. \A d \in Thread : d # c => arg'[d] = arg[d] /\ (pc'[d] = pc[d] \/ ~Busy(d)')
      BY <2>1, <1>1, ZenonT(60) DEF HandleTypes
    <2>4. ~Busy(c)'
      BY <2>1, <1>1, ZenonT(60) DEF Busy
    <2>5. \A u \in Thread : owner[u] \notin {c, NULL} =>
            owner'[u] = owner[u] /\ (state[u] = "SUSPENDED" => state'[u] = "SUSPENDED")
      BY <2>1, <2>2, <1>1, <1>4, ZenonT(60) DEF HandleTypes
    <2> QED
      BY <2>3, <2>4, <2>5, HandleKept, ZenonT(60)
  <1>5. ASSUME NEW t \in Thread, thread_resume(c, t)
        PROVE  HandleOK'
    BY <1>4, <1>5, ZenonT(60) DEF thread_resume, Handles, Calls, InUser
  <1>6. CASE thread_detach_and_resume_finish(c)
    <2>1. Running(c) /\ pc[c] = "dar_resume" /\ resume(c, arg[c]) /\ Busy(c)
      BY <1>6, ZenonT(60) DEF thread_detach_and_resume_finish, Busy
    <2> QED
      BY <1>2, <1>4, <2>1, ZenonT(60) DEF HandleOK
  <1>7. ASSUME NEW t \in Thread, NEW label \in {"detach_wake", "dar_wake"},
               thread_detach(c, t, label)
        PROVE  HandleOK'
    <2>1. /\ owner[t] = c /\ (label = "dar_wake" => state[t] = "SUSPENDED")
          /\ arg' = [arg EXCEPT ![c] = t] /\ pc' = [pc EXCEPT ![c] = label]
          /\ state' = state /\ owner' = owner
      BY <1>7, ZenonT(60) DEF thread_detach, goto
    <2>2. \A d \in Thread : d # c => arg'[d] = arg[d] /\ (pc'[d] = pc[d] \/ ~Busy(d)')
      BY <2>1, <1>1, ZenonT(60) DEF HandleTypes
    <2>3. arg'[c] = t /\ pc'[c] = label
      BY <2>1, <1>1, ZenonT(60) DEF HandleTypes
    <2> QED
      BY <2>1, <2>2, <2>3, HandleKept, ZenonT(60)
  <1>8. CASE thread_detach_finish(c)
    <2>1. /\ pc[c] \in {"detach_wake", "dar_wake"}
          /\ \/ /\ state[arg[c]] = "DEATH" /\ goto(c, "detach_join") /\ owner' = owner
             \/ /\ state[arg[c]] # "DEATH"
                /\ goto(c, IF pc[c] = "dar_wake" THEN "dar_resume" ELSE "user")
                /\ owner' = IF state[arg[c]] = "SUSPENDED" THEN owner
                            ELSE [owner EXCEPT ![arg[c]] = NULL]
          /\ arg' = IF pc'[c] = "user" THEN [arg EXCEPT ![c] = NULL] ELSE arg
          /\ state' = state
      BY <1>8, ZenonT(60) DEF thread_detach_finish
    <2>2. /\ arg[c] \in Thread /\ owner[arg[c]] = c
          /\ pc[c] = "dar_wake" => state[arg[c]] = "SUSPENDED"
      BY <2>1, <1>2, ZenonT(60) DEF HandleOK, Busy
    <2>3. \A d \in Thread : d # c => arg'[d] = arg[d] /\ (pc'[d] = pc[d] \/ ~Busy(d)')
      BY <2>1, <1>1, ZenonT(60) DEF HandleTypes, goto
    <2>4. \A u \in Thread : owner[u] \notin {c, NULL} => owner'[u] = owner[u]
      BY <2>1, <2>2, <1>1, ZenonT(60) DEF HandleTypes
    <2>5. Busy(c)' =>
            /\ arg'[c] = arg[c] /\ owner' = owner
            /\ pc'[c] \in {"dar_wake", "dar_resume"} => state[arg[c]] = "SUSPENDED"
      BY <2>1, <2>2, <1>1, ZenonT(60) DEF HandleTypes, goto, Busy
    <2> QED
      BY <2>1, <2>2, <2>3, <2>4, <2>5, HandleKept, ZenonT(60)
  <1> QED
    BY <1>3, <1>5, <1>6, <1>7, <1>8, ZenonT(60)

\* The steps in which a thread joins or exits.
LEMMA HandleEnds ==
  ASSUME ThreadInv, HandleOK, NEW c \in Thread,
         \/ \E t \in Thread, timeout \in {"FINITE", "INFINITE"} : thread_join(c, t, timeout)
         \/ thread_join_dead(c) \/ thread_join_return(c)
         \/ thread_exit_detached(c) \/ thread_exit(c)
  PROVE  HandleOK'
  <1>1. /\ pc \in [Thread -> DOMAIN Frames] /\ state \in [Thread -> ThreadState]
        /\ HandleTypes /\ NULL \notin Thread
    BY Before, ThreadAssumption, ZenonT(60) DEF ThreadInv, StateType
  <1>2. ASSUME NEW t \in Thread, NEW timeout \in {"FINITE", "INFINITE"},
               thread_join(c, t, timeout)
        PROVE  HandleOK'
    <2>1. /\ owner[t] = c /\ arg' = [arg EXCEPT ![c] = t]
          /\ pc' = [pc EXCEPT ![c] = "join"] /\ owner' = owner
      BY <1>2, ZenonT(60) DEF thread_join, goto
    <2>2. \A u \in Thread : state[u] = "SUSPENDED" => state'[u] = "SUSPENDED"
      BY <1>2, JoinInv, ZenonT(60) DEF KeepsSuspended
    <2>3. \A d \in Thread : d # c => arg'[d] = arg[d] /\ (pc'[d] = pc[d] \/ ~Busy(d)')
      BY <2>1, <1>1, ZenonT(60) DEF HandleTypes
    <2>4. arg'[c] = t /\ pc'[c] = "join"
      BY <2>1, <1>1, ZenonT(60) DEF HandleTypes
    <2>5. pc'[c] \notin {"dar_wake", "dar_resume"} /\ owner'[arg'[c]] = c
      BY <2>1, <2>4, ZenonT(60)
    <2> QED
      BY <2>1, <2>2, <2>3, <2>5, HandleKept, ZenonT(60)
  <1>3. ASSUME NEW t \in Thread, owner[t] = c, pc' = [pc EXCEPT ![c] = "user"],
               arg' = [arg EXCEPT ![c] = NULL],
               reap(t) \/ UNCHANGED <<state, thread_list, detached, owner>>
        PROVE  HandleOK'
    <2>1. \A u \in Thread : u # t => owner'[u] = owner[u] /\ state'[u] = state[u]
      BY <1>1, <1>3, ZenonT(60) DEF reap, HandleTypes
    <2>2. \A d \in Thread : d # c => arg'[d] = arg[d] /\ (pc'[d] = pc[d] \/ ~Busy(d)')
      BY <1>1, <1>3, ZenonT(60) DEF HandleTypes
    <2>3. ~Busy(c)'
      BY <1>1, <1>3, ZenonT(60) DEF Busy
    <2>4. \A u \in Thread : owner[u] \notin {c, NULL} =>
            owner'[u] = owner[u] /\ (state[u] = "SUSPENDED" => state'[u] = "SUSPENDED")
      BY <2>1, <1>3, ZenonT(60)
    <2> QED
      BY <2>2, <2>3, <2>4, HandleKept, ZenonT(60)
  <1>4. Busy(c) => arg[c] \in Thread /\ owner[arg[c]] = c
    BY ZenonT(60) DEF HandleOK, ThreadInv, ArgOK
  <1>5. CASE thread_join_dead(c)
    <2>1. PICK t \in Thread :
            /\ owner[t] = c \/ (pc[c] = "detach_join" /\ t = arg[c])
            /\ reap(t) /\ goto(c, "user") /\ arg' = [arg EXCEPT ![c] = NULL]
      BY <1>5, ZenonT(60) DEF thread_join_dead
    <2>2. owner[t] = c
      BY <1>4, <2>1, ZenonT(60) DEF Busy
    <2> QED
      BY <1>3, <2>1, <2>2, ZenonT(60) DEF goto
  <1>6. CASE thread_join_return(c)
    <2>1. /\ pc[c] = "join" /\ goto(c, "user") /\ arg' = [arg EXCEPT ![c] = NULL]
          /\ reap(arg[c]) \/ UNCHANGED <<state, thread_list, detached, owner>>
      BY <1>6, ZenonT(60) DEF thread_join_return
    <2>2. arg[c] \in Thread /\ owner[arg[c]] = c
      BY <1>4, <2>1, ZenonT(60) DEF Busy
    <2> QED
      BY <1>3, <2>1, <2>2, ZenonT(60) DEF goto
  <1>7. CASE thread_exit_detached(c) \/ thread_exit(c)
    <2>1. /\ owner' = forget_handles(c) /\ arg' = arg
          /\ pc' = [pc EXCEPT ![c] = "dead"] \/ pc' = [pc EXCEPT ![c] = "exit_wake"]
      BY <1>7, ZenonT(60) DEF thread_exit_detached, thread_exit, goto
    <2>2. \A u \in Thread : state[u] = "SUSPENDED" => state'[u] = "SUSPENDED"
      <3>1. CASE thread_exit_detached(c)
        BY <3>1, ExitDetachedInv, ZenonT(60) DEF KeepsSuspended
      <3>2. CASE thread_exit(c)
        <4>1. state' = [state EXCEPT ![c] = "DEATH"] /\ Running(c) /\ pc[c] = "user"
          BY <3>2, ZenonT(60) DEF thread_exit, Calls, InUser
        <4>2. state[c] = "RUNNING"
          BY <4>1, CallerRuns, ZenonT(60)
        <4> QED
          BY <4>1, <4>2, <1>1, ZenonT(60)
      <3> QED
        BY <1>7, <3>1, <3>2, ZenonT(60)
    <2>3. \A d \in Thread : arg'[d] = arg[d] /\ (pc'[d] = pc[d] \/ ~Busy(d)')
      BY <2>1, <1>1, ZenonT(60) DEF Busy
    <2>4. ~Busy(c)'
      BY <2>1, <1>1, ZenonT(60) DEF Busy
    <2>5. \A u \in Thread : owner[u] \notin {c, NULL} => owner'[u] = owner[u]
      BY <2>1, ZenonT(60) DEF forget_handles
    <2> QED
      BY <2>2, <2>3, <2>4, <2>5, HandleKept, ZenonT(60)
  <1> QED
    BY <1>2, <1>5, <1>6, <1>7, ZenonT(60)

\* When handles are not shared every step keeps HandleOK.
LEMMA HandleStep ==
  ASSUME ThreadInv, HandleOK, ~SharedHandles, [Next]_vars
  PROVE  HandleOK'
  <1>1. pc \in [Thread -> DOMAIN Frames]
    BY ZenonT(60) DEF ThreadInv, SchedInv
  <1>2. CASE UNCHANGED vars
    BY <1>2, HandleQuiet, ZenonT(60) DEF vars, schedVars, runVars, ctlVars, KeepsSuspended
  <1>3. CASE Irq /\ UNCHANGED threadVars
    <2>1. pc' = pc
      BY <1>3, ZenonT(60) DEF Irq, irq_enter, irq_exit, irq_return, thread_sleep_handler,
                  wait_queue_timeout_handler
    <2> QED
      BY <1>3, <2>1, IrqInv, HandleQuiet, ZenonT(60)
  <1>4. ASSUME After(state), UNCHANGED threadVars, NEW c \in Thread,
               NEW l \in Plain \union {"dead"}, pc' = [pc EXCEPT ![c] = l] \/ pc' = pc
        PROVE  HandleOK'
    <2>1. KeepsSuspended
      BY <1>4, ZenonT(60) DEF After, Alive, KeepsSuspended
    <2>2. \A u \in Thread : pc'[u] = pc[u] \/ ~Busy(u)'
      BY <1>1, <1>4, ZenonT(60) DEF Plain, Busy
    <2> QED
      BY <1>4, <2>1, <2>2, HandleQuiet, ZenonT(60)
  <1>5. CASE thread_become_idle \/ thread_become_idle_yield
    <2>1. UNCHANGED threadVars /\ After(state) /\ IdleThread \in Thread
      BY <1>5, BecomeIdleInv, SchedulerAssumption, ZenonT(60)
         DEF thread_become_idle, thread_become_idle_yield
    <2>2. pc' = [pc EXCEPT ![IdleThread] = "become_idle"] \/ pc' = [pc EXCEPT ![IdleThread] = "yield"]
      BY <1>5, ZenonT(60) DEF thread_become_idle, thread_become_idle_yield, goto
    <2>3. {"become_idle", "yield"} \subseteq Plain \union {"dead"}
      BY ZenonT(60) DEF Plain
    <2> QED
      BY <1>4, <2>1, <2>2, <2>3, ZenonT(60)
  <1>6. ASSUME NEW c \in Thread, UNCHANGED threadVars,
               \/ thread_yield(c) \/ thread_sleep(c) \/ Return(c)
               \/ enter_critical_section(c) \/ exit_critical_section(c)
               \/ \E p \in SetPriority : thread_set_priority(c, p)
        PROVE  HandleOK'
    <2>1. After(state)
      BY <1>6, QuietCallsInv, ZenonT(60)
    <2>2. \E l \in Plain \union {"dead"} : pc' = [pc EXCEPT ![c] = l] \/ pc' = pc
      BY <1>6, ZenonT(60)
         DEF thread_yield, thread_sleep, Return, leave, goto, enter_critical_section,
                  exit_critical_section, thread_set_priority, Plain
    <2> QED
      BY <1>4, <1>6, <2>1, <2>2, ZenonT(60)
  <1>7. ASSUME NEW c \in Thread, thread_resume_return(c)
        PROVE  HandleOK'
    <2>1. UNCHANGED threadVars /\ state' = state /\ pc' = [pc EXCEPT ![c] = "user"]
      BY <1>7, ZenonT(60) DEF thread_resume_return, leave, goto
    <2>2. After(state) /\ "user" \in Plain \union {"dead"}
      BY <2>1, ZenonT(60) DEF After, Plain
    <2> QED
      BY <1>4, <2>1, <2>2, ZenonT(60)
  <1>8. ASSUME NEW c \in Thread, thread_detach_wake(c) \/ thread_exit_wake(c)
        PROVE  HandleOK'
    <2>1. UNCHANGED threadVars /\ pc' = pc
      BY <1>8, ZenonT(60) DEF thread_detach_wake, thread_exit_wake
    <2> QED
      BY <1>8, <2>1, DetachWakeInv, ExitWakeInv, HandleQuiet, ZenonT(60)
  <1>9. ASSUME NEW c \in Thread, thread_exit_finish(c)
        PROVE  HandleOK'
    <2>1. UNCHANGED threadVars /\ pc' = [pc EXCEPT ![c] = "dead"]
      BY <1>9, ZenonT(60) DEF thread_exit_finish, goto
    <2> QED
      BY <1>4, <1>9, <2>1, ExitFinishInv, ZenonT(60)
  <1> QED
    BY <1>2, <1>3, <1>5, <1>6, <1>7, <1>8, <1>9, HandleCalls, HandleEnds, ZenonT(60) DEF Next

-----------------------------------------------------------------------------
(* Theorems                                                                *)

\* The inductive invariant.
OwnInv == ThreadInv /\ (~SharedHandles => HandleOK)

\* The ASSERTs of thread_join() hold whenever it has waited and goes on to free
\* the thread.  With handles of one's own this is a theorem, see below.  With
\* shared ones a thread_detach() between the wakeup and the return can break it,
\* and then thread_join() does not get to free anything: the theorems are about
\* the executions that pass the ASSERTs.
AssertsHold == [][SharedHandles => JoinAsserts]_vars

\* With handles of one's own a joiner that is woken finds the thread dead.
LEMMA OwnHandleFinds ==
  ASSUME ThreadInv, HandleOK
  PROVE  JoinFindsDeadThread
  <1>1. \A c \in Thread : Reaping(c) => Busy(c)
    BY ZenonT(60) DEF Reaping, Busy
  <1> QED
    BY <1>1, ZenonT(60) DEF JoinFindsDeadThread, ThreadInv, OwnJoinFindsDeadThread, HandleOK

\* It then passes the ASSERTs.
LEMMA FindsSoPasses ==
  ASSUME ThreadInv, JoinFindsDeadThread
  PROVE  JoinAsserts
  <1> SUFFICES ASSUME NEW c \in Thread, thread_join_return(c),
                      wait_queue_block_ret[c] = "NO_ERROR"
               PROVE  FindsDeadThread(c)
    BY ZenonT(60) DEF JoinAsserts
  <1>1. Running(c) /\ pc[c] = "join"
    BY ZenonT(60) DEF thread_join_return
  <1>2. state[c] = "RUNNING"
    BY <1>1, CallerRuns, ZenonT(60)
  <1> QED
    BY <1>1, <1>2, ZenonT(60) DEF JoinFindsDeadThread, Reaping

\* A step that changes nothing is no return from thread_join().
LEMMA StutterPasses ==
  ASSUME ThreadInv, UNCHANGED vars
  PROVE  JoinAsserts
  <1>1. pc \in [Thread -> DOMAIN Frames] /\ pc' = pc
    BY ZenonT(60) DEF ThreadInv, SchedInv, vars, schedVars
  <1>2. \A c \in Thread : ~thread_join_return(c)
    BY <1>1, ZenonT(60) DEF thread_join_return, goto
  <1> QED
    BY <1>2, ZenonT(60) DEF JoinAsserts

\* Every step that passes the ASSERTs keeps the invariant.
LEMMA OwnStep ==
  ASSUME OwnInv, [Next]_vars, [SharedHandles => JoinAsserts]_vars
  PROVE  OwnInv' /\ HandsOver
  <1>1. JoinAsserts
    <2>1. CASE UNCHANGED vars
      BY <2>1, StutterPasses, ZenonT(60) DEF OwnInv
    <2>2. CASE ~SharedHandles
      BY <2>2, OwnHandleFinds, FindsSoPasses, ZenonT(60) DEF OwnInv
    <2> QED
      BY <2>1, <2>2, ZenonT(60)
  <1>2. ThreadInv' /\ HandsOver
    BY <1>1, ThreadStep, ZenonT(60) DEF OwnInv
  <1>3. ASSUME ~SharedHandles PROVE HandleOK'
    BY <1>3, HandleStep, ZenonT(60) DEF OwnInv
  <1> QED
    BY <1>2, <1>3, ZenonT(60) DEF OwnInv

LOCAL WF == INSTANCE WellFoundedInduction

\* A set of natural numbers has a least one, and so a set of priorities a
\* highest one.
LEMMA OrderHolds == PrioritiesOrdered
  <1>1. ASSUME NEW T \in SUBSET Nat, T # {}
        PROVE  \E x \in T : \A y \in T : x <= y
    <2> DEFINE R == WF!OpToRel(<, Nat)
    <2>1. WF!IsWellFoundedOn(R, Nat)
      BY WF!NatLessThanWellFounded, ZenonT(60)
    <2> HIDE DEF R
    <2>2. PICK x \in T : \A y \in T : ~(<<y, x>> \in R)
      BY <1>1, <2>1, WF!WFMin, ZenonT(60)
    <2>3. \A y \in T : ~(y < x)
      BY <2>2, ZenonT(60) DEF R, WF!OpToRel
    <2> QED
      BY <2>2, <2>3
  <1> QED
    BY <1>1, Greatest, ZenonT(60)

\* The scheduler, the master list and every join in progress keep agreeing,
\* whatever threads are created, resumed, detached, joined or exit.
THEOREM ThreadInvariant == Spec /\ AssertsHold => []OwnInv
  <1>1. Init => OwnInv
    <2> SUFFICES ASSUME Init PROVE OwnInv
      BY ZenonT(60)
    <2>1. \A t \in Thread : ~Busy(t)
      BY ZenonT(60) DEF Init, Busy
    <2> QED
      BY <2>1, OrderHolds, InitInv, ZenonT(60) DEF OwnInv, HandleOK
  <1>2. OwnInv /\ [Next]_vars /\ [SharedHandles => JoinAsserts]_vars => OwnInv'
    BY OwnStep, ZenonT(60)
  <1> QED
    BY <1>1, <1>2, PTL DEF Spec, AssertsHold

\* Every variable of the thread code keeps its type.
THEOREM ThreadTypes == Spec /\ AssertsHold => []TypeOK
  <1>1. OwnInv => TypeOK
    BY ZenonT(60) DEF OwnInv, ThreadInv, SchedInv, HandleTypes, TypeOK
  <1> QED
    BY <1>1, ThreadInvariant, PTL

\* Run queues, bitmap, wait queues and thread states always agree (the
\* THREAD_CHECKS asserts of thread.c).
THEOREM ThreadQueues == Spec /\ AssertsHold => []QueuesCoherent
  <1>1. OwnInv => QueuesCoherent
    BY ZenonT(60) DEF OwnInv, ThreadInv, SchedInv, QueuesCoherent
  <1> QED
    BY <1>1, ThreadInvariant, PTL

\* A thread's critical section count is its own nesting plus the sections of
\* the calls it is in, across every switch of thread_resched().
THEOREM ThreadSections == Spec /\ AssertsHold => []CriticalSectionsBalanced
  <1>1. OwnInv => CriticalSectionsBalanced
    BY ZenonT(60) DEF OwnInv, ThreadInv, SchedInv, CriticalSectionsBalanced
  <1> QED
    BY <1>1, ThreadInvariant, PTL

\* No timer on the stack of thread_sleep() or wait_queue_block() is armed when
\* that function has returned.
THEOREM ThreadTimers == Spec /\ AssertsHold => []NoTimerOutlivesItsFrame
  <1>1. OwnInv => NoTimerOutlivesItsFrame
    BY ZenonT(60)
       DEF OwnInv, ThreadInv, SchedInv, SleepTimers, TimersOK, NoTimerOutlivesItsFrame
  <1> QED
    BY <1>1, ThreadInvariant, PTL

\* A joiner whose handle nobody has used up finds the thread it was woken for
\* dead and still allocated.
THEOREM ThreadOwnJoin == Spec /\ AssertsHold => []OwnJoinFindsDeadThread
  <1>1. OwnInv => OwnJoinFindsDeadThread
    BY ZenonT(60) DEF OwnInv, ThreadInv
  <1> QED
    BY <1>1, ThreadInvariant, PTL

\* Nobody is left blocked in thread_join() on a thread that is gone, detached
\* or past waking its joiners.
THEOREM ThreadJoiners == Spec /\ AssertsHold => []NoJoinerForgotten
  <1>1. OwnInv => NoJoinerForgotten
    BY ZenonT(60) DEF OwnInv, ThreadInv
  <1> QED
    BY <1>1, ThreadInvariant, PTL

\* thread_resched() hands the processor to a thread of the highest priority
\* that is ready.
THEOREM ThreadPriority == Spec /\ AssertsHold => HighestPriorityRuns
  <1>1. OwnInv /\ [Next]_vars /\ [SharedHandles => JoinAsserts]_vars
          => [current_thread' # current_thread =>
                \A t \in Thread : state'[t] = "READY" =>
                  priority'[t] <= priority'[current_thread']]_vars
    BY OwnStep, ZenonT(60) DEF HandsOver
  <1> QED
    BY <1>1, ThreadInvariant, PTL DEF Spec, AssertsHold, HighestPriorityRuns

\* When only its creator uses the handle of a thread, every joiner that is
\* woken without an error, and every thread_detach() of a dead thread, finds it
\* dead and allocated: the ASSERTs of thread_join() cannot fail, and the
\* theorems above hold without a condition.
THEOREM ThreadOwnHandles ==
  ASSUME ~SharedHandles
  PROVE  Spec => []JoinFindsDeadThread /\ AssertsHold
  <1>1. [Next]_vars => [SharedHandles => JoinAsserts]_vars
    BY ZenonT(60)
  <1>2. Spec => AssertsHold
    BY <1>1, PTL DEF Spec, AssertsHold
  <1>3. OwnInv => JoinFindsDeadThread
    BY OwnHandleFinds, ZenonT(60) DEF OwnInv
  <1> QED
    BY <1>2, <1>3, ThreadInvariant, PTL
=============================================================================
