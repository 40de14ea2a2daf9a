------------------------------- MODULE Thread --------------------------------
(***************************************************************************)
(* The life of a thread (kernel/thread.c): create, resume, detach, join,   *)
(* exit, and the boot code (top/main.c) that turns into the idle thread.   *)
(*                                                                         *)
(* A thread structure is known by a handle: the thread that created a      *)
(* thread resumes and joins it, and it forgets the handle once it is used  *)
(* up.  With SharedHandles = FALSE only that thread detaches it; with TRUE *)
(* any thread, the detached one included, may do so as long as the thread  *)
(* exists and nobody else has.                                             *)
(* The value a thread returns is left out; malloc() and free() are         *)
(* external, an allocation that fails changes nothing.                     *)
(***************************************************************************)
EXTENDS Scheduler

CONSTANTS
  SharedHandles,
  CreatePriority,  \* bound: priorities given to thread_create
  SetPriority      \* bound: arguments of thread_set_priority

ASSUME ThreadAssumption ==
  /\ CreatePriority \subseteq Priority
  /\ SetPriority \subseteq Int
  /\ Thread \subseteq WaitQueue
  /\ NULL \notin Thread
  /\ SharedHandles \in BOOLEAN

VARIABLES
  thread_list,  \* structures on the master list, magic set
  detached,     \* threads with THREAD_FLAG_DETACHED
  arg,          \* the thread a caller's join, detach or resume is about
  owner         \* who holds the handle of a thread

threadVars == <<thread_list, detached, arg, owner>>
vars == <<schedVars, threadVars>>

retcode_wait_queue(t) == t

\* Critical sections entered by the call a thread is in, per label.
Frames ==
  [user |-> 0, start |-> 1, yield |-> 1, sleep |-> 1, wake |-> 1, resume |-> 2,
   join |-> 2, detach_wake |-> 1, detach_join |-> 0, dar_wake |-> 1,
   dar_resume |-> 0, exit_wake |-> 1, dead |-> 1, become_idle |-> 0]

\* The bootstrap thread still runs lk_main().
Booting == depth[IdleThread] = 1

\* c makes a call that concerns t; the boot code only starts threads.
Handles(c, t) ==
  \/ Calls(c)
  \/ c = IdleThread /\ InUser(c) /\ Booting /\ state[t] \in {"FREE", "SUSPENDED"}

-----------------------------------------------------------------------------
\* thread_init_early(), in the critical section lk_main() begins with.
Init ==
  /\ current_thread = IdleThread
  /\ state = [t \in Thread |-> IF t = IdleThread THEN "RUNNING" ELSE "FREE"]
  /\ priority = [t \in Thread |-> HIGHEST_PRIORITY]
  /\ remaining_quantum = [t \in Thread |-> 0]
  /\ run_queue = [p \in Priority |-> <<>>]
  /\ run_queue_bitmap = {}
  /\ critical_section_count = 1
  /\ saved_critical_section_count = [t \in Thread |-> 1]
  /\ wait_list = [q \in WaitQueue |-> <<>>]
  /\ wait_count = [q \in WaitQueue |-> 0]
  /\ blocking_wait_queue = [t \in Thread |-> NULL]
  /\ wait_queue_block_ret = [t \in Thread |-> "NO_ERROR"]
  /\ block_timeout = [t \in Thread |-> "INFINITE"]
  /\ timer = [t \in Thread |-> "none"]
  /\ pc = [t \in Thread |-> IF t = IdleThread THEN "user" ELSE "dead"]
  /\ preempted = {}
  /\ depth = [t \in Thread |-> IF t = IdleThread THEN 1 ELSE 0]
  /\ irq = "off"
  /\ thread_list = {IdleThread}
  /\ detached = {IdleThread}
  /\ arg = [t \in Thread |-> NULL]
  /\ owner = [t \in Thread |-> NULL]

\* Called once every thread the boot code created is on its way.  It leaves
\* the boot critical section, so an interrupt may come in between ...
thread_become_idle ==
  /\ InUser(IdleThread) /\ Booting
  /\ \A t \in Thread : owner[t] = IdleThread => state[t] # "SUSPENDED"
  /\ priority' = [priority EXCEPT ![IdleThread] = IDLE_PRIORITY]
  /\ depth' = [depth EXCEPT ![IdleThread] = 0]
  /\ critical_section_count' = critical_section_count - 1
  /\ goto(IdleThread, "become_idle")
  /\ UNCHANGED <<current_thread, state, remaining_quantum, run_queue,
                 run_queue_bitmap, saved_critical_section_count, waitVars,
                 timeVars, preempted, irq, threadVars>>

\* ... and yields for the first time.
thread_become_idle_yield ==
  /\ Running(IdleThread) /\ pc[IdleThread] = "become_idle"
  /\ yield(state, RunQueue, critical_section_count + 1)
  /\ goto(IdleThread, "yield")
  /\ UNCHANGED <<waitVars, timeVars, ctlVars, threadVars>>

thread_create(c, t, p) ==
  /\ Handles(c, t) /\ state[t] = "FREE"
  /\ state' = [state EXCEPT ![t] = "SUSPENDED"]
  /\ priority' = [priority EXCEPT ![t] = p]
  /\ remaining_quantum' = [remaining_quantum EXCEPT ![t] = 0]
  /\ saved_critical_section_count' =
       [saved_critical_section_count EXCEPT ![t] = 1]
  /\ blocking_wait_queue' = [blocking_wait_queue EXCEPT ![t] = NULL]
  /\ wait_queue_block_ret' = [wait_queue_block_ret EXCEPT ![t] = "NO_ERROR"]
  /\ wait_list' = [wait_list EXCEPT ![retcode_wait_queue(t)] = <<>>]
  /\ wait_count' = [wait_count EXCEPT ![retcode_wait_queue(t)] = 0]
  /\ pc' = [pc EXCEPT ![t] = "start"]
  /\ thread_list' = thread_list \union {t}
  /\ detached' = detached \ {t}
  /\ owner' = [owner EXCEPT ![t] = c]
  /\ UNCHANGED <<current_thread, run_queue, run_queue_bitmap,
                 critical_section_count, timeVars, preempted, depth, irq, arg>>

\* The body of thread_resume(), also the second half of
\* thread_detach_and_resume().
resume(c, t) ==
  /\ state[t] = "SUSPENDED"
  /\ yield([state EXCEPT ![t] = "READY"],
           insert_in_run_queue_head(RunQueue, t), critical_section_count + 2)
  /\ goto(c, "resume")
  /\ arg' = [arg EXCEPT ![c] = NULL]
  /\ owner' = IF t \in detached THEN [owner EXCEPT ![t] = NULL] ELSE owner
  /\ UNCHANGED <<waitVars, timeVars, ctlVars, thread_list, detached>>

thread_resume(c, t) ==
  /\ Handles(c, t) /\ owner[t] = c
  /\ resume(c, t)

\* Variant for mutation: thread_resume() forgets its exit_critical_section().
resume_return_unbalanced(c) ==
  /\ Running(c) /\ pc[c] = "resume"
  /\ leave(c, 1)
  /\ UNCHANGED <<waitVars, timeVars, ctlVars, threadVars>>

thread_resume_return(c) ==
  /\ Running(c) /\ pc[c] = "resume"
  /\ leave(c, 2)
  /\ UNCHANGED <<waitVars, timeVars, ctlVars, threadVars>>

-----------------------------------------------------------------------------
\* thread_detach(), and thread_detach_and_resume() of a suspended thread:
\* first every thread that is blocked in thread_join() is woken.
thread_detach(c, t, label) ==
  /\ Handles(c, t) /\ t \in thread_list /\ t \notin detached
  /\ owner[t] = c \/ SharedHandles
  /\ label = "dar_wake" => owner[t] = c /\ state[t] = "SUSPENDED"
  /\ critical_section_count' = critical_section_count + 1
  /\ arg' = [arg EXCEPT ![c] = t]
  /\ goto(c, label)
  /\ UNCHANGED <<current_thread, state, remaining_quantum, run_queue,
                 run_queue_bitmap, saved_critical_section_count, waitVars,
                 timeVars, ctlVars, thread_list, detached, owner>>

thread_detach_wake(c) ==
  LET wq == retcode_wait_queue(arg[c])
  IN  /\ Running(c) /\ pc[c] \in {"detach_wake", "dar_wake"}
      /\ wait_list[wq] # <<>>
      /\ wake_head(wq, "ERR_THREAD_DETACHED")
      /\ UNCHANGED <<current_thread, remaining_quantum, critical_section_count,
                     saved_critical_section_count, timeVars, ctlVars, pc,
                     threadVars>>

\* ... then a live thread is marked, and for a dead one thread_join() runs.
\* The critical section is left in between.
thread_detach_finish(c) ==
  LET t == arg[c]
  IN  /\ Running(c) /\ pc[c] \in {"detach_wake", "dar_wake"}
      /\ woken_all(retcode_wait_queue(t))
      /\ critical_section_count' = critical_section_count - 1
      /\ \/ /\ state[t] = "DEATH"
            /\ detached' = detached \ {t}
            /\ goto(c, "detach_join")
            /\ UNCHANGED owner
         \/ /\ state[t] # "DEATH"
            /\ detached' = detached \union {t}
            /\ goto(c, IF pc[c] = "dar_wake" THEN "dar_resume" ELSE "user")
            /\ owner' = IF state[t] = "SUSPENDED" THEN owner
                        ELSE [owner EXCEPT ![t] = NULL]
      /\ arg' = IF pc'[c] = "user" THEN [arg EXCEPT ![c] = NULL] ELSE arg
      /\ UNCHANGED <<current_thread, state, remaining_quantum, run_queue,
                     run_queue_bitmap, saved_critical_section_count, waitVars,
                     timeVars, ctlVars, thread_list>>

thread_detach_and_resume_finish(c) ==
  /\ Running(c) /\ pc[c] = "dar_resume"
  /\ resume(c, arg[c])

-----------------------------------------------------------------------------
\* The end of thread_join(): t leaves the master list and is freed.
reap(t) ==
  /\ state' = [state EXCEPT ![t] = "FREE"]
  /\ thread_list' = thread_list \ {t}
  /\ owner' = [owner EXCEPT ![t] = NULL]
  /\ UNCHANGED detached

\* thread_join() of a thread that is already dead, called by the user or by
\* thread_detach().  One of a detached thread, or of a live one with a zero
\* timeout, returns an error and changes nothing.
thread_join_dead(c) ==
  \E t \in Thread :
    /\ \/ Calls(c) /\ owner[t] = c
       \/ Running(c) /\ pc[c] = "detach_join" /\ t = arg[c]
    /\ t \notin detached /\ state[t] = "DEATH"
    /\ reap(t)
    /\ goto(c, "user")
    /\ arg' = [arg EXCEPT ![c] = NULL]
    /\ UNCHANGED <<current_thread, remaining_quantum, run_queue,
                   run_queue_bitmap, critical_section_count,
                   saved_critical_section_count, waitVars, timeVars, ctlVars>>

thread_join(c, t, timeout) ==
  /\ Calls(c) /\ owner[t] = c
  /\ t \notin detached /\ state[t] # "DEATH"
  /\ wait_queue_block(retcode_wait_queue(t), timeout,
                      critical_section_count + 1)
  /\ arg' = [arg EXCEPT ![c] = t]
  /\ goto(c, "join")
  /\ UNCHANGED <<ctlVars, thread_list, detached, owner>>

thread_join_return(c) ==
  /\ Running(c) /\ pc[c] = "join"
  /\ wait_queue_unblocked(c)
  /\ critical_section_count' = critical_section_count - 2
  /\ goto(c, "user")
  /\ arg' = [arg EXCEPT ![c] = NULL]
  /\ \/ wait_queue_block_ret[c] = "NO_ERROR" /\ reap(arg[c])
     \/ wait_queue_block_ret[c] # "NO_ERROR"
        /\ UNCHANGED <<state, thread_list, detached, owner>>
  /\ UNCHANGED <<current_thread, remaining_quantum, run_queue,
                 run_queue_bitmap, saved_critical_section_count, ctlVars>>

-----------------------------------------------------------------------------
forget_handles(c) == [t \in Thread |-> IF owner[t] = c THEN NULL ELSE owner[t]]

\* thread_exit() of a detached thread: it frees itself and switches away.  A
\* thread has left the critical sections of its own code when it exits.
thread_exit_detached(c) ==
  /\ Calls(c) /\ depth[c] = 0 /\ c \in detached
  /\ thread_list' = thread_list \ {c}
  /\ thread_resched([state EXCEPT ![c] = "FREE"], remaining_quantum, RunQueue,
                    critical_section_count + 1)
  /\ goto(c, "dead")
  /\ owner' = forget_handles(c)
  /\ UNCHANGED <<waitVars, timeVars, ctlVars, detached, arg>>

\* thread_exit() otherwise: every joiner is woken before the switch.
thread_exit(c) ==
  /\ Calls(c) /\ depth[c] = 0 /\ c \notin detached
  /\ state' = [state EXCEPT ![c] = "DEATH"]
  /\ critical_section_count' = critical_section_count + 1
  /\ goto(c, "exit_wake")
  /\ owner' = forget_handles(c)
  /\ UNCHANGED <<current_thread, remaining_quantum, run_queue,
                 run_queue_bitmap, saved_critical_section_count, waitVars,
                 timeVars, ctlVars, thread_list, detached, arg>>

thread_exit_wake(c) ==
  LET wq == retcode_wait_queue(c)
  IN  /\ Running(c) /\ pc[c] = "exit_wake" /\ wait_list[wq] # <<>>
      /\ wake_head(wq, "NO_ERROR")
      /\ UNCHANGED <<current_thread, remaining_quantum, critical_section_count,
                     saved_critical_section_count, timeVars, ctlVars, pc,
                     threadVars>>

thread_exit_finish(c) ==
  /\ Running(c) /\ pc[c] = "exit_wake"
  /\ woken_all(retcode_wait_queue(c))
  /\ thread_resched(state, remaining_quantum, RunQueue, critical_section_count)
  /\ goto(c, "dead")
  /\ UNCHANGED <<waitVars, timeVars, ctlVars, threadVars>>

-----------------------------------------------------------------------------
Next ==
  \/ Irq /\ UNCHANGED threadVars
  \/ thread_become_idle
  \/ thread_become_idle_yield
  \/ \E c \in Thread :
       \/ (\/ thread_yield(c)
           \/ thread_sleep(c)
           \/ Return(c)
           \/ enter_critical_section(c)
           \/ exit_critical_section(c)
           \/ \E p \in SetPriority : thread_set_priority(c, p)) /\ UNCHANGED threadVars
       \/ \E t \in Thread, p \in CreatePriority : thread_create(c, t, p)
       \/ \E t \in Thread : thread_resume(c, t)
       \/ thread_resume_return(c)
       \/ \E t \in Thread, label \in {"detach_wake", "dar_wake"} :
            thread_detach(c, t, label)
       \/ thread_detach_wake(c)
       \/ thread_detach_finish(c)
       \/ thread_detach_and_resume_finish(c)
       \/ \E t \in Thread, timeout \in {"FINITE", "INFINITE"} :
            thread_join(c, t, timeout)
       \/ thread_join_dead(c)
       \/ thread_join_return(c)
       \/ thread_exit_detached(c)
       \/ thread_exit(c)
       \/ thread_exit_wake(c)
       \/ thread_exit_finish(c)

Spec == Init /\ [][Next]_vars

-----------------------------------------------------------------------------
(* Properties                                                              *)

\* Every variable has its type.
TypeOK ==
  /\ SchedTypeOK
  /\ pc \in [Thread -> DOMAIN Frames]
  /\ thread_list \in SUBSET Thread
  /\ detached \in SUBSET Thread
  /\ arg \in [Thread -> Thread \union {NULL}]
  /\ owner \in [Thread -> Thread \union {NULL}]

\* Run queues, bitmap, wait queues and thread states always agree, whatever
\* wakes, times out, preempts or kills a thread (the THREAD_CHECKS asserts).
QueuesCoherent == RunQueueCoherent /\ WaitQueueCoherent /\ OneRunningThread

\* thread_resched() restores the critical section count of the thread it
\* switches to: at every point a thread's count is its own nesting plus the
\* sections of the calls it is in, so interrupts are enabled again exactly
\* when a thread has left all of its sections.
CriticalSectionsBalanced == Balanced(Frames)

\* A timer lives on the stack of thread_sleep() or wait_queue_block(): none is
\* still armed when that function has returned.
NoTimerOutlivesItsFrame == \A t \in Thread :
  /\ timer[t] = "sleep" <=> state[t] = "SLEEPING"
  /\ timer[t] = "sleep" => pc[t] = "sleep"
  /\ timer[t] = "timeout" => pc[t] = "join" /\ block_timeout[t] = "FINITE"

\* c goes on in thread_join() for a thread that has died.
Reaping(c) ==
  \/ pc[c] = "detach_join"
  \/ /\ pc[c] = "join" /\ state[c] # "BLOCKED"
     /\ wait_queue_block_ret[c] = "NO_ERROR"

FindsDeadThread(c) == arg[c] \in thread_list /\ state[arg[c]] = "DEATH"

\* A joiner that was woken without an error, and a thread_detach() that goes
\* on into thread_join(), find the thread dead and still allocated (the
\* ASSERTs in thread_join on magic and state).
JoinFindsDeadThread == \A c \in Thread : Reaping(c) => FindsDeadThread(c)

\* The same of a caller whose handle nobody else has used up in between: with
\* shared handles, the thread it is about to free is dead and allocated.
OwnJoinFindsDeadThread == \A c \in Thread :
  Reaping(c) /\ owner[arg[c]] = c => FindsDeadThread(c)

\* Nobody is left blocked in thread_join() on a thread that cannot wake it any
\* more: one that is gone, is detached, or has died and done its waking.
NoJoinerForgotten == \A c \in Thread :
  state[c] = "BLOCKED" /\ pc[c] = "join" =>
    /\ arg[c] \in thread_list \ detached
    /\ state[arg[c]] # "DEATH" \/ pc[arg[c]] = "exit_wake"

\* The processor is only ever given to a thread of the highest priority that
\* is ready at the switch.
HighestPriorityRuns ==
  [][current_thread' # current_thread =>
       \A t \in Thread : state'[t] = "READY" =>
         priority'[t] <= priority'[current_thread']]_vars
=============================================================================
