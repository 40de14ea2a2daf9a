------------------------------ MODULE Scheduler ------------------------------
(***************************************************************************)
(* The uniprocessor scheduler of the LK kernel (kernel/thread.c): priority *)
(* run queues and their bitmap, context switches, nested critical          *)
(* sections, wait queues with timeouts, sleeping, and the periodic timer   *)
(* interrupt that expires quanta and preempts.                             *)
(*                                                                         *)
(* The module holds the state and the internal routines; Thread, Mutex,    *)
(* Semaphore and Event extend it with the calls of their source file.      *)
(*                                                                         *)
(* Granularity.  Between two changes of critical_section_count to or from  *)
(* zero the processor runs one thread with interrupts disabled, so a call  *)
(* is atomic up to the thread_resched() that switches away from it.  What  *)
(* a thread still has to execute once it is switched back in is named by   *)
(* pc[t]; the action for that label is the code after thread_resched().    *)
(* Loops inside a critical section (waking all the threads of a queue, the *)
(* loop over the due timers) take one step per iteration; nothing else is  *)
(* enabled in between.                                                     *)
(***************************************************************************)
EXTENDS Integers, Sequences, Functions

CONSTANTS
  Thread,           \* thread structures, the bootstrap thread included
  IdleThread,       \* bootstrap_thread, which turns into the idle thread
  WaitQueue,        \* wait queues
  NULL,             \* the null pointer
  HIGHEST_PRIORITY, \* NUM_PRIORITIES - 1
  QUANTUM,          \* the quantum thread_resched gives out (5 in the code)
  MaxNest           \* bound: critical sections a thread opens by itself

ASSUME SchedulerAssumption ==
  /\ IdleThread \in Thread
  /\ NULL \notin WaitQueue
  /\ HIGHEST_PRIORITY \in Nat \ {0}
  /\ QUANTUM \in Nat \ {0}
  /\ MaxNest \in Nat

LOWEST_PRIORITY == 0
IDLE_PRIORITY == LOWEST_PRIORITY
Priority == LOWEST_PRIORITY .. HIGHEST_PRIORITY

\* enum thread_state; "FREE" is a structure that is not allocated.
ThreadState ==
  {"FREE", "SUSPENDED", "READY", "RUNNING", "BLOCKED", "SLEEPING", "DEATH"}

Status == {"NO_ERROR", "ERR_TIMED_OUT", "ERR_OBJECT_DESTROYED",
           "ERR_THREAD_DETACHED"}

\* Timeouts told apart by the code: zero, INFINITE_TIME, anything else.
Timeout == {"ZERO", "FINITE", "INFINITE"}

VARIABLES
  current_thread,
  state,
  priority,
  remaining_quantum,  \* only its sign is read, so it stops at zero
  run_queue,          \* priority -> list of threads, head first
  run_queue_bitmap,   \* the set of priorities whose bit is set
  critical_section_count,
  saved_critical_section_count,
  wait_list,          \* wait queue -> list of blocked threads
  wait_count,         \* wait queue -> its count field
  blocking_wait_queue,
  wait_queue_block_ret,
  block_timeout,      \* the timeout argument of a thread's wait_queue_block
  timer,              \* the one-shot timer on a thread's stack
  pc,                 \* where the thread goes on, see above
  preempted,          \* threads switched out by thread_preempt in platform_irq
  depth,              \* critical sections opened by the thread's own code
  irq                 \* "off", or what the running handler is going to return

runVars  == <<current_thread, state, remaining_quantum, run_queue,
              run_queue_bitmap, critical_section_count,
              saved_critical_section_count>>
waitVars == <<wait_list, wait_count, blocking_wait_queue,
              wait_queue_block_ret>>
timeVars == <<block_timeout, timer>>
ctlVars  == <<priority, preempted, depth, irq>>
schedVars == <<runVars, waitVars, timeVars, ctlVars, pc>>

-----------------------------------------------------------------------------
(* Lists (list.h)                                                          *)

list_add_head(s, t) == <<t>> \o s
list_add_tail(s, t) == Append(s, t)

\* The list s without its element t.
list_delete(s, t) ==
  LET i == CHOOSE i \in 1 .. Len(s) : s[i] = t
  IN  [j \in 1 .. (Len(s) - 1) |-> IF j < i THEN s[j] ELSE s[j + 1]]

-----------------------------------------------------------------------------
(* Run queues                                                              *)

RunQueue == [list |-> run_queue, bitmap |-> run_queue_bitmap]

set_run_queue(rq) ==
  /\ run_queue' = rq.list
  /\ run_queue_bitmap' = rq.bitmap

insert_in_run_queue_head(rq, t) ==
  [list   |-> [rq.list EXCEPT ![priority[t]] = list_add_head(@, t)],
   bitmap |-> rq.bitmap \union {priority[t]}]

insert_in_run_queue_tail(rq, t) ==
  [list   |-> [rq.list EXCEPT ![priority[t]] = list_add_tail(@, t)],
   bitmap |-> rq.bitmap \union {priority[t]}]

\* Variant for mutation: counting zeros from the wrong end.
lowest_bit(bitmap) == CHOOSE p \in bitmap : \A x \in bitmap : p <= x

\* HIGHEST_PRIORITY - __builtin_clz(bitmap) - (32 - NUM_PRIORITIES)
highest_bit(bitmap) == CHOOSE p \in bitmap : \A x \in bitmap : x <= p

\* Variant for mutation: the bit goes though threads are left.
clear_bit_always(bitmap, p, rest) == bitmap \ {p}

\* The bit of a queue that has become empty is cleared.
clear_bit(bitmap, p, rest) == IF rest = <<>> THEN bitmap \ {p} ELSE bitmap

\* Variant for mutation: more than a quantum.
fresh_quantum_off_by_one == QUANTUM + 1

\* What a thread without quantum gets when it is switched to.
fresh_quantum == QUANTUM

\* Pick the next thread and switch to it.  st, quantum, rq and count are the
\* thread states, quanta, run queues and critical section count on entry.
thread_resched(st, quantum, rq, count) ==
  LET next_queue == highest_bit(rq.bitmap)
      newthread  == Head(rq.list[next_queue])
      rest       == Tail(rq.list[next_queue])
      same       == newthread = current_thread
  IN  /\ state' = [st EXCEPT ![newthread] = "RUNNING"]
      /\ run_queue' = [rq.list EXCEPT ![next_queue] = rest]
      /\ run_queue_bitmap' = clear_bit(rq.bitmap, next_queue, rest)
      /\ current_thread' = newthread
      /\ remaining_quantum' =
           IF ~same /\ quantum[newthread] = 0
           THEN [quantum EXCEPT ![newthread] = fresh_quantum]
           ELSE quantum
      /\ saved_critical_section_count' =
           IF same THEN saved_critical_section_count
           ELSE [saved_critical_section_count EXCEPT ![current_thread] = count]
      /\ critical_section_count' =
           IF same THEN count ELSE saved_critical_section_count[newthread]

-----------------------------------------------------------------------------
(* Who may take a step                                                     *)

\* t executes thread code: it is current and no interrupt frame is on top.
Running(t) == current_thread = t /\ t \notin preempted /\ irq = "off"

\* t is between two kernel calls.
InUser(t) == Running(t) /\ pc[t] = "user"

\* t, an ordinary thread, makes its next kernel call.
Calls(t) == t # IdleThread /\ InUser(t)

goto(t, label) == pc' = [pc EXCEPT ![t] = label]

\* The end of a call: the n critical sections it entered are left again.
leave(t, n) ==
  /\ critical_section_count' = critical_section_count - n
  /\ goto(t, "user")
  /\ UNCHANGED <<current_thread, state, remaining_quantum, run_queue,
                 run_queue_bitmap, saved_critical_section_count>>

-----------------------------------------------------------------------------
(* Wait queues                                                             *)

\* Variant for mutation: the status for the woken thread is lost.
dequeue_no_error(wq, t, err) ==
  /\ wait_list' = [wait_list EXCEPT ![wq] = list_delete(@, t)]
  /\ wait_count' = [wait_count EXCEPT ![wq] = @ - 1]
  /\ blocking_wait_queue' = [blocking_wait_queue EXCEPT ![t] = NULL]
  /\ UNCHANGED wait_queue_block_ret

\* t leaves the list of wq with the status err.
dequeue(wq, t, err) ==
  /\ wait_list' = [wait_list EXCEPT ![wq] = list_delete(@, t)]
  /\ wait_count' = [wait_count EXCEPT ![wq] = @ - 1]
  /\ wait_queue_block_ret' = [wait_queue_block_ret EXCEPT ![t] = err]
  /\ blocking_wait_queue' = [blocking_wait_queue EXCEPT ![t] = NULL]

\* The current thread blocks on wq, timeout # "ZERO"; count is the critical
\* section count of the caller, thread_block() enters one more.
wait_queue_block(wq, timeout, count) ==
  LET t == current_thread
  IN  /\ wait_list' = [wait_list EXCEPT ![wq] = list_add_tail(@, t)]
      /\ wait_count' = [wait_count EXCEPT ![wq] = @ + 1]
      /\ blocking_wait_queue' = [blocking_wait_queue EXCEPT ![t] = wq]
      /\ wait_queue_block_ret' = [wait_queue_block_ret EXCEPT ![t] = "NO_ERROR"]
      /\ block_timeout' = [block_timeout EXCEPT ![t] = timeout]
      /\ timer' = IF timeout # "INFINITE" THEN [timer EXCEPT ![t] = "timeout"]
                  ELSE timer
      /\ thread_resched([state EXCEPT ![t] = "BLOCKED"], remaining_quantum,
                        RunQueue, count + 1)

\* Variant for mutation: the timer is not cancelled.
unblocked_keeps_timer(t) ==
  /\ block_timeout' = [block_timeout EXCEPT ![t] = "INFINITE"]
  /\ UNCHANGED <<timer, waitVars>>

\* The rest of wait_queue_block() once t runs again: the timer is cancelled
\* and the local timeout goes out of scope.
wait_queue_unblocked(t) ==
  /\ timer' = IF block_timeout[t] # "INFINITE"
              THEN [timer EXCEPT ![t] = "none"] ELSE timer
  /\ block_timeout' = [block_timeout EXCEPT ![t] = "INFINITE"]
  /\ UNCHANGED waitVars

\* A thread becomes ready, at the head of its run queue.
make_ready(t) ==
  /\ state' = [state EXCEPT ![t] = "READY"]
  /\ set_run_queue(insert_in_run_queue_head(RunQueue, t))

\* wait_queue_wake_one() without a reschedule, and one turn of the loop of
\* wait_queue_wake_all(), on a list that is not empty.
wake_head(wq, err) ==
  LET t == Head(wait_list[wq])
  IN  /\ dequeue(wq, t, err)
      /\ make_ready(t)

\* wait_queue_wake_one() with a reschedule, on a list that is not empty: the
\* current thread goes to the head of its run queue, the woken one before it.
wake_one_resched(wq, err, count) ==
  LET t  == Head(wait_list[wq])
      me == current_thread
      rq == insert_in_run_queue_head(insert_in_run_queue_head(RunQueue, me), t)
  IN  /\ dequeue(wq, t, err)
      /\ thread_resched([state EXCEPT ![me] = "READY", ![t] = "READY"],
                        remaining_quantum, rq, count)

\* Variant for mutation: the loop of wait_queue_wake_all() may stop early.
woken_some(wq) == TRUE

\* The loop of wait_queue_wake_all() ends.
woken_all(wq) == wait_list[wq] = <<>>

\* wait_queue_wake_all() with a reschedule, on a list that is not empty,
\* first puts the current thread on the head of its run queue ...
wake_all_begin ==
  /\ make_ready(current_thread)
  /\ UNCHANGED <<current_thread, remaining_quantum,
                 saved_critical_section_count>>

\* ... and switches when the loop has ended.
wake_all_end ==
  thread_resched(state, remaining_quantum, RunQueue, critical_section_count)

\* thread_unblock_from_wait_queue() of a blocked thread.
thread_unblock_from_wait_queue(t, err) ==
  /\ dequeue(blocking_wait_queue[t], t, err)
  /\ make_ready(t)

-----------------------------------------------------------------------------
(* Calls that only concern the calling thread                              *)

\* Body of thread_yield() with the critical section count it resched's with.
yield(st, rq, count) ==
  LET t == current_thread
  IN  thread_resched([st EXCEPT ![t] = "READY"],
                     [remaining_quantum EXCEPT ![t] = 0],
                     insert_in_run_queue_tail(rq, t), count)

thread_yield(t) ==
  /\ Calls(t)
  /\ yield(state, RunQueue, critical_section_count + 1)
  /\ goto(t, "yield")
  /\ UNCHANGED <<waitVars, timeVars, ctlVars>>

thread_sleep(t) ==
  /\ Calls(t)
  /\ timer' = [timer EXCEPT ![t] = "sleep"]
  /\ thread_resched([state EXCEPT ![t] = "SLEEPING"], remaining_quantum,
                    RunQueue, critical_section_count + 1)
  /\ goto(t, "sleep")
  /\ UNCHANGED <<waitVars, block_timeout, ctlVars>>

\* Variant for mutation: the critical section is not left.
return_unbalanced(t) ==
  /\ Running(t)
  /\ pc[t] \in {"start", "yield", "sleep", "wake"}
  /\ leave(t, 0)
  /\ UNCHANGED <<waitVars, timeVars, ctlVars>>

\* thread_yield(), thread_sleep() and the calls that woke a thread return; a
\* new thread enters initial_thread_func().  Each leaves one critical section.
Return(t) ==
  /\ Running(t)
  /\ pc[t] \in {"start", "yield", "sleep", "wake"}
  /\ leave(t, 1)
  /\ UNCHANGED <<waitVars, timeVars, ctlVars>>

\* Variant for mutation: the argument is stored as it is.
no_clamp(p) == p

clamp(p) == IF p < LOWEST_PRIORITY THEN LOWEST_PRIORITY
            ELSE IF p > HIGHEST_PRIORITY THEN HIGHEST_PRIORITY ELSE p

thread_set_priority(t, p) ==
  /\ Calls(t)
  /\ priority' = [priority EXCEPT ![t] = clamp(p)]
  /\ UNCHANGED <<runVars, waitVars, timeVars, preempted, depth, irq, pc>>

enter_critical_section(t) ==
  /\ Calls(t) /\ depth[t] < MaxNest
  /\ critical_section_count' = critical_section_count + 1
  /\ depth' = [depth EXCEPT ![t] = @ + 1]
  /\ UNCHANGED <<current_thread, state, remaining_quantum, run_queue,
                 run_queue_bitmap, saved_critical_section_count, waitVars,
                 timeVars, priority, preempted, irq, pc>>

exit_critical_section(t) ==
  /\ Calls(t) /\ depth[t] > 0
  /\ critical_section_count' = critical_section_count - 1
  /\ depth' = [depth EXCEPT ![t] = @ - 1]
  /\ UNCHANGED <<current_thread, state, remaining_quantum, run_queue,
                 run_queue_bitmap, saved_critical_section_count, waitVars,
                 timeVars, priority, preempted, irq, pc>>

-----------------------------------------------------------------------------
(* The timer interrupt: platform_irq() around timer_tick()                 *)

\* Interrupts are enabled exactly when the critical section count is zero.
irq_enter ==
  /\ critical_section_count = 0 /\ irq = "off"
  /\ critical_section_count' = critical_section_count + 1
  /\ irq' = "INT_NO_RESCHEDULE"
  /\ UNCHANGED <<current_thread, state, remaining_quantum, run_queue,
                 run_queue_bitmap, saved_critical_section_count, waitVars,
                 timeVars, priority, preempted, depth, pc>>

\* One turn of the loop over the due timers.  Which timers are due is left
\* open: delays and the queue's order are the subject of module Timer.
thread_sleep_handler(t) ==
  /\ irq # "off" /\ timer[t] = "sleep"
  /\ timer' = [timer EXCEPT ![t] = "none"]
  /\ make_ready(t)
  /\ irq' = "INT_RESCHEDULE"
  /\ UNCHANGED <<current_thread, remaining_quantum, critical_section_count,
                 saved_critical_section_count, waitVars, block_timeout,
                 priority, preempted, depth, pc>>

wait_queue_timeout_handler(t) ==
  /\ irq # "off" /\ timer[t] = "timeout"
  /\ timer' = [timer EXCEPT ![t] = "none"]
  /\ \/ /\ state[t] = "BLOCKED"
        /\ thread_unblock_from_wait_queue(t, "ERR_TIMED_OUT")
        /\ irq' = "INT_RESCHEDULE"
     \/ /\ state[t] # "BLOCKED"
        /\ UNCHANGED <<state, run_queue, run_queue_bitmap, waitVars, irq>>
  /\ UNCHANGED <<current_thread, remaining_quantum, critical_section_count,
                 saved_critical_section_count, block_timeout, priority,
                 preempted, depth, pc>>

\* The current thread's quanta after thread_timer_tick().
ticked_quantum ==
  IF current_thread = IdleThread THEN remaining_quantum
  ELSE [remaining_quantum EXCEPT ![current_thread] = IF @ > 0 THEN @ - 1 ELSE 0]

\* Variant for mutation: a thread without quantum goes to the head again.
preempt_to_head(rq, t, quantum) == insert_in_run_queue_head(rq, t)

\* thread_preempt() puts a thread that has quantum left in front.
preempt(rq, t, quantum) ==
  IF quantum > 0 THEN insert_in_run_queue_head(rq, t)
  ELSE insert_in_run_queue_tail(rq, t)

\* The end of timer_tick(): thread_timer_tick(), then thread_preempt() if the
\* handler asks for it, else the return from the interrupt.
irq_exit ==
  LET me         == current_thread
      quantum    == ticked_quantum
      reschedule == \/ irq = "INT_RESCHEDULE"
                    \/ me # IdleThread /\ quantum[me] = 0
  IN  /\ irq # "off"
      /\ irq' = "off"
      /\ \/ /\ reschedule
            /\ thread_resched([state EXCEPT ![me] = "READY"], quantum,
                              preempt(RunQueue, me, quantum[me]),
                              critical_section_count + 1)
            /\ preempted' = preempted \union {me}
         \/ /\ ~reschedule
            /\ remaining_quantum' = quantum
            /\ critical_section_count' = critical_section_count - 1
            /\ UNCHANGED <<current_thread, state, run_queue, run_queue_bitmap,
                           saved_critical_section_count, preempted>>
      /\ UNCHANGED <<waitVars, timeVars, priority, depth, pc>>

\* A preempted thread runs again: thread_preempt() and platform_irq() return.
irq_return(t) ==
  /\ current_thread = t /\ t \in preempted /\ irq = "off"
  /\ preempted' = preempted \ {t}
  /\ critical_section_count' = critical_section_count - 2
  /\ UNCHANGED <<current_thread, state, remaining_quantum, run_queue,
                 run_queue_bitmap, saved_critical_section_count, waitVars,
                 timeVars, priority, depth, irq, pc>>

Irq == irq_enter \/ irq_exit
       \/ \E t \in Thread : \/ thread_sleep_handler(t)
                            \/ wait_queue_timeout_handler(t)
                            \/ irq_return(t)

-----------------------------------------------------------------------------
(* Invariants of the scheduler, shared by the modules that extend it       *)

SchedTypeOK ==
  /\ current_thread \in Thread
  /\ state \in [Thread -> ThreadState]
  /\ priority \in [Thread -> Priority]
  /\ remaining_quantum \in [Thread -> 0 .. QUANTUM]
  /\ run_queue \in [Priority -> Seq(Thread)]
  /\ run_queue_bitmap \in SUBSET Priority
  /\ critical_section_count \in Int
  /\ saved_critical_section_count \in [Thread -> Int]
  /\ wait_list \in [WaitQueue -> Seq(Thread)]
  /\ wait_count \in [WaitQueue -> Int]
  /\ blocking_wait_queue \in [Thread -> WaitQueue \union {NULL}]
  /\ wait_queue_block_ret \in [Thread -> Status]
  /\ block_timeout \in [Thread -> Timeout]
  /\ timer \in [Thread -> {"none", "sleep", "timeout"}]
  /\ preempted \in SUBSET Thread
  /\ depth \in [Thread -> Nat]
  /\ irq \in {"off", "INT_NO_RESCHEDULE", "INT_RESCHEDULE"}

\* With thread states st and priorities pr, a thread is on the run queue of its
\* own priority exactly when it is READY, and only once; a bit of the bitmap is
\* set exactly when its queue is not empty.
RunQueueOK(st, pr, rq) == \A p \in Priority :
  /\ IsInjective(rq.list[p])
  /\ Range(rq.list[p]) = {t \in Thread : st[t] = "READY" /\ pr[t] = p}
  /\ p \in rq.bitmap <=> rq.list[p] # <<>>

\* With thread states st and blocking queues bq, a thread is on the list of the
\* queue it blocks on exactly when it is BLOCKED, and only once; count is the
\* length of the list.
WaitQueueOK(st, bq, wl, wc) ==
  /\ \A q \in WaitQueue :
       /\ IsInjective(wl[q])
       /\ Range(wl[q]) = {t \in Thread : st[t] = "BLOCKED" /\ bq[t] = q}
       /\ wc[q] = Len(wl[q])
  /\ \A t \in Thread : st[t] = "BLOCKED" => bq[t] \in WaitQueue

\* The ASSERTs of insert_in_run_queue_* and thread_resched, and those of the
\* wait queues.
RunQueueCoherent == RunQueueOK(state, priority, RunQueue)
WaitQueueCoherent ==
  WaitQueueOK(state, blocking_wait_queue, wait_list, wait_count)

\* Only the current thread is RUNNING, and thread_resched always finds the
\* idle thread at least.
OneRunningThread ==
  /\ \A t \in Thread : state[t] = "RUNNING" => t = current_thread
  /\ state[IdleThread] \in {"READY", "RUNNING"}

\* What a thread's saved critical section count has to be: the sections it
\* opened itself, those of the calls it is in, and an interrupt frame.
Owed(frames, t) ==
  depth[t] + frames[pc[t]] + (IF t \in preempted THEN 2 ELSE 0)

\* Every context switch restores the count of the thread it switches to.
Balanced(frames) ==
  /\ \A t \in Thread : state[t] # "FREE" /\ t # current_thread =>
       saved_critical_section_count[t] = Owed(frames, t)
  /\ critical_section_count =
       Owed(frames, current_thread) + (IF irq = "off" THEN 0 ELSE 1)

\* The current thread is RUNNING but while it wakes the waiters of a queue
\* after it has died or queued itself; it is not interrupted there.
CurrentRuns ==
  /\ state[current_thread] = CASE pc[current_thread] = "exit_wake" -> "DEATH"
                               [] pc[current_thread] = "wake_all" -> "READY"
                               [] OTHER -> "RUNNING"
  /\ \A t \in Thread : pc[t] \in {"exit_wake", "wake_all"} =>
       t = current_thread /\ irq = "off" /\ t \notin preempted

\* Exactly the sleeping threads have the timer of thread_sleep() armed.
SleepTimers == \A t \in Thread : timer[t] = "sleep" <=> state[t] = "SLEEPING"

\* Interrupts do not nest.
OneInterruptFrame == irq # "off" => current_thread \notin preempted

\* Round robin: a ready thread of the highest priority eventually runs, though
\* the threads beside it spin, and threads that wake go in front of it.
ReadyThreadRuns == \A t \in Thread :
  state[t] = "READY" /\ priority[t] = HIGHEST_PRIORITY ~> state[t] = "RUNNING"

\* Every set of priorities has a highest one, for highest_bit() to find.
PrioritiesOrdered == \A bitmap \in SUBSET Priority :
  bitmap # {} => \E p \in bitmap : \A x \in bitmap : x <= p

\* The inductive invariant of the scheduler, for the calls in frames.
SchedInv(frames) ==
  /\ SchedTypeOK
  /\ PrioritiesOrdered
  /\ pc \in [Thread -> DOMAIN frames]
  /\ RunQueueCoherent
  /\ WaitQueueCoherent
  /\ OneRunningThread
  /\ Balanced(frames)
  /\ CurrentRuns
  /\ SleepTimers
  /\ OneInterruptFrame
=============================================================================
