-------------------------------- MODULE Timer --------------------------------
(***************************************************************************)
(* The kernel's timers (kernel/timer.c) on the tegra tick                  *)
(* (platform/tegra_shared/timer.c): a queue of armed timers sorted by      *)
(* scheduled_time, one-shot and periodic timers, callbacks that set and    *)
(* cancel timers, and a clock that is itself only moved by the periodic    *)
(* interrupt.                                                              *)
(*                                                                         *)
(* Real time advances in steps of one unit; every TICK units the interrupt *)
(* becomes pending, and it is taken up to Latency units later, when        *)
(* critical sections are left.  current_time() is the tick counter, 32     *)
(* bits wide, while scheduled_time is an unsigned long of 64 bits, which   *)
(* delays never bring to overflow.                                         *)
(*                                                                         *)
(* The kernel itself sets timers inside a critical section.  With          *)
(* Preemptible, timers are also set by code that may be interrupted        *)
(* between reading the clock and entering the critical section.            *)
(***************************************************************************)
EXTENDS Integers, Sequences

CONSTANTS
  Timer,
  Delay,        \* delays and periods that callers pass, zero included
  TICK,         \* the interval of the periodic interrupt (10 ms)
  Latency,      \* bound: how long critical sections hold off the interrupt
  WRAP,         \* the tick counter counts modulo this (2^32)
  Horizon,      \* bound: real time stops when the tick counter is here
  Preemptible

ASSUME TimerAssumption ==
  /\ Delay \subseteq Nat
  /\ \E m \in Delay : \A d \in Delay : d <= m  \* lk_time_t is 32 bits wide
  /\ TICK \in Nat \ {0}
  /\ Latency \in 0 .. (TICK - 1)
  /\ WRAP \in Nat \ {0}
  /\ Horizon \in Nat
  /\ Preemptible \in BOOLEAN

VARIABLES
  ticks,        \* the counter behind current_time()
  phase,        \* real time since the last tick became pending
  pending,      \* the interrupt is pending
  in_tick,      \* timer_tick() runs
  timer_queue,  \* the armed timers, head first
  timer,        \* timer -> its fields, and how long ago it was queued (age)
                \* and its delay began (waited)
  setting       \* timers between the two halves of an interruptible timer_set

vars == <<ticks, phase, pending, in_tick, timer_queue, timer, setting>>

TIME_GT(a, b) == a - b > 0
TIME_LT(a, b) == a - b < 0

-----------------------------------------------------------------------------
(* The queue, as operators on a record of timer_queue and timer            *)

Timers == [queue |-> timer_queue, timer |-> timer]

set_timers(s) == timer_queue' = s.queue /\ timer' = s.timer

list_in_list(s, t) == \E i \in 1 .. Len(s.queue) : s.queue[i] = t

list_delete(s, t) ==
  LET i == CHOOSE i \in 1 .. Len(s.queue) : s.queue[i] = t
  IN  [queue |-> [j \in 1 .. (Len(s.queue) - 1) |->
                    IF j < i THEN s.queue[j] ELSE s.queue[j + 1]],
       timer |-> s.timer]

\* Variant for mutation: in front of the first timer that is earlier.
first_earlier(s, t) ==
  CHOOSE i \in 1 .. (Len(s.queue) + 1) :
    /\ i <= Len(s.queue) => TIME_LT(s.timer[s.queue[i]].scheduled_time,
                                    s.timer[t].scheduled_time)
    /\ \A j \in 1 .. (i - 1) : ~TIME_LT(s.timer[s.queue[j]].scheduled_time,
                                       s.timer[t].scheduled_time)

\* Where the walk over the queue ends: at the first timer that is later.
first_later(s, t) ==
  CHOOSE i \in 1 .. (Len(s.queue) + 1) :
    /\ i <= Len(s.queue) => TIME_GT(s.timer[s.queue[i]].scheduled_time,
                                    s.timer[t].scheduled_time)
    /\ \A j \in 1 .. (i - 1) : ~TIME_GT(s.timer[s.queue[j]].scheduled_time,
                                       s.timer[t].scheduled_time)

insert_timer_in_queue(s, t) ==
  LET i == first_later(s, t)
  IN  [queue |-> [j \in 1 .. (Len(s.queue) + 1) |->
                    IF j < i THEN s.queue[j]
                    ELSE IF j = i THEN t ELSE s.queue[j - 1]],
       timer |-> [s.timer EXCEPT ![t].age = 0]]

\* Variant for mutation: the delay is rounded the wrong way.
one_less(delay) == delay - 1

\* timer_set_oneshot() and timer_set_periodic() turn a delay of zero into one.
at_least_one(delay) == IF delay = 0 THEN 1 ELSE delay

\* The fields timer_set() fills in, from the clock at this moment.
fill(s, t, delay, periodic) ==
  [s EXCEPT !.timer[t] = [@ EXCEPT
     !.scheduled_time = ticks + at_least_one(delay),
     !.delay = at_least_one(delay),
     !.cancelled = FALSE,
     !.waited = 0,
     !.periodic_time = IF periodic THEN at_least_one(delay) ELSE 0]]

timer_set(s, t, delay, periodic) ==
  insert_timer_in_queue(fill(s, t, delay, periodic), t)

timer_cancel(s, t) ==
  [IF list_in_list(s, t) THEN list_delete(s, t) ELSE s
     EXCEPT !.timer[t] = [@ EXCEPT !.periodic_time = 0, !.cancelled = TRUE]]

-----------------------------------------------------------------------------
MaxDelay == at_least_one(CHOOSE m \in Delay : \A d \in Delay : d <= m)

\* Ages above every delay and the latest tick after it are not told apart.
AgeCap == TICK + Latency + MaxDelay

older(age) == IF age < AgeCap THEN age + 1 ELSE age

Init ==
  /\ ticks = 0
  /\ phase = 0
  /\ pending = FALSE
  /\ in_tick = FALSE
  /\ timer_queue = <<>>
  /\ timer = [t \in Timer |-> [scheduled_time |-> 0, periodic_time |-> 0,
                               delay |-> 0, age |-> 0, waited |-> 0,
                               cancelled |-> FALSE]]
  /\ setting = {}

\* A unit of real time passes.
elapse ==
  /\ ~in_tick /\ ticks < Horizon
  /\ pending => phase < Latency
  /\ phase' = (phase + 1) % TICK
  /\ pending' = (pending \/ phase + 1 = TICK)
  /\ timer' = [t \in Timer |-> [timer[t] EXCEPT
       !.age = IF list_in_list(Timers, t) THEN older(@) ELSE 0,
       !.waited = IF list_in_list(Timers, t) \/ t \in setting THEN older(@) ELSE 0]]
  /\ UNCHANGED <<ticks, in_tick, timer_queue, setting>>

-----------------------------------------------------------------------------
(* Calls from threads                                                      *)

\* Callers only set a timer that is not armed: timer_set() panics otherwise.
Settable(t) == ~list_in_list(Timers, t) /\ t \notin setting

set_timer(t, delay, periodic) ==
  /\ ~in_tick /\ Settable(t)
  /\ set_timers(timer_set(Timers, t, delay, periodic))
  /\ UNCHANGED <<ticks, phase, pending, in_tick, setting>>

\* timer_set() by a caller that can be interrupted: first the fields ...
set_timer_fill(t, delay, periodic) ==
  /\ Preemptible /\ ~in_tick /\ Settable(t)
  /\ set_timers(fill(Timers, t, delay, periodic))
  /\ setting' = setting \union {t}
  /\ UNCHANGED <<ticks, phase, pending, in_tick>>

\* ... then, in the critical section, the queue.
set_timer_insert(t) ==
  /\ ~in_tick /\ t \in setting
  /\ set_timers(insert_timer_in_queue(Timers, t))
  /\ setting' = setting \ {t}
  /\ UNCHANGED <<ticks, phase, pending, in_tick>>

cancel_timer(t) ==
  /\ ~in_tick /\ t \notin setting
  /\ set_timers(timer_cancel(Timers, t))
  /\ UNCHANGED <<ticks, phase, pending, in_tick, setting>>

-----------------------------------------------------------------------------
(* The interrupt: timer_irq() and timer_tick()                             *)

timer_irq ==
  /\ pending /\ ~in_tick
  /\ pending' = FALSE
  /\ in_tick' = TRUE
  /\ ticks' = (ticks + TICK) % WRAP
  /\ UNCHANGED <<phase, timer_queue, timer, setting>>

\* The state s after the callback of t: it may do nothing, cancel or set t,
\* and cancel or set another timer.
callback(s, t) ==
  {s, timer_cancel(s, t)}
  \union {timer_set(s, t, d, p) : d \in Delay, p \in BOOLEAN}
  \union {timer_cancel(s, u) : u \in Timer \ (setting \union {t})}
  \union {timer_set(s, u, d, p) :
            u \in {v \in Timer \ {t} : Settable(v)}, d \in Delay, p \in BOOLEAN}

\* Variant for mutation: the callback's timer_cancel() is overlooked.
must_requeue_cancelled(s, t, periodic) == periodic /\ ~list_in_list(s, t)

\* Variant for mutation: the callback's timer_set() is overlooked.
must_requeue_twice(s, t, periodic) == periodic /\ s.timer[t].periodic_time > 0

\* A periodic timer that the callback has neither set nor cancelled.
must_requeue(s, t, periodic) ==
  periodic /\ ~list_in_list(s, t) /\ s.timer[t].periodic_time > 0

requeue(s, t, periodic) ==
  IF must_requeue(s, t, periodic)
  THEN insert_timer_in_queue(
         [s EXCEPT !.timer[t] = [@ EXCEPT
            !.scheduled_time = ticks + s.timer[t].periodic_time, !.waited = 0]], t)
  ELSE s

\* Variant for mutation: the head fires without a look at its time.
any_armed == timer_queue # <<>>

\* The timer at the head of the queue is due.
Due == timer_queue # <<>> /\
         ~TIME_LT(ticks, timer[Head(timer_queue)].scheduled_time)

\* One turn of the loop of timer_tick().
timer_fire ==
  /\ in_tick /\ Due
  /\ LET t == Head(timer_queue)
         periodic == timer[t].periodic_time > 0
     IN  \E s \in callback(list_delete(Timers, t), t) :
           set_timers(requeue(s, t, periodic))
  /\ UNCHANGED <<ticks, phase, pending, in_tick, setting>>

timer_tick_end ==
  /\ in_tick /\ ~Due
  /\ in_tick' = FALSE
  /\ UNCHANGED <<ticks, phase, pending, timer_queue, timer, setting>>

-----------------------------------------------------------------------------
Next ==
  \/ elapse
  \/ \E t \in Timer, d \in Delay, p \in BOOLEAN :
       set_timer(t, d, p) \/ set_timer_fill(t, d, p)
  \/ \E t \in Timer : set_timer_insert(t) \/ cancel_timer(t)
  \/ timer_irq
  \/ timer_fire
  \/ timer_tick_end

Spec == Init /\ [][Next]_vars

-----------------------------------------------------------------------------
(* Properties                                                              *)

\* Every variable has its type.
TypeOK ==
  /\ ticks \in 0 .. (WRAP - 1)
  /\ phase \in 0 .. (TICK - 1)
  /\ pending \in BOOLEAN
  /\ in_tick \in BOOLEAN
  /\ timer_queue \in Seq(Timer)
  /\ timer \in [Timer -> [scheduled_time : Nat, periodic_time : Nat,
                          delay : Nat, age : Nat, waited : Nat,
                          cancelled : BOOLEAN]]
  /\ setting \in SUBSET Timer

\* The queue is sorted, so that timer_tick() may stop at the first timer that
\* is not due, and holds no timer twice, whatever callbacks set and cancel.
QueueSorted ==
  \A i, j \in 1 .. Len(timer_queue) : i < j =>
    /\ timer_queue[i] # timer_queue[j]
    /\ timer[timer_queue[i]].scheduled_time <= timer[timer_queue[j]].scheduled_time

\* "Timers may be canceled ... from within their callback": a cancelled timer
\* is not armed again before somebody sets it.
CancelSticks == \A t \in Timer :
  timer[t].cancelled => ~list_in_list(Timers, t)

\* A timer is armed no longer than its delay and the granularity of the tick:
\* the timer code never forgets one.
NeverLate == \A t \in Timer :
  list_in_list(Timers, t) => timer[t].age < timer[t].delay + TICK + Latency

\* A timer fires at most a tick, and the latency of the one before, early,
\* counted from the moment the caller's timer_set() has read the clock.
EarlyByAtMostATick ==
  in_tick /\ Due => timer[Head(timer_queue)].waited + TICK + Latency >=
                    timer[Head(timer_queue)].delay
=============================================================================
