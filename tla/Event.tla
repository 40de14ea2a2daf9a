-------------------------------- MODULE Event --------------------------------
(***************************************************************************)
(* The event of the LK kernel (kernel/event.c) on top of the scheduler.    *)
(*                                                                         *)
(* A wait on a signalled event returns at once, and takes the signal away  *)
(* if the event is an auto-unsignal one.  Signals come from threads, with  *)
(* or without a reschedule, and from timer callbacks, which run inside     *)
(* timer_tick(), do not reschedule and return INT_RESCHEDULE, as the one   *)
(* of gpio_keypad.c does.                                                  *)
(* A wait with a zero timeout on an event that is not signalled changes    *)
(* nothing.                                                                *)
(***************************************************************************)
EXTENDS WaitObject, FiniteSets

ASSUME EventAssumption == IsFiniteSet(Thread)

VARIABLES
  magic,        \* the event is initialised
  signalled,
  autounsignal, \* flags & EVENT_FLAG_AUTOUNSIGNAL
  callback,     \* a timer callback is in the loop of wait_queue_wake_all
  credit        \* auto-unsignal: signals that took effect, less waits let through

eventVars == <<magic, signalled, autounsignal, callback, credit, wait_magic>>
vars == <<schedVars, eventVars>>

Init ==
  /\ SchedInit
  /\ magic = TRUE
  /\ signalled \in BOOLEAN
  /\ autounsignal \in BOOLEAN
  /\ callback = FALSE
  /\ credit = IF signalled /\ autounsignal THEN 1 ELSE 0

\* An event is initialised again with the flags it had.
event_init(t, initial) ==
  /\ no_switch(t) /\ MayDestroy /\ ~magic /\ DestroyIsOver
  /\ magic' = TRUE
  /\ signalled' = initial
  /\ credit' = IF initial /\ autounsignal THEN credit + 1 ELSE credit
  /\ wait_queue_init
  /\ UNCHANGED <<autounsignal, callback>>

\* The signal that is still there is taken away or spent.
take_signal == credit' = IF signalled /\ autounsignal THEN credit - 1 ELSE credit

event_destroy(t) ==
  /\ MayDestroy
  /\ Calls(t) /\ magic
  /\ magic' = FALSE
  /\ signalled' = FALSE
  /\ take_signal
  /\ wait_queue_destroy(t)
  /\ UNCHANGED <<autounsignal, callback>>

event_destroy_return(t) ==
  /\ wait_queue_destroy_return(t)
  /\ UNCHANGED <<magic, signalled, autounsignal, callback, credit>>

-----------------------------------------------------------------------------
event_wait_timeout(t, timeout) ==
  /\ Calls(t) /\ magic
  /\ \/ /\ signalled
        /\ signalled' = ~autounsignal
        /\ take_signal
        /\ UNCHANGED schedVars
     \/ /\ ~signalled
        /\ wait_queue_block(wait, timeout, critical_section_count + 1)
        /\ goto(t, "wait")
        /\ UNCHANGED <<ctlVars, signalled, credit>>
  /\ UNCHANGED <<magic, autounsignal, callback, wait_magic>>

event_wait_return(t) ==
  /\ Running(t) /\ pc[t] = "wait"
  /\ wait_queue_unblocked(t)
  /\ leave(t, 2)
  /\ credit' = IF autounsignal /\ wait_queue_block_ret[t] = "NO_ERROR"
               THEN credit - 1 ELSE credit
  /\ UNCHANGED <<ctlVars, magic, signalled, autounsignal, callback, wait_magic>>

event_unsignal(t) ==
  /\ no_switch(t) /\ magic
  /\ signalled' = FALSE
  /\ take_signal
  /\ UNCHANGED <<magic, autounsignal, callback, wait_magic>>

-----------------------------------------------------------------------------
\* Variant for mutation: an auto-unsignal event stays signalled though it
\* woke a thread.
signalled_always(woken) == TRUE

\* Variant for mutation: a signal that wakes nobody is not remembered.
signalled_never(woken) == ~autounsignal

\* The signal stays unless an auto-unsignal event has woken a thread.
signalled_after(woken) == ~autounsignal \/ ~woken

\* What event_signal() of an event that is not signalled does to the event.
signal ==
  /\ magic /\ ~signalled
  /\ signalled' = signalled_after(wait_list[wait] # <<>>)
  /\ credit' = IF autounsignal THEN credit + 1 ELSE credit
  /\ UNCHANGED <<magic, autounsignal, wait_magic>>

event_signal(t, reschedule) ==
  /\ Calls(t)
  /\ signal
  /\ \/ /\ wait_list[wait] = <<>>
        /\ UNCHANGED schedVars
     \/ /\ wait_list[wait] # <<>> /\ autounsignal /\ reschedule
        /\ wake_one_resched(wait, "NO_ERROR", critical_section_count + 1)
        /\ goto(t, "wake")
        /\ UNCHANGED <<timeVars, ctlVars>>
     \/ /\ wait_list[wait] # <<>> /\ autounsignal /\ ~reschedule
        /\ wake_head(wait, "NO_ERROR")
        /\ UNCHANGED <<current_thread, remaining_quantum, critical_section_count,
                       saved_critical_section_count, timeVars, ctlVars, pc>>
     \/ /\ wait_list[wait] # <<>> /\ ~autounsignal
        /\ IF reschedule THEN wake_all_begin
           ELSE UNCHANGED <<current_thread, state, remaining_quantum, run_queue,
                            run_queue_bitmap, saved_critical_section_count>>
        /\ critical_section_count' = critical_section_count + 1
        /\ goto(t, IF reschedule THEN "wake_all" ELSE "wake_quiet")
        /\ UNCHANGED <<waitVars, timeVars, ctlVars>>
  /\ UNCHANGED callback

\* The loop of wait_queue_wake_all() for event_signal() and event_destroy().
event_wake(t) ==
  /\ \/ wake_all_step(t, IF magic THEN "NO_ERROR" ELSE "ERR_OBJECT_DESTROYED")
     \/ wake_all_finish(t, IF magic THEN "wake" ELSE "destroy")
     \/ wake_quiet_finish(t)
  /\ UNCHANGED eventVars

\* A timer callback calls event_signal(e, false) and returns INT_RESCHEDULE.
event_signal_callback ==
  /\ irq # "off" /\ ~callback
  /\ signal
  /\ irq' = "INT_RESCHEDULE"
  /\ \/ /\ wait_list[wait] # <<>> /\ autounsignal
        /\ wake_head(wait, "NO_ERROR")
        /\ UNCHANGED callback
     \/ /\ wait_list[wait] = <<>> \/ ~autounsignal
        /\ callback' = (wait_list[wait] # <<>>)
        /\ UNCHANGED <<state, run_queue, run_queue_bitmap, waitVars>>
  /\ UNCHANGED <<current_thread, remaining_quantum, critical_section_count,
                 saved_critical_section_count, timeVars, priority, preempted,
                 depth, pc>>

\* ... and the loop of wait_queue_wake_all() inside it.
callback_wake ==
  /\ callback /\ wait_list[wait] # <<>>
  /\ wake_head(wait, "NO_ERROR")
  /\ callback' = (wait_list'[wait] # <<>>)
  /\ UNCHANGED <<current_thread, remaining_quantum, critical_section_count,
                 saved_critical_section_count, timeVars, ctlVars, pc, magic,
                 signalled, autounsignal, credit, wait_magic>>

-----------------------------------------------------------------------------
Next ==
  \/ ~callback /\ Irq /\ UNCHANGED eventVars
  \/ event_signal_callback
  \/ callback_wake
  \/ \E t \in Thread :
       \/ (thread_sleep(t) \/ Return(t)) /\ UNCHANGED eventVars
       \/ \E initial \in BOOLEAN : event_init(t, initial)
       \/ event_destroy(t)
       \/ event_destroy_return(t)
       \/ \E timeout \in Timeouts : event_wait_timeout(t, timeout)
       \/ event_wait_return(t)
       \/ event_unsignal(t)
       \/ \E reschedule \in BOOLEAN : event_signal(t, reschedule)
       \/ event_wake(t)

Spec == Init /\ [][Next]_vars

-----------------------------------------------------------------------------
(* Properties                                                              *)

\* t has been let through by a signal and has not run yet.
Handed(t) ==
  pc[t] = "wait" /\ state[t] # "BLOCKED" /\ wait_queue_block_ret[t] = "NO_ERROR"

\* Every variable has its type.
EventTypeOK ==
  /\ TypeOK
  /\ magic \in BOOLEAN
  /\ signalled \in BOOLEAN
  /\ autounsignal \in BOOLEAN
  /\ callback \in BOOLEAN
  /\ credit \in Int

\* Nobody sleeps through a signal: while the event is signalled no thread is
\* blocked on it, except during the very call that is waking them.
NoSignalMissed ==
  signalled => \/ wait_list[wait] = <<>>
               \/ callback
               \/ pc[current_thread] \in {"wake_all", "wake_quiet"}

\* "If EVENT_FLAG_AUTOUNSIGNAL is set ... only one waiting thread is allowed to
\* proceed": each signal that takes effect lets exactly one wait through, be it
\* waiting, timing out at the same time or still to come.
OneWaitPerSignal ==
  autounsignal => credit = Cardinality({t \in Thread : Handed(t)})
                           + (IF signalled THEN 1 ELSE 0)
=============================================================================
