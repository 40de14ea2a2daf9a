-------------------------------- MODULE Cbuf ---------------------------------
(***************************************************************************)
(* The circular buffer (lib/cbuf/cbuf.c) on top of the event and the       *)
(* scheduler: threads read, with or without blocking, and write, and a     *)
(* serial interrupt writes single characters and asks for a reschedule.    *)
(*                                                                         *)
(* A call opens a critical section of its own (depth of the scheduler) and *)
(* makes the calls of module Event inside it, so that a read blocks with   *)
(* the section open.  The steps of a call outside of the wait follow each  *)
(* other with interrupts disabled.                                         *)
(* Bytes are numbered in the order they are offered, modulo Serial.        *)
(***************************************************************************)
EXTENDS Event

CONSTANTS
  LEN,       \* valpow2(len_pow2)
  WriteLen,  \* bound: lengths given to cbuf_write
  ReadLen    \* bound: lengths given to cbuf_read, 1 for cbuf_read_char

ASSUME CbufAssumption ==
  /\ LEN \in Nat \ {0, 1}
  /\ WriteLen \subseteq 1 .. (LEN - 1)
  /\ ReadLen \subseteq Nat \ {0}

VARIABLES
  head, tail, buf,
  sent,    \* number of the next byte to be accepted
  wanted,  \* number of the next byte to be read
  call     \* thread -> what it does next in its call, and the length

dataVars == <<head, tail, buf, sent, wanted>>
cbufVars == <<dataVars, call>>
allVars == <<vars, cbufVars>>

Index == 0 .. (LEN - 1)
Serial == 2 * LEN

CbufInit ==
  /\ Init /\ ~signalled /\ ~autounsignal
  /\ head = 0 /\ tail = 0
  /\ buf = [i \in Index |-> 0]
  /\ sent = 0 /\ wanted = 0
  /\ call = [t \in Thread |-> [does |-> "none", len |-> 0]]

then(t, does, len) == call' = [call EXCEPT ![t] = [does |-> does, len |-> len]]

-----------------------------------------------------------------------------
INC_POINTER(ptr, inc) == (ptr + inc) % LEN

least(m, n) == IF m < n THEN m ELSE n

used(h) == (h - tail + LEN) % LEN

\* Variant for mutation: the last place is used too.
cbuf_space_avail_all(h) == LEN - used(h)

cbuf_space_avail(h) == LEN - used(h) - 1

\* How much the loop of cbuf_write() accepts of len bytes.
accepted(len) ==
  LET more[n \in 0 .. len] ==
        LET h == INC_POINTER(head, len - n)
            write_len == IF h >= tail THEN least(LEN - h, n)
                         ELSE least(tail - h - 1, n)
        IN  IF n = 0 \/ cbuf_space_avail(h) = 0 \/ write_len = 0 THEN 0
            ELSE write_len + more[n - write_len]
  IN  more[len]

\* n bytes are copied in from head on.
fill(n) ==
  /\ buf' = [i \in Index |-> LET k == (i - head + LEN) % LEN
                             IN  IF k < n THEN (sent + k) % Serial ELSE buf[i]]
  /\ head' = INC_POINTER(head, n)
  /\ sent' = (sent + n) % Serial
  /\ UNCHANGED <<tail, wanted>>

\* A call enters its critical section.
begin(t, does, len) ==
  /\ call[t].does = "none"
  /\ enter_critical_section(t)
  /\ then(t, does, len)
  /\ UNCHANGED <<eventVars, dataVars>>

cbuf_write(t, len, canreschedule) ==
  begin(t, IF canreschedule THEN "fill" ELSE "fill_quiet", len)

\* Variant for mutation: only a reader that found the buffer empty is told.
must_signal_first(n) == head = tail /\ n = LEN - 1

\* The buffer is not empty after n bytes have been added.
must_signal(n) == INC_POINTER(head, n) # tail

cbuf_write_fill(t) ==
  LET n == accepted(call[t].len)
  IN  /\ call[t].does \in {"fill", "fill_quiet"}
      /\ fill(n)
      /\ then(t, "exit", 0)
      /\ \/ /\ must_signal(n) /\ ~signalled
            /\ event_signal(t, call[t].does = "fill")
         \/ /\ ~must_signal(n) \/ signalled
            /\ no_switch(t) /\ UNCHANGED eventVars

\* cbuf_write_char(cbuf, c, false) in an interrupt handler.
cbuf_write_char ==
  /\ irq # "off" /\ ~callback
  /\ cbuf_space_avail(head) > 0
  /\ fill(1)
  /\ \/ ~signalled /\ event_signal_callback
     \/ /\ signalled
        /\ irq' = "INT_RESCHEDULE"
        /\ UNCHANGED <<runVars, waitVars, timeVars, priority, preempted, depth,
                       pc, eventVars>>
  /\ UNCHANGED call

cbuf_read(t, buflen, block) ==
  begin(t, IF block THEN "wait" ELSE "copy", buflen)

cbuf_read_wait(t) ==
  /\ call[t].does = "wait"
  /\ event_wait_timeout(t, "INFINITE")
  /\ then(t, "copy", call[t].len)
  /\ UNCHANGED dataVars

\* Variant for mutation: the event is left signalled.
emptied_never(n) == FALSE

\* "we've emptied the buffer, unsignal the event"
emptied(n) == n > 0 /\ INC_POINTER(tail, n) = head

\* The two passes of the loop read what there is, up to the length asked for.
cbuf_read_copy(t) ==
  LET n == least(used(head), call[t].len)
  IN  /\ call[t].does = "copy"
      /\ tail' = INC_POINTER(tail, n)
      /\ wanted' = (wanted + n) % Serial
      /\ then(t, "exit", 0)
      /\ \/ emptied(n) /\ event_unsignal(t)
         \/ ~emptied(n) /\ no_switch(t) /\ UNCHANGED eventVars
      /\ UNCHANGED <<head, buf, sent>>

cbuf_exit(t) ==
  /\ call[t].does = "exit"
  /\ exit_critical_section(t)
  /\ then(t, "none", 0)
  /\ UNCHANGED <<eventVars, dataVars>>

-----------------------------------------------------------------------------
\* What t does in a call.
CbufStep(t) ==
  \/ cbuf_write_fill(t)
  \/ cbuf_read_wait(t)
  \/ (event_wait_return(t) \/ event_wake(t)) /\ UNCHANGED cbufVars
  \/ cbuf_read_copy(t)
  \/ cbuf_exit(t)

CbufNext ==
  \/ ~callback /\ Irq /\ UNCHANGED <<eventVars, cbufVars>>
  \/ cbuf_write_char
  \/ callback_wake /\ UNCHANGED cbufVars
  \/ \E t \in Thread :
       \/ Return(t) /\ UNCHANGED <<eventVars, cbufVars>>
       \/ call[t].does = "none" /\ thread_sleep(t) /\ UNCHANGED <<eventVars, cbufVars>>
       \/ \E len \in WriteLen, canreschedule \in BOOLEAN : cbuf_write(t, len, canreschedule)
       \/ \E len \in ReadLen, block \in BOOLEAN : cbuf_read(t, len, block)
       \/ CbufStep(t)

CbufSpec == CbufInit /\ [][CbufNext]_allVars

\* The processor keeps executing kernel code, and the periodic interrupt stays
\* pending until it is taken; a call goes on with interrupts disabled.
CbufFairSpec ==
  /\ CbufSpec
  /\ SF_allVars(irq_enter /\ UNCHANGED <<eventVars, cbufVars>>)
  /\ WF_allVars(irq_exit /\ ~callback /\ UNCHANGED <<eventVars, cbufVars>>)
  /\ WF_allVars(callback_wake /\ UNCHANGED cbufVars)
  /\ \A t \in Thread :
       /\ WF_allVars((Return(t) \/ irq_return(t)) /\ UNCHANGED <<eventVars, cbufVars>>)
       /\ WF_allVars(CbufStep(t))

-----------------------------------------------------------------------------
(* Properties                                                              *)

\* What is in the buffer is what was accepted and has not been read, in that
\* order: "if it's full, abort and return how much we've written".
BytesInOrder ==
  /\ used(head) = (sent - wanted + Serial) % Serial
  /\ \A k \in 0 .. (used(head) - 1) :
       buf[(tail + k) % LEN] = (wanted + k) % Serial

\* Whenever interrupts are enabled the event is signalled exactly when there
\* is something to read, though every reader and writer updates both.
SignalledIfReadable ==
  critical_section_count = 0 => (signalled <=> head # tail)

\* A reader that blocks comes back once there is something to read, though
\* another reader may have taken it by then.
BlockedReaderReturns == \A t \in Thread :
  pc[t] = "wait" /\ head # tail ~> pc[t] # "wait"
=============================================================================
