------------------------------- MODULE MCCbuf --------------------------------
(* Cbuf for TLC: threads of one priority.                                  *)
EXTENDS Cbuf

Flat == [t \in Thread |-> IF t = IdleThread THEN IDLE_PRIORITY ELSE 1]
=============================================================================
