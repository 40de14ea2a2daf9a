------------------------------- MODULE MCTimer -------------------------------
(* Timer for TLC: timers are interchangeable.                              *)
EXTENDS Timer, TLC

Sym == Permutations(Timer)
=============================================================================
