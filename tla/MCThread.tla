------------------------------ MODULE MCThread -------------------------------
(* Thread for TLC: threads other than the idle one are interchangeable.    *)
EXTENDS Thread, TLC

Workers == Permutations(Thread \ {IdleThread})

\* Arguments that thread_set_priority clamps to either end of the range.
OutOfRange == {LOWEST_PRIORITY - 1, HIGHEST_PRIORITY + 1}
=============================================================================
