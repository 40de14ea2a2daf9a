----------------------------- MODULE MutexLock -------------------------------
(***************************************************************************)
(* The mutex as a lock: as long as nobody waits with a timeout and nobody  *)
(* destroys it, kernel/mutex.c on top of the scheduler implements module   *)
(* Lock.  The lock has changed hands when the release wakes the next       *)
(* thread, though holder is only set when that thread runs.                *)
(***************************************************************************)
EXTENDS Mutex

\* The threads that have the mutex or have been handed it.
Possessors == {t \in Thread : t \in owns \/ Handed(t)}

\* The member of a set of at most one thread.
only(S) == IF S = {} THEN NULL ELSE CHOOSE t \in S : TRUE

lock_owner == only(Possessors)

L == INSTANCE Lock WITH owner <- lock_owner, queue <- wait_list[wait]

\* One owner at a time, and a release hands the mutex to the thread that has
\* waited longest: nobody overtakes, and nobody waits for a free mutex.
IsLock == L!LockSpec
=============================================================================
