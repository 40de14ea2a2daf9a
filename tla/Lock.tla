-------------------------------- MODULE Lock ---------------------------------
(***************************************************************************)
(* What kernel/mutex.c promises to callers that wait without a timeout and *)
(* never destroy the mutex: one owner at a time, and a release hands the   *)
(* lock to the thread that has waited longest.  Module Mutex is shown to   *)
(* implement it; module Heap is built on it.                               *)
(***************************************************************************)
EXTENDS Integers, Sequences

CONSTANTS
  Thread,
  NULL

VARIABLES
  owner,  \* the thread that has the lock, or has been handed it
  queue   \* the threads that wait for it

LockInit == owner = NULL /\ queue = <<>>

Acquire(t) ==
  /\ owner # t /\ \A i \in 1 .. Len(queue) : queue[i] # t
  /\ \/ owner = NULL /\ owner' = t /\ UNCHANGED queue
     \/ owner # NULL /\ queue' = Append(queue, t) /\ UNCHANGED owner

Release(t) ==
  /\ owner = t
  /\ \/ queue = <<>> /\ owner' = NULL /\ UNCHANGED queue
     \/ queue # <<>> /\ owner' = Head(queue) /\ queue' = Tail(queue)

LockNext == \E t \in Thread : Acquire(t) \/ Release(t)

LockSpec == LockInit /\ [][LockNext]_<<owner, queue>>
=============================================================================
