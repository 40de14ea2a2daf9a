----------------------------- MODULE BlockStore ------------------------------
(***************************************************************************)
(* What lib/bcache promises its callers over a device that may fail to     *)
(* write: reads return what was written last, blocks reach the device in   *)
(* any order and perhaps torn, and a flush that succeeds has written all.  *)
(***************************************************************************)
EXTENDS Integers

VARIABLES
  view,      \* block -> byte -> what a reader of the cache is given
  durable,   \* block -> byte -> what the device holds
  pending,   \* blocks changed through a pointer and not yet marked dirty
  last       \* the last call: [op, block, ok, value]

vars == <<view, durable, pending, last>>

Init == view = durable /\ pending = {}

\* Some bytes of some blocks are written to the device, or none.
WriteBack ==
  \/ durable' = durable
  \/ LET old == durable  new == durable'  seen == view
     IN  \A b \in DOMAIN old : \A i \in DOMAIN old[b] : new[b][i] \in {old[b][i], seen[b][i]}

\* The caller sees what was written last, whatever is evicted for it; a block
\* may be marked dirty, and a flush that succeeds has written all others.
Call ==
  /\ last'.op \in {"read", "call", "flush"}
  /\ last'.op = "read" => last'.value = view[last'.block]
  /\ last'.op = "flush" =>
       LET new == durable'  seen == view
       IN  \A b \in DOMAIN seen \ pending : new[b] = seen[b]
  /\ view' = view /\ WriteBack
  /\ pending' = pending \/ \E b \in pending : pending' = pending \ {b}

\* The caller writes through the pointer it was given.
Modify ==
  /\ last'.op = "modify"
  /\ view' = [view EXCEPT ![last'.block] = last'.value]
  /\ pending' = pending \union {last'.block}
  /\ UNCHANGED durable

Zero ==
  /\ last'.op = "zero"
  /\ view' = [view EXCEPT ![last'.block] = [i \in DOMAIN @ |-> 0]]
  /\ WriteBack /\ UNCHANGED pending

\* The cache is given up, with what it had not written.
Discard ==
  /\ last'.op = "destroy"
  /\ view' = durable
  /\ UNCHANGED <<durable, pending>>

\* Somebody else uses the device while there is no cache.
Raw ==
  /\ last'.op = "raw" /\ view = durable
  /\ view' = durable' /\ UNCHANGED pending

Next == Call \/ Modify \/ Zero \/ Discard \/ Raw

Spec == Init /\ [][Next]_vars
=============================================================================
