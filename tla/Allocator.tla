------------------------------ MODULE Allocator ------------------------------
(***************************************************************************)
(* What lib/heap promises its callers: an allocation is a range of its own *)
(* inside the memory the heap was given, aligned as asked for, and memory  *)
(* is neither lost nor invented by allocating and freeing.                 *)
(***************************************************************************)
EXTENDS Integers

VARIABLES
  memory,  \* the addresses the heap manages
  live     \* allocations that have not been freed: [ptr, len, align]

Bytes(r) == r.ptr .. (r.ptr + r.len - 1)

Init == live = {}

\* r is aligned as its caller asked, and nobody else has any of it.
Granted(r) ==
  /\ Bytes(r) \subseteq memory
  /\ r.align # 0 => r.ptr % r.align = 0
  /\ \A other \in live : Bytes(r) \intersect Bytes(other) = {}

Alloc ==
  /\ \E r \in live' : r \notin live /\ live' = live \union {r} /\ Granted(r)
  /\ UNCHANGED memory

Free ==
  /\ \E r \in live : live' = live \ {r}
  /\ UNCHANGED memory

AddBlock == memory \subseteq memory' /\ memory # memory' /\ UNCHANGED live

Next == Alloc \/ Free \/ AddBlock

Spec == Init /\ [][Next]_<<memory, live>>
=============================================================================
