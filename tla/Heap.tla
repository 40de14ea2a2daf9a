-------------------------------- MODULE Heap ---------------------------------
(***************************************************************************)
(* The first-fit heap (lib/heap/heap.c): threads allocate, free, add       *)
(* memory and read the statistics, taking theheap.lock once for each chunk *)
(* they put back, and chunks are left on the delayed list from critical    *)
(* sections.  The lock is the one module Mutex implements.                 *)
(*                                                                         *)
(* Addresses are numbers, a chunk is its base and length.  Threads are     *)
(* preempted between any two steps.  A call holds the lock for two steps,  *)
(* the walk through the free list and the update at the place it found.    *)
(***************************************************************************)
EXTENDS Integers, Lock, FiniteSetsExt

CONSTANTS
  HEAP_START, HEAP_LEN,
  POINTER,        \* sizeof(void *)
  BEGIN_SIZE,     \* sizeof(struct alloc_struct_begin)
  CHUNK_SIZE,     \* sizeof(struct free_heap_chunk)
  MIN_ALIGNMENT,  \* 16 in the code
  Request,        \* bound: the sizes and alignments asked for, as pairs
  Block           \* memory that heap_add_block() may add

VARIABLES
  free_list, delayed_free_list,  \* lists of chunks
  remaining, low_watermark,
  allocated,  \* what callers hold: [ptr, len, align], chunk (as->ptr, as->size)
  spare,      \* blocks that have not been added
  call        \* thread -> the call it is in

lockVars == <<owner, queue>>
listVars == <<free_list, remaining, low_watermark>>
vars == <<lockVars, listVars, delayed_free_list, allocated, spare, call>>

ROUNDUP(a, b) == ((a + b - 1) \div b) * b
PowerOfTwo(n) == n = 0 \/ \E k \in 0 .. n : n = 2^k

real_alignment(a) == IF a > 0 /\ a < MIN_ALIGNMENT THEN MIN_ALIGNMENT ELSE a

ASSUME HeapAssumption ==
  /\ NULL \notin Thread
  /\ {HEAP_LEN, POINTER, BEGIN_SIZE, CHUNK_SIZE} \subseteq Nat \ {0}
  /\ HEAP_START \in Nat /\ MIN_ALIGNMENT \in Nat \ {0}
  /\ Request \subseteq Nat \X Nat
  /\ HEAP_LEN >= CHUNK_SIZE
  /\ \A n \in {HEAP_LEN, BEGIN_SIZE, CHUNK_SIZE} : n % POINTER = 0
  \* Powers of two from MIN_ALIGNMENT on are multiples of each other.
  /\ \A r \in Request : PowerOfTwo(r[2]) =>
       /\ real_alignment(r[2]) % POINTER = 0
       /\ r[2] > 0 => real_alignment(r[2]) % r[2] = 0

\* Memory added later has room for a header and is nobody else's.
ASSUME BlockAssumption ==
  LET heap == [base |-> HEAP_START, len |-> HEAP_LEN]
      Bytes(c) == c.base .. (c.base + c.len - 1)
  IN  /\ Block \subseteq [base : Nat, len : Nat] /\ heap \notin Block
      /\ \A b \in Block : b.len >= CHUNK_SIZE /\ b.len % POINTER = 0
      /\ \A b, c \in Block \cup {heap} : b # c => Bytes(b) \intersect Bytes(c) = {}

\* Variant for mutation: nothing is added for the alignment.
chunk_len_unaligned(size, alignment) ==
  ROUNDUP(IF size + BEGIN_SIZE < CHUNK_SIZE THEN CHUNK_SIZE ELSE size + BEGIN_SIZE,
          POINTER)

\* What heap_alloc() looks for when size and alignment are asked of it.
chunk_len(size, alignment) ==
  LET least == IF size + BEGIN_SIZE < CHUNK_SIZE THEN CHUNK_SIZE
               ELSE size + BEGIN_SIZE
  IN  ROUNDUP(least, POINTER) + real_alignment(alignment)

\* A call: its operation and arguments, what it does next, the chunks it has
\* still to insert and the place in the free list its walk has found.
NoCall == [op |-> "none", size |-> 0, align |-> 0, stage |-> "none",
           list |-> <<>>, at |-> 0]

Init ==
  /\ LockInit
  /\ free_list = <<[base |-> HEAP_START, len |-> HEAP_LEN]>>
  /\ delayed_free_list = <<>>
  /\ remaining = HEAP_LEN
  /\ low_watermark = HEAP_LEN
  /\ allocated = {}
  /\ spare = Block
  /\ call = [t \in Thread |-> NoCall]

-----------------------------------------------------------------------------
(* The free list                                                           *)

\* item at place i of the list; at the tail when i is past the end.
list_add_before(list, i, item) ==
  SubSeq(list, 1, i - 1) \o <<item>> \o SubSeq(list, i, Len(list))

list_delete(list, i) == SubSeq(list, 1, i - 1) \o SubSeq(list, i + 1, Len(list))

\* heap_insert_free_chunk() stops before the first chunk above c.
insert_position(c) ==
  LET above == {i \in 1 .. Len(free_list) : c.base < free_list[i].base}
  IN  IF above = {} THEN Len(free_list) + 1 ELSE Min(above)

adjacent(c, d) == c.base + c.len = d.base

\* Variant for mutation: only one of the neighbours is merged.
merge_once(list, i) ==
  IF i > 1 /\ adjacent(list[i - 1], list[i])
  THEN list_delete([list EXCEPT ![i - 1].len = @ + list[i].len], i)
  ELSE IF i < Len(list) /\ adjacent(list[i], list[i + 1])
  THEN list_delete([list EXCEPT ![i].len = @ + list[i + 1].len], i + 1)
  ELSE list

\* try_merge: the chunk at i joins the one before it, and then the one after.
try_merge(list, i) ==
  LET last == i > 1 /\ adjacent(list[i - 1], list[i])
      next == i < Len(list) /\ adjacent(list[i], list[i + 1])
      mid  == list[i].len + IF next THEN list[i + 1].len ELSE 0
      rest == IF next THEN list_delete(list, i + 1) ELSE list
  IN  IF last THEN list_delete([rest EXCEPT ![i - 1].len = @ + mid], i)
      ELSE [rest EXCEPT ![i].len = mid]

\* The walk of heap_alloc(): the first chunk that fits, zero if there is none.
fit_position(len) ==
  LET fits == {i \in 1 .. Len(free_list) : free_list[i].len >= len}
  IN  IF fits = {} THEN 0 ELSE Min(fits)

splits(c, len) == c.len > len + CHUNK_SIZE

\* Variant for mutation: the size asked for is recorded.
taken_len_requested(c, len) == len

\* "the allocated size is actually the length of this chunk, not the size
\* requested"
taken_len(c, len) == IF splits(c, len) THEN len ELSE c.len

\* Where the caller's memory begins in the chunk at base.
user_ptr(base, align) ==
  IF align = 0 THEN base + BEGIN_SIZE
  ELSE ROUNDUP(base + BEGIN_SIZE, real_alignment(align))

-----------------------------------------------------------------------------
(* Calls                                                                   *)

\* The call of t is now c.
set_call(t, c) == call' = [call EXCEPT ![t] = c]

begin(t, c) == call[t] = NoCall /\ set_call(t, c) /\ UNCHANGED <<lockVars, listVars>>

\* Variant for mutation: a wrong alignment is tried again.
after_list_retry(c) ==
  CASE c.op = "stats" \/ (c.op = "alloc" /\ PowerOfTwo(c.align)) ->
         [c EXCEPT !.stage = "lock"]
    [] c.op = "alloc" /\ ~PowerOfTwo(c.align) -> [c EXCEPT !.stage = "flush"]
    [] OTHER -> NoCall

\* What a call does once the chunks on its list are inserted.
after_list(c) ==
  IF c.op = "stats" \/ (c.op = "alloc" /\ PowerOfTwo(c.align))
  THEN [c EXCEPT !.stage = "lock"] ELSE NoCall

\* heap_alloc() and heap_get_stats() look at the delayed list without a lock.
flush(c) == IF delayed_free_list # <<>> THEN [c EXCEPT !.stage = "flush"]
            ELSE after_list(c)

heap_alloc(t, size, align) ==
  /\ begin(t, flush([NoCall EXCEPT !.op = "alloc", !.size = size, !.align = align]))
  /\ UNCHANGED <<delayed_free_list, allocated, spare>>

heap_get_stats(t) ==
  /\ begin(t, flush([NoCall EXCEPT !.op = "stats"]))
  /\ UNCHANGED <<delayed_free_list, allocated, spare>>

\* heap_create_free_chunk() and heap_insert_free_chunk().
insert(chunk) ==
  [NoCall EXCEPT !.op = "insert", !.list = <<chunk>>, !.stage = "lock"]

heap_free(t, a) ==
  /\ begin(t, insert(a.chunk))
  /\ allocated' = allocated \ {a}
  /\ UNCHANGED <<delayed_free_list, spare>>

heap_add_block(t, b) ==
  /\ begin(t, insert(b))
  /\ spare' = spare \ {b}
  /\ UNCHANGED <<delayed_free_list, allocated>>

\* From a thread or an interrupt handler, in a critical section.
heap_delayed_free(a) ==
  /\ delayed_free_list' = <<a.chunk>> \o delayed_free_list
  /\ allocated' = allocated \ {a}
  /\ UNCHANGED <<lockVars, listVars, spare, call>>

\* Variant for mutation: the list is taken over without a critical section,
\* so that what was added since it was looked at is dropped.
delayed_taken_short ==
  IF delayed_free_list = <<>> THEN <<>> ELSE <<Head(delayed_free_list)>>

\* The chunks heap_free_delayed_list() takes over, turned around.
delayed_taken ==
  LET n == Len(delayed_free_list) IN [i \in 1 .. n |-> delayed_free_list[n + 1 - i]]

\* The critical section of heap_free_delayed_list(); another thread may have
\* emptied the list since it was looked at.
heap_free_delayed_list(t) ==
  /\ call[t].stage = "flush"
  /\ delayed_free_list' = <<>>
  /\ set_call(t, IF delayed_taken = <<>> THEN after_list(call[t])
                 ELSE [call[t] EXCEPT !.list = delayed_taken, !.stage = "lock"])
  /\ UNCHANGED <<lockVars, listVars, allocated, spare>>

heap_lock(t) ==
  /\ call[t].stage = "lock"
  /\ Acquire(t)
  /\ set_call(t, [call[t] EXCEPT !.stage = "walk"])
  /\ UNCHANGED <<listVars, delayed_free_list, allocated, spare>>

heap_walk(t) ==
  LET c == call[t]
  IN  /\ c.stage = "walk" /\ owner = t
      /\ set_call(t, [c EXCEPT !.stage = "update",
           !.at = IF c.list # <<>> THEN insert_position(Head(c.list))
                  ELSE IF c.op = "alloc" THEN fit_position(chunk_len(c.size, c.align))
                  ELSE 0])
      /\ UNCHANGED <<lockVars, listVars, delayed_free_list, allocated, spare>>

\* heap_insert_free_chunk() of the first chunk on the list of t's call.
heap_insert_free_chunk(t) ==
  LET c     == call[t]
      chunk == Head(c.list)
      rest  == [c EXCEPT !.list = Tail(@), !.at = 0]
  IN  /\ c.stage = "update" /\ c.list # <<>>
      /\ remaining' = remaining + chunk.len
      /\ free_list' = try_merge(list_add_before(free_list, c.at, chunk), c.at)
      /\ Release(t)
      /\ UNCHANGED low_watermark
      /\ set_call(t, IF rest.list = <<>> THEN after_list(rest)
                     ELSE [rest EXCEPT !.stage = "lock"])
      /\ UNCHANGED <<delayed_free_list, allocated, spare>>

\* heap_alloc() takes the chunk it has found, and splits it.
heap_alloc_take(t) ==
  LET c     == call[t]
      len   == chunk_len(c.size, c.align)
      chunk == free_list[c.at]
      size  == taken_len(chunk, len)
  IN  /\ c.stage = "update" /\ c.list = <<>> /\ c.at > 0
      /\ free_list' = IF splits(chunk, len)
                      THEN [free_list EXCEPT ![c.at] =
                              [base |-> chunk.base + len, len |-> chunk.len - len]]
                      ELSE list_delete(free_list, c.at)
      /\ allocated' = allocated \union
           {[ptr |-> user_ptr(chunk.base, c.align), len |-> c.size, align |-> c.align,
             chunk |-> [base |-> chunk.base, len |-> size]]}
      /\ remaining' = remaining - size
      /\ low_watermark' = Min({low_watermark, remaining'})
      /\ Release(t)
      /\ set_call(t, NoCall)
      /\ UNCHANGED <<delayed_free_list, spare>>

\* heap_alloc() returns NULL, heap_get_stats() its sums.
heap_unlock(t) ==
  /\ call[t].stage = "update" /\ call[t].list = <<>> /\ call[t].at = 0
  /\ Release(t)
  /\ set_call(t, NoCall)
  /\ UNCHANGED <<listVars, delayed_free_list, allocated, spare>>

-----------------------------------------------------------------------------
\* What t does inside a call.
HeapStep(t) ==
  \/ heap_free_delayed_list(t)
  \/ heap_lock(t)
  \/ heap_walk(t)
  \/ heap_insert_free_chunk(t)
  \/ heap_alloc_take(t)
  \/ heap_unlock(t)

Next ==
  \/ \E a \in allocated : heap_delayed_free(a)
  \/ \E t \in Thread :
       \/ \E r \in Request : heap_alloc(t, r[1], r[2])
       \/ heap_get_stats(t)
       \/ \E a \in allocated : heap_free(t, a)
       \/ \E b \in spare : heap_add_block(t, b)
       \/ HeapStep(t)

Spec == Init /\ [][Next]_vars

\* A thread that is in a call keeps being scheduled (ReadyThreadRuns); the
\* lists it walks are finite.
FairSpec == Spec /\ \A t \in Thread : WF_vars(HeapStep(t))

-----------------------------------------------------------------------------
(* Properties                                                              *)

\* Every chunk, wherever it is: free, delayed, with a caller, or on the list
\* of a call.
Chunks == Range(free_list) \union Range(delayed_free_list)
          \union {a.chunk : a \in allocated}
          \union UNION {Range(call[t].list) : t \in Thread}

Bytes(c) == c.base .. (c.base + c.len - 1)

\* The free list is in the order of addresses, its chunks are apart and have
\* room for their header, and neighbours have been merged, whatever order
\* chunks come back in.
FreeListMerged ==
  /\ \A i \in 1 .. Len(free_list) :
       /\ free_list[i].len >= CHUNK_SIZE
       /\ free_list[i].len % POINTER = 0
  /\ \A i \in 1 .. Len(free_list) - 1 :
       free_list[i].base + free_list[i].len < free_list[i + 1].base

\* An allocation's header and the memory its caller asked for lie in its own
\* chunk, so that the header heap_free() reads is the one heap_alloc() wrote.
HeaderInChunk == \A a \in allocated :
  /\ a.ptr - BEGIN_SIZE >= a.chunk.base
  /\ a.ptr + a.len <= a.chunk.base + a.chunk.len
  /\ \A c \in Chunks : c # a.chunk => Bytes(c) \intersect Bytes(a.chunk) = {}

\* remaining is what the free list holds, and the low water mark a bound of it,
\* as heap_get_stats() and heap_dump() report them.
RemainingIsFree ==
  /\ remaining = FoldFunction(LAMBDA c, sum : c.len + sum, 0, free_list)
  /\ low_watermark \in 0 .. remaining

\* The heap keeps the promise of an allocator: no two allocations share a
\* byte, each is aligned as asked, and no byte of memory is lost, with frees
\* from other threads and from interrupts in between.
A == INSTANCE Allocator WITH
       memory <- UNION {Bytes(c) : c \in Chunks},
       live <- {[ptr |-> a.ptr, len |-> a.len, align |-> a.align] : a \in allocated}
IsAllocator == A!Spec

\* Every call to the heap returns, however the threads contend for its lock.
CallReturns == \A t \in Thread : call[t].stage # "none" ~> call[t].stage = "none"
=============================================================================
