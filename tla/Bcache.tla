------------------------------- MODULE Bcache --------------------------------
(***************************************************************************)
(* The block cache (lib/bcache/bcache.c) on a partition of a block device  *)
(* (module Bio) that may fail to write or to read, and its caller.  The    *)
(* caller may change a block through the pointer it holds, and then marks  *)
(* the block dirty before it gives the pointer back.                       *)
(*                                                                         *)
(* A call is one action: the code takes no lock and has one caller at a    *)
(* time.  Its helpers are operators with a set of outcomes, one for each   *)
(* way the device may fail.  Two outcomes end the behaviour: the assertion *)
(* that a buffer was found fails, and a failed read puts a buffer on the   *)
(* free list that is still on the LRU list.                                *)
(***************************************************************************)
EXTENDS Bio

CONSTANTS
  CACHE_BLOCK,  \* the cache's block size
  BUFFERS,      \* number of blocks the cache has room for
  MaxRefs,      \* bound: pointers held to a block
  Transfer      \* bound: offset and length of writes that do not use the cache

BlockNum == 0 .. ((COUNT * BLOCK_SIZE) \div CACHE_BLOCK - 1)
Buffer == 1 .. BUFFERS

ASSUME BcacheAssumption ==
  /\ CACHE_BLOCK \in Nat \ {0} /\ CACHE_BLOCK % BLOCK_SIZE = 0
  /\ BUFFERS \in Nat \ {0}
  /\ MaxRefs \in Nat \ {0}
  /\ Transfer \subseteq Nat \X Nat

VARIABLES
  cache,   \* the lists, and the fields of each struct bcache_block
  live,    \* between bcache_create() and bcache_destroy()
  held,    \* block -> the pointers its caller holds
  pending, \* blocks changed through a pointer and not marked dirty since
  last,    \* the last call, where its result matters: [op, block, ok, value]
  fault    \* how the behaviour has ended

vars == <<disk, cache, live, held, pending, last, fault>>

same(byte) == [i \in 1 .. CACHE_BLOCK |-> byte]

bcache_create_lists ==
  [free |-> Reverse([i \in Buffer |-> i]), lru |-> <<>>,
   num |-> [x \in Buffer |-> 0], ref |-> [x \in Buffer |-> 0],
   dirty |-> [x \in Buffer |-> FALSE], data |-> [x \in Buffer |-> same(0)]]

Init ==
  /\ disk = [i \in 0 .. (BLOCK_COUNT * BLOCK_SIZE - 1) |-> 0]
  /\ cache = bcache_create_lists
  /\ live = FALSE
  /\ held = [b \in BlockNum |-> <<>>]
  /\ pending = {}
  /\ last = [op |-> "none", block |-> 0, ok |-> TRUE, value |-> <<>>]
  /\ fault = "none"

-----------------------------------------------------------------------------
(* The helpers: c is the cache, d the disk                                 *)

outcome(c, d, x) == [cache |-> c, disk |-> d, block |-> x, fault |-> "none"]

\* Variant for mutation: a block is clean before it is written.
flush_block_early(c, d, x) ==
  {[cache |-> [c EXCEPT !.dirty[x] = FALSE], disk |-> w.disk, ok |-> w.ok] :
     w \in subdev_write(d, c.data[x], c.num[x] * CACHE_BLOCK)}

flush_block(c, d, x) ==
  {[cache |-> IF w.ok THEN [c EXCEPT !.dirty[x] = FALSE] ELSE c,
    disk |-> w.disk, ok |-> w.ok] :
     w \in subdev_write(d, c.data[x], c.num[x] * CACHE_BLOCK)}

\* The block at position i of the LRU list, zero if there is none.
on_lru(c, i) == IF i = 0 THEN 0 ELSE c.lru[i]

to_tail(c, x) == [c EXCEPT !.lru = Append(Remove(@, x), x)]

find_block(c, b) == on_lru(c, SelectInSeq(c.lru, LAMBDA x : c.num[x] = b))

\* Variant for mutation: the reference count is not looked at.
may_evict_any(c, x) == TRUE

may_evict(c, x) == c.ref[x] = 0

\* Variant for mutation: a dirty block is evicted without being written.
write_first_never(c, x) == FALSE

write_first(c, x) == c.dirty[x]

alloc_block(c, d) ==
  LET x == on_lru(c, SelectInSeq(c.lru, LAMBDA y : may_evict(c, y)))
  IN  IF c.free # <<>>
      THEN {outcome([c EXCEPT !.free = Tail(@), !.ref[Head(c.free)] = 0,
                              !.lru = Append(@, Head(c.free))], d, Head(c.free))}
      ELSE IF x = 0 THEN {outcome(c, d, 0)}
      ELSE IF write_first(c, x)
      THEN {IF f.ok THEN outcome(to_tail(f.cache, x), f.disk, x)
            ELSE outcome(f.cache, f.disk, 0) : f \in flush_block(c, d, x)}
      ELSE {outcome(to_tail(c, x), d, x)}

\* The buffer that alloc_block() found is filled with block b.
fill_block(a, b) ==
  IF a.block = 0 THEN {[a EXCEPT !.fault = "DEBUG_ASSERT"]}
  ELSE {[a EXCEPT !.cache.num[a.block] = b,
                  !.cache.data[a.block] = subdev_read(a.disk, b * CACHE_BLOCK, CACHE_BLOCK)],
        [a EXCEPT !.cache.num[a.block] = b,
                  !.cache.free = Append(@, a.block), !.fault = "on two lists"]}

find_or_fill_block(c, d, b) ==
  LET x == find_block(c, b)
  IN  IF x # 0 THEN {outcome(to_tail(c, x), d, x)}
      ELSE UNION {fill_block(a, b) : a \in alloc_block(c, d)}

-----------------------------------------------------------------------------
(* Calls                                                                   *)

returns(op, b, ok, value) ==
  last' = [op |-> op, block |-> b, ok |-> ok, value |-> value]

returns_nothing == returns("call", 0, TRUE, <<>>)

bcache_create ==
  /\ ~live /\ live' = TRUE
  /\ cache' = bcache_create_lists
  /\ UNCHANGED <<disk, held, pending, last, fault>>

\* Dirty blocks are dropped with a warning.
bcache_destroy ==
  /\ live /\ live' = FALSE
  /\ \A x \in Buffer : cache.ref[x] = 0  \* DEBUG_ASSERT
  /\ cache' = bcache_create_lists
  /\ returns("destroy", 0, TRUE, <<>>)
  /\ UNCHANGED <<disk, held, pending, fault>>

bcache_read_block(b) ==
  /\ live
  /\ \E o \in find_or_fill_block(cache, disk, b) :
       /\ cache' = o.cache /\ disk' = o.disk /\ fault' = o.fault
       /\ IF o.fault = "none" THEN returns("read", b, TRUE, o.cache.data[o.block])
          ELSE returns_nothing
  /\ UNCHANGED <<live, held, pending>>

bcache_get_block(b) ==
  /\ live /\ Len(held[b]) < MaxRefs
  /\ \E o \in find_or_fill_block(cache, disk, b) :
       /\ disk' = o.disk /\ fault' = o.fault
       /\ \/ /\ o.fault = "none"
             /\ cache' = [o.cache EXCEPT !.ref[o.block] = @ + 1]
             /\ held' = [held EXCEPT ![b] = Append(@, o.block)]
          \/ o.fault # "none" /\ cache' = o.cache /\ UNCHANGED held
       /\ returns_nothing
  /\ UNCHANGED <<live, pending>>

\* The caller has marked what it has changed.
bcache_put_block(b) ==
  LET x == find_block(cache, b)
  IN  /\ live /\ held[b] # <<>> /\ b \notin pending
      /\ x # 0 /\ cache.ref[x] > 0  \* DEBUG_ASSERT
      /\ cache' = [to_tail(cache, x) EXCEPT !.ref[x] = @ - 1]
      /\ held' = [held EXCEPT ![b] = Tail(@)]
      /\ returns_nothing
      /\ UNCHANGED <<disk, live, pending, fault>>

\* The caller writes through the pointer.
modify(b, byte) ==
  /\ live /\ held[b] # <<>>
  /\ cache' = [cache EXCEPT !.data[Head(held[b])] = same(byte)]
  /\ pending' = pending \union {b}
  /\ returns("modify", b, TRUE, same(byte))
  /\ UNCHANGED <<disk, live, held, fault>>

bcache_mark_block_dirty(b) ==
  LET x == find_block(cache, b)
  IN  /\ live
      /\ cache' = IF x = 0 THEN cache ELSE [to_tail(cache, x) EXCEPT !.dirty[x] = TRUE]
      /\ pending' = pending \ {b}
      /\ returns_nothing
      /\ UNCHANGED <<disk, live, held, fault>>

bcache_zero_block(b) ==
  LET x == find_block(cache, b)
  IN  /\ live
      /\ \E o \in IF x # 0 THEN {outcome(to_tail(cache, x), disk, x)}
                  ELSE alloc_block(cache, disk) :
           /\ disk' = o.disk
           /\ cache' = IF o.block = 0 THEN o.cache
                       ELSE [o.cache EXCEPT !.num[o.block] = b, !.dirty[o.block] = TRUE,
                                            !.data[o.block] = same(0)]
           /\ IF o.block = 0 THEN returns_nothing
              ELSE returns("zero", b, TRUE, <<>>)
      /\ UNCHANGED <<live, held, pending, fault>>

\* The blocks on the LRU list are written until one of them fails.
bcache_flush ==
  LET write(outs, x) == UNION {IF o.ok /\ o.cache.dirty[x] THEN flush_block(o.cache, o.disk, x)
                               ELSE {o} : o \in outs}
  IN  /\ live
      /\ \E o \in FoldLeft(write, {[cache |-> cache, disk |-> disk, ok |-> TRUE]}, cache.lru) :
           /\ cache' = o.cache /\ disk' = o.disk
           /\ IF o.ok THEN returns("flush", 0, TRUE, <<>>)
              ELSE returns_nothing
      /\ UNCHANGED <<live, held, pending, fault>>

\* The partition is written without the cache, before or after its life.
raw_write(offset, len, byte) ==
  LET buf == [i \in 1 .. len |-> byte]
  IN  /\ ~live
      /\ \E w \in subdev_write(disk, buf, offset) :
           disk' = w.disk /\ returns("raw", offset, w.ok, buf)
      /\ UNCHANGED <<cache, live, held, pending, fault>>

Next ==
  /\ fault = "none"
  /\ \/ bcache_create
     \/ bcache_destroy
     \/ bcache_flush
     \/ \E b \in BlockNum :
          \/ bcache_read_block(b)
          \/ bcache_get_block(b)
          \/ bcache_put_block(b)
          \/ bcache_mark_block_dirty(b)
          \/ bcache_zero_block(b)
          \/ \E byte \in Byte : modify(b, byte)
     \/ \E r \in Transfer, byte \in Byte : raw_write(r[1], r[2], byte)

Spec == Init /\ [][Next]_vars

-----------------------------------------------------------------------------
(* Properties                                                              *)

on_disk(b) == bytes(disk, START * BLOCK_SIZE + b * CACHE_BLOCK, CACHE_BLOCK)

\* The buffers that hold block b.
Copies(b) == {x \in Buffer :
  cache.num[x] = b /\ \A i \in DOMAIN cache.free : cache.free[i] # x}

\* A pointer given out by bcache_get_block() keeps pointing at its block until
\* it is given back, whatever is evicted and flushed in between, and the block
\* is counted as often as it is held.
PointersStayValid == \A b \in BlockNum : held[b] # <<>> =>
  /\ Copies(b) = Range(held[b])
  /\ \A x \in Copies(b) : cache.ref[x] = Len(held[b])

\* A block that is neither dirty nor being changed is what the device holds,
\* so that evicting it without a write loses nothing, also after writes that
\* failed half way.
CleanMatchesDisk == \A b \in BlockNum \ pending : \A x \in Copies(b) :
  cache.dirty[x] \/ cache.data[x] = on_disk(b)

\* A write to the partition at any offset changes the bytes it names and no
\* others, none of them outside of the partition, and reads back.
RawWriteExact == [][
  ~live /\ ~live' =>
    LET buf == last'.value
        len == lower(Len(buf), COUNT * BLOCK_SIZE - last'.block)
        low == START * BLOCK_SIZE + last'.block
    IN  /\ \A i \in DOMAIN disk : disk'[i] # disk[i] =>
             i \in low .. (low + len - 1) /\ disk'[i] = buf[i - low + 1]
        /\ last'.ok => subdev_read(disk', last'.block, Len(buf)) = SubSeq(buf, 1, len)
  ]_vars

\* The cache and the device together are a block store: a reader is given what
\* was written last, a device that fails never changes that, and after a flush
\* that succeeds the device holds it all.
S == INSTANCE BlockStore WITH
       view <- [b \in BlockNum |->
                  LET copies == Copies(b)
                  IN  IF copies = {} THEN on_disk(b)
                      ELSE cache.data[CHOOSE x \in copies : TRUE]],
       durable <- [b \in BlockNum |-> on_disk(b)]
IsBlockStore == S!Spec
=============================================================================
