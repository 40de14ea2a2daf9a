----------------------------- MODULE HeapProofs ------------------------------
(* Proofs about module Heap, for any number of threads, sizes and blocks.   *)
EXTENDS Heap, TLAPS

\* The default time limits are too tight for the size of the obligations.
USE SMTT(60), ZenonT(60)

-----------------------------------------------------------------------------
(* The invariant                                                           *)

\* A chunk that can be freed again.
Chunk == {c \in [base : Nat, len : Nat] : c.len >= CHUNK_SIZE /\ c.len % POINTER = 0}

Allocation == [ptr : Nat, len : Nat, align : Nat, chunk : Chunk]

Call == [op : {"none", "alloc", "stats", "insert"}, size : Nat, align : Nat,
         stage : {"none", "flush", "lock", "walk", "update"},
         list : Seq(Chunk), at : Nat]

HeapTypes ==
  /\ free_list \in Seq(Chunk) /\ delayed_free_list \in Seq(Chunk)
  /\ allocated \subseteq Allocation
  /\ spare \subseteq Block
  /\ call \in [Thread -> Call]

\* In the order of addresses, with memory of somebody else in between.
Sorted(s) == \A i, j \in 1 .. Len(s) : i < j => s[i].base + s[i].len < s[j].base

\* What a call still needs; a call that flushes has no list to forget, and one
\* that goes on to the free list has an alignment that is not refused.
CallOK(t) ==
  LET c == call[t]
  IN  /\ c.op = "alloc" => <<c.size, c.align>> \in Request
      /\ c.op = "alloc" /\ c.stage \in {"lock", "walk", "update"} /\ c.list = <<>> =>
           PowerOfTwo(c.align)
      /\ c.stage \in {"none", "flush"} => c.list = <<>>

\* The place a walk has found is still the right one when the call gets to
\* its update.
PlaceOK(t) ==
  LET c == call[t]
  IN  c.stage = "update" =>
        /\ owner = t
        /\ c.list # <<>> =>
             /\ c.at \in 1 .. (Len(free_list) + 1)
             /\ \A i \in 1 .. Len(free_list) :
                  IF i < c.at THEN free_list[i].base <= Head(c.list).base
                  ELSE Head(c.list).base < free_list[i].base
        /\ c.list = <<>> /\ c.at > 0 =>
             /\ c.op = "alloc" /\ c.at \in 1 .. Len(free_list)
             /\ free_list[c.at].len >= chunk_len(c.size, c.align)

\* Chunks with callers.
Held == {a.chunk : a \in allocated}

\* The chunks a call has still to insert.
Lists(t) == Range(call[t].list)

\* No chunk is in a list twice, and none has two callers.
Distinct ==
  /\ IsInjective(delayed_free_list)
  /\ \A t \in Thread : IsInjective(call[t].list)
  /\ \A a, b \in allocated : a.chunk = b.chunk => a = b

\* Every chunk is in one place.
OnePlace ==
  /\ \A t \in Thread :
       /\ Lists(t) \intersect Range(free_list) = {}
       /\ Lists(t) \intersect Range(delayed_free_list) = {}
       /\ Lists(t) \intersect Held = {}
       /\ Lists(t) \intersect spare = {}
       /\ \A u \in Thread \ {t} : Lists(t) \intersect Lists(u) = {}
  /\ Range(free_list) \intersect Range(delayed_free_list) = {}
  /\ Range(free_list) \intersect Held = {}
  /\ Range(free_list) \intersect spare = {}
  /\ Range(delayed_free_list) \intersect Held = {}
  /\ Range(delayed_free_list) \intersect spare = {}
  /\ Held \intersect spare = {}

\* No two chunks share a byte.
Apart == \A c, d \in Chunks \union spare :
  c # d => Bytes(c) \intersect Bytes(d) = {}

\* What a caller has lies in its chunk, and is aligned.
Fits(a) ==
  /\ a.ptr - BEGIN_SIZE >= a.chunk.base
  /\ a.ptr + a.len <= a.chunk.base + a.chunk.len
  /\ a.align # 0 => a.ptr % a.align = 0

\* The addresses the heap manages, and what a caller knows of an allocation.
Memory == UNION {Bytes(c) : c \in Chunks}

Live(a) == [ptr |-> a.ptr, len |-> a.len, align |-> a.align]

HeapInv ==
  /\ HeapTypes
  /\ Sorted(free_list)
  /\ Distinct /\ OnePlace
  /\ Apart
  /\ \A t \in Thread : CallOK(t) /\ PlaceOK(t)
  /\ \A a \in allocated : Fits(a)
-----------------------------------------------------------------------------
(* Multiples                                                               *)

\* Division, as the rounding uses it.
LEMMA DivMod ==
  ASSUME NEW a \in Nat, NEW b \in Nat, b > 0
  PROVE  /\ a \div b \in Nat /\ a % b \in 0 .. (b - 1)
         /\ a = b * (a \div b) + (a % b)
  <1>1. a \div b \in Nat
    OBVIOUS
  <1>2. a % b \in 0 .. (b - 1)
    OBVIOUS
  <1>3. a = b * (a \div b) + (a % b)
    OBVIOUS
  <1> QED
    BY <1>1, <1>2, <1>3

LEMMA MultipleMod ==
  ASSUME NEW k \in Nat, NEW b \in Nat, b > 0
  PROVE  (b * k) % b = 0
  OBVIOUS

LEMMA MultipleOf ==
  ASSUME NEW a \in Nat, NEW b \in Nat, b > 0, a % b = 0
  PROVE  \E k \in Nat : a = b * k
  <1>1. a \div b \in Nat /\ a = b * (a \div b) + 0
    BY DivMod
  <1>2. a = b * (a \div b)
    BY <1>1
  <1> QED
    BY <1>1, <1>2, ZenonT(60)

\* Sums and differences of multiples are multiples.
LEMMA SumMultiple ==
  ASSUME NEW p \in Nat, p > 0, NEW a \in Nat, NEW b \in Nat, a % p = 0, b % p = 0
  PROVE  /\ (a + b) % p = 0
         /\ a >= b => (a - b) % p = 0
  <1>1. PICK k \in Nat : a = p * k
    BY MultipleOf
  <1>2. PICK l \in Nat : b = p * l
    BY MultipleOf
  <1>3. a + b = p * (k + l) /\ k + l \in Nat
    BY <1>1, <1>2
  <1>4. ASSUME a >= b PROVE (a - b) % p = 0
    <2>1. k >= l
      <3>1. SUFFICES ASSUME k <= l - 1 PROVE FALSE
        OBVIOUS
      <3>2. p * k <= p * (l - 1)
        BY <3>1
      <3>3. p * (l - 1) = p * l - p
        OBVIOUS
      <3> QED
        BY <1>1, <1>2, <1>4, <3>2, <3>3
    <2>2. a - b = p * (k - l) /\ k - l \in Nat
      BY <1>1, <1>2, <2>1
    <2> QED
      BY <2>2, MultipleMod
  <1> QED
    BY <1>3, <1>4, MultipleMod

\* ROUNDUP() to a multiple of b, and so of what divides b.
LEMMA Roundup ==
  ASSUME NEW a \in Nat, NEW b \in Nat, b > 0
  PROVE  /\ ROUNDUP(a, b) \in Nat
         /\ a <= ROUNDUP(a, b) /\ ROUNDUP(a, b) < a + b
         /\ \A d \in Nat : d > 0 /\ b % d = 0 => ROUNDUP(a, b) % d = 0
  <1> DEFINE x == a + b - 1
             q == x \div b
             y == ROUNDUP(a, b)
  <1>1. x \in Nat
    OBVIOUS
  <1>2. q \in Nat /\ x % b \in 0 .. (b - 1) /\ x = b * q + (x % b)
    BY <1>1, DivMod
  <1>3. y = b * q
    BY <1>2 DEF ROUNDUP
  <1> HIDE DEF q, y
  <1>4. y \in Nat
    BY <1>2, <1>3
  <1>5. a <= y /\ y < a + b
    BY <1>2, <1>3, <1>4
  <1>6. ASSUME NEW d \in Nat, d > 0, b % d = 0 PROVE y % d = 0
    <2>1. PICK k \in Nat : b = d * k
      BY <1>6, MultipleOf
    <2>2. y = d * (k * q) /\ k * q \in Nat
      BY <1>2, <1>3, <2>1
    <2> QED
      BY <1>6, <2>2, MultipleMod
  <1> QED
    BY <1>4, <1>5, <1>6 DEF y
-----------------------------------------------------------------------------
(* Lists                                                                   *)

LEMMA RangeIs ==
  ASSUME NEW S, NEW s \in Seq(S)
  PROVE  /\ Range(s) = {s[i] : i \in 1 .. Len(s)}
         /\ Range(s) \subseteq S
         /\ Len(s) \in Nat
         /\ IsInjective(s) <=> \A i, j \in 1 .. Len(s) : s[i] = s[j] => i = j
  BY DEF Range, IsInjective

LEMMA ConcatIs ==
  ASSUME NEW S, NEW s \in Seq(S), NEW r \in Seq(S)
  PROVE  /\ s \o r \in Seq(S) /\ Len(s \o r) = Len(s) + Len(r)
         /\ \A i \in 1 .. (Len(s) + Len(r)) :
              (s \o r)[i] = IF i <= Len(s) THEN s[i] ELSE r[i - Len(s)]
  OBVIOUS

LEMMA AddBeforeIs ==
  ASSUME NEW S, NEW s \in Seq(S), NEW k \in 1 .. (Len(s) + 1), NEW e \in S
  PROVE  /\ list_add_before(s, k, e) \in Seq(S)
         /\ Len(list_add_before(s, k, e)) = Len(s) + 1
         /\ \A i \in 1 .. (Len(s) + 1) :
              list_add_before(s, k, e)[i] = IF i < k THEN s[i] ELSE IF i = k THEN e ELSE s[i - 1]
  <1> DEFINE f == SubSeq(s, 1, k - 1)
             g == SubSeq(s, k, Len(s))
  <1>1. /\ f \in Seq(S) /\ Len(f) = k - 1 /\ \A i \in 1 .. (k - 1) : f[i] = s[i]
        /\ g \in Seq(S) /\ Len(g) = Len(s) - k + 1
        /\ \A i \in 1 .. (Len(s) - k + 1) : g[i] = s[k + i - 1]
    OBVIOUS
  <1>2. list_add_before(s, k, e) = (f \o <<e>>) \o g
    BY DEF list_add_before
  <1> HIDE DEF f, g
  <1> DEFINE h == f \o <<e>>
  <1>3. /\ h \in Seq(S) /\ Len(h) = k
        /\ \A i \in 1 .. k : h[i] = IF i < k THEN s[i] ELSE e
    BY <1>1
  <1> HIDE DEF h
  <1>4. /\ h \o g \in Seq(S) /\ Len(h \o g) = Len(s) + 1
        /\ \A i \in 1 .. (Len(s) + 1) :
             (h \o g)[i] = IF i <= k THEN h[i] ELSE g[i - k]
    <2>1. Len(h) = k /\ Len(g) = Len(s) - k + 1 /\ Len(s) \in Nat
      BY <1>1, <1>3
    <2>2. /\ h \o g \in Seq(S) /\ Len(h \o g) = Len(h) + Len(g)
          /\ \A i \in 1 .. (Len(h) + Len(g)) :
               (h \o g)[i] = IF i <= Len(h) THEN h[i] ELSE g[i - Len(h)]
      BY <1>1, <1>3, ConcatIs, ZenonT(60)
    <2> DEFINE n == h \o g
    <2> HIDE DEF n
    <2>3. /\ n \in Seq(S) /\ Len(n) = Len(h) + Len(g)
          /\ \A i \in 1 .. (Len(h) + Len(g)) : n[i] = IF i <= Len(h) THEN h[i] ELSE g[i - Len(h)]
      BY <2>2, ZenonT(60) DEF n
    <2>4. /\ Len(n) = Len(s) + 1
          /\ \A i \in 1 .. (Len(s) + 1) : n[i] = IF i <= k THEN h[i] ELSE g[i - k]
      BY <2>1, <2>3
    <2> QED
      BY <2>3, <2>4, ZenonT(60) DEF n
  <1>5. \A i \in 1 .. (Len(s) + 1) : i > k => g[i - k] = s[i - 1]
    BY <1>1
  <1>6. \A i \in 1 .. (Len(s) + 1) :
          (h \o g)[i] = IF i < k THEN s[i] ELSE IF i = k THEN e ELSE s[i - 1]
    BY <1>3, <1>4, <1>5
  <1> QED
    BY <1>2, <1>4, <1>6 DEF h

LEMMA DeleteIs ==
  ASSUME NEW S, NEW s \in Seq(S), NEW k \in 1 .. Len(s)
  PROVE  /\ list_delete(s, k) \in Seq(S)
         /\ Len(list_delete(s, k)) = Len(s) - 1
         /\ \A i \in 1 .. (Len(s) - 1) :
              list_delete(s, k)[i] = IF i < k THEN s[i] ELSE s[i + 1]
  <1> DEFINE f == SubSeq(s, 1, k - 1)
             g == SubSeq(s, k + 1, Len(s))
  <1>1. /\ f \in Seq(S) /\ Len(f) = k - 1 /\ \A i \in 1 .. (k - 1) : f[i] = s[i]
        /\ g \in Seq(S) /\ Len(g) = Len(s) - k
        /\ \A i \in 1 .. (Len(s) - k) : g[i] = s[k + i]
    OBVIOUS
  <1>2. list_delete(s, k) = f \o g
    BY DEF list_delete
  <1> HIDE DEF f, g
  <1> QED
    BY <1>1, <1>2

\* list_add_head() of a chunk that is not on the list.
LEMMA PushIs ==
  ASSUME NEW S, NEW s \in Seq(S), NEW e \in S, e \notin Range(s), IsInjective(s)
  PROVE  /\ <<e>> \o s \in Seq(S)
         /\ Range(<<e>> \o s) = Range(s) \union {e}
         /\ IsInjective(<<e>> \o s)
  <1> DEFINE n == <<e>> \o s
  <1>1. /\ n \in Seq(S) /\ Len(n) = Len(s) + 1 /\ n[1] = e /\ Len(s) \in Nat
        /\ \A i \in 2 .. (Len(s) + 1) : n[i] = s[i - 1]
        /\ \A i \in 1 .. Len(s) : n[i + 1] = s[i]
    OBVIOUS
  <1> HIDE DEF n
  <1>2. \A i \in 1 .. Len(s) : s[i] \in Range(s)
    BY RangeIs
  <1>3. Range(n) = Range(s) \union {e}
    <2>1. ASSUME NEW x \in Range(n) PROVE x \in Range(s) \union {e}
      <3>1. PICK i \in 1 .. (Len(s) + 1) : x = n[i]
        BY <1>1, RangeIs
      <3>2. i = 1 \/ (i \in 2 .. (Len(s) + 1) /\ i - 1 \in 1 .. Len(s))
        BY <1>1
      <3> QED
        BY <1>1, <1>2, <3>1, <3>2, ZenonT(60)
    <2>2. ASSUME NEW x \in Range(s) \union {e} PROVE x \in Range(n)
      <3>1. \A i \in 1 .. (Len(s) + 1) : n[i] \in Range(n)
        BY <1>1, RangeIs
      <3>2. CASE x = e
        BY <1>1, <3>1, <3>2
      <3>3. CASE x \in Range(s)
        <4>1. PICK i \in 1 .. Len(s) : x = s[i]
          BY <3>3, RangeIs
        <4> QED
          BY <1>1, <3>1, <4>1
      <3> QED
        BY <3>2, <3>3
    <2> QED
      BY <2>1, <2>2, ZenonT(60)
  <1>4. IsInjective(n)
    <2>1. ASSUME NEW i \in 1 .. (Len(s) + 1), NEW j \in 1 .. (Len(s) + 1), n[i] = n[j]
          PROVE  i = j
      <3>1. \A k, l \in 1 .. Len(s) : s[k] = s[l] => k = l
        BY RangeIs, ZenonT(60)
      <3>2. \A k \in 1 .. (Len(s) + 1) :
              k = 1 \/ (k - 1 \in 1 .. Len(s) /\ n[k] = s[k - 1])
        BY <1>1
      <3>3. \A k \in 1 .. Len(s) : s[k] # e
        BY <1>2, ZenonT(60)
      <3>4. ASSUME i = 1, j # 1 PROVE FALSE
        BY <1>1, <2>1, <3>2, <3>3, <3>4, ZenonT(60)
      <3>5. ASSUME i # 1, j = 1 PROVE FALSE
        BY <1>1, <2>1, <3>2, <3>3, <3>5, ZenonT(60)
      <3>6. ASSUME i # 1, j # 1 PROVE i = j
        <4>1. i - 1 = j - 1
          BY <2>1, <3>1, <3>2, <3>6, ZenonT(60)
        <4> QED
          BY <4>1
      <3> QED
        BY <3>4, <3>5, <3>6, ZenonT(60)
    <2> QED
      BY <1>1, <2>1, RangeIs
  <1> QED
    BY <1>1, <1>3, <1>4 DEF n

\* The list without its first chunk.
LEMMA TailIs ==
  ASSUME NEW S, NEW s \in Seq(S), s # <<>>, IsInjective(s)
  PROVE  /\ Tail(s) \in Seq(S) /\ IsInjective(Tail(s))
         /\ Head(s) \in Range(s) /\ Head(s) \in S
         /\ Range(Tail(s)) = Range(s) \ {Head(s)}
  <1> DEFINE n == Tail(s)
  <1>1. /\ n \in Seq(S) /\ Len(n) = Len(s) - 1 /\ Len(s) \in Nat /\ Len(s) > 0
        /\ \A i \in 1 .. (Len(s) - 1) : n[i] = s[i + 1]
        /\ \A i \in 2 .. Len(s) : s[i] = n[i - 1]
        /\ Head(s) = s[1]
    OBVIOUS
  <1> HIDE DEF n
  <1>2. \A k, l \in 1 .. Len(s) : s[k] = s[l] => k = l
    BY RangeIs, ZenonT(60)
  <1>3. Head(s) \in Range(s) /\ Head(s) \in S
    BY <1>1, RangeIs
  <1>4. Range(n) = Range(s) \ {Head(s)}
    <2>1. ASSUME NEW x \in Range(n) PROVE x \in Range(s) \ {Head(s)}
      <3>1. PICK i \in 1 .. (Len(s) - 1) : x = n[i]
        BY <1>1, RangeIs
      <3>2. x = s[i + 1] /\ i + 1 \in 1 .. Len(s) /\ i + 1 # 1 /\ 1 \in 1 .. Len(s)
        BY <1>1, <3>1
      <3>3. x # s[1]
        BY <1>2, <3>2, ZenonT(60)
      <3> QED
        BY <1>1, <3>2, <3>3, RangeIs
    <2>2. ASSUME NEW x \in Range(s) \ {Head(s)} PROVE x \in Range(n)
      <3>1. PICK i \in 1 .. Len(s) : x = s[i]
        BY RangeIs
      <3>2. i - 1 \in 1 .. Len(n) /\ x = n[i - 1]
        BY <1>1, <3>1
      <3> QED
        BY <1>1, <3>2, RangeIs
    <2> QED
      BY <2>1, <2>2, ZenonT(60)
  <1>5. IsInjective(n)
    <2>1. ASSUME NEW i \in 1 .. (Len(s) - 1), NEW j \in 1 .. (Len(s) - 1), n[i] = n[j]
          PROVE  i = j
      BY <1>1, <1>2, <2>1
    <2> QED
      BY <1>1, <2>1, RangeIs
  <1> QED
    BY <1>1, <1>3, <1>4, <1>5 DEF n

\* The delayed list turned around.
LEMMA ReverseIs ==
  ASSUME delayed_free_list \in Seq(Chunk), IsInjective(delayed_free_list)
  PROVE  /\ delayed_taken \in Seq(Chunk) /\ IsInjective(delayed_taken)
         /\ Range(delayed_taken) = Range(delayed_free_list)
         /\ delayed_taken = <<>> <=> delayed_free_list = <<>>
  <1> DEFINE S == Chunk
             s == delayed_free_list
             n == delayed_taken
  <1>1. /\ n \in Seq(S) /\ Len(n) = Len(s) /\ Len(s) \in Nat
        /\ \A i \in 1 .. Len(s) : n[i] = s[Len(s) - i + 1]
    BY DEF delayed_taken
  <1> HIDE DEF n, S
  <1>2. \A i \in 1 .. Len(s) : Len(s) - i + 1 \in 1 .. Len(s) /\ s[i] = n[Len(s) - i + 1]
    BY <1>1
  <1>r. /\ Range(n) = {n[i] : i \in 1 .. Len(s)}
        /\ Range(s) = {s[i] : i \in 1 .. Len(s)}
    <2>1. Range(n) = {n[i] : i \in 1 .. Len(n)} /\ Range(s) = {s[i] : i \in 1 .. Len(s)}
      BY <1>1, RangeIs, ZenonT(60)
    <2> QED
      BY <1>1, <2>1, ZenonT(60)
  <1>3. Range(n) = Range(s)
    <2>1. ASSUME NEW x \in Range(n) PROVE x \in Range(s)
      <3>1. PICK i \in 1 .. Len(s) : x = n[i]
        BY <1>r, ZenonT(60)
      <3>2. Len(s) - i + 1 \in 1 .. Len(s) /\ x = s[Len(s) - i + 1]
        BY <1>1, <3>1
      <3> QED
        BY <1>r, <3>2, ZenonT(60)
    <2>2. ASSUME NEW x \in Range(s) PROVE x \in Range(n)
      <3>1. PICK i \in 1 .. Len(s) : x = s[i]
        BY RangeIs
      <3> QED
        BY <1>1, <1>2, <3>1, RangeIs
    <2> QED
      BY <2>1, <2>2, ZenonT(60)
  <1>4. IsInjective(n)
    <2>1. ASSUME NEW i \in 1 .. Len(s), NEW j \in 1 .. Len(s), n[i] = n[j]
          PROVE  i = j
      <3>1. \A k, l \in 1 .. Len(s) : s[k] = s[l] => k = l
        BY RangeIs, ZenonT(60)
      <3>2. n[i] = s[Len(s) - i + 1] /\ n[j] = s[Len(s) - j + 1]
        BY <1>1, ZenonT(60)
      <3>3. Len(s) - i + 1 \in 1 .. Len(s) /\ Len(s) - j + 1 \in 1 .. Len(s)
        BY <1>2, ZenonT(60)
      <3>4. Len(s) - i + 1 = Len(s) - j + 1
        BY <2>1, <3>1, <3>2, <3>3, ZenonT(60)
      <3> QED
        BY <1>1, <3>4
    <2> QED
      BY <1>1, <2>1, RangeIs
  <1>5. n = <<>> <=> s = <<>>
    BY <1>1
  <1> QED
    BY <1>1, <1>3, <1>4, <1>5 DEF n, S
-----------------------------------------------------------------------------
(* Splices and merges                                                      *)

\* r is the list s with m for its chunks after lo and before hi.
Spliced(r, s, lo, hi, m) ==
  /\ lo \in 0 .. Len(s) /\ hi \in (lo + 1) .. (Len(s) + 1)
  /\ r \in Seq(Chunk) /\ m \in Chunk
  /\ Len(r) = Len(s) + lo + 2 - hi
  /\ \A i \in 1 .. Len(r) : r[i] = IF i <= lo THEN s[i] ELSE IF i = lo + 1 THEN m
                                   ELSE s[i - lo - 2 + hi]

LEMMA SplicedRange ==
  ASSUME NEW s \in Seq(Chunk), NEW r, NEW lo, NEW hi, NEW m, Spliced(r, s, lo, hi, m)
  PROVE  Range(r) = {s[i] : i \in {j \in 1 .. Len(s) : j <= lo \/ j >= hi}} \union {m}
  <1> DEFINE K == {j \in 1 .. Len(s) : j <= lo \/ j >= hi}
  <1>1. /\ lo \in 0 .. Len(s) /\ hi \in (lo + 1) .. (Len(s) + 1) /\ Len(s) \in Nat
        /\ r \in Seq(Chunk) /\ Len(r) = Len(s) + lo + 2 - hi
        /\ \A i \in 1 .. Len(r) : r[i] = IF i <= lo THEN s[i] ELSE IF i = lo + 1 THEN m
                                         ELSE s[i - lo - 2 + hi]
    BY DEF Spliced
  <1>2. Range(r) = {r[i] : i \in 1 .. Len(r)}
    BY <1>1, RangeIs
  <1>3. ASSUME NEW i \in 1 .. Len(r) PROVE r[i] \in {s[j] : j \in K} \union {m}
    <2>1. CASE i <= lo
      <3>1. i \in K /\ r[i] = s[i]
        BY <1>1, <2>1
      <3> QED
        BY <3>1, ZenonT(60)
    <2>2. CASE i = lo + 1
      BY <1>1, <2>2
    <2>3. CASE i > lo + 1
      <3>1. i - lo - 2 + hi \in K /\ r[i] = s[i - lo - 2 + hi]
        BY <1>1, <2>3
      <3> QED
        BY <3>1, ZenonT(60)
    <2> QED
      BY <1>1, <2>1, <2>2, <2>3
  <1>4. ASSUME NEW j \in K PROVE \E i \in 1 .. Len(r) : r[i] = s[j]
    <2>1. CASE j <= lo
      <3>1. j \in 1 .. Len(r) /\ r[j] = s[j]
        BY <1>1, <2>1
      <3> QED
        BY <3>1, ZenonT(60)
    <2>2. CASE j >= hi
      <3> DEFINE i == j - hi + lo + 2
      <3>1. i \in 1 .. Len(r) /\ i > lo + 1 /\ i - lo - 2 + hi = j
        BY <1>1, <2>2
      <3>2. r[i] = s[j]
        BY <1>1, <3>1
      <3> QED
        BY <3>1, <3>2, ZenonT(60)
    <2> QED
      BY <1>1, <2>1, <2>2
  <1>5. \E i \in 1 .. Len(r) : r[i] = m
    <2>1. lo + 1 \in 1 .. Len(r) /\ r[lo + 1] = m
      BY <1>1
    <2> QED
      BY <2>1, ZenonT(60)
  <1> HIDE DEF K
  <1>6. Range(r) = {s[j] : j \in K} \union {m}
    BY <1>2, <1>3, <1>4, <1>5, ZenonT(60)
  <1> QED
    BY <1>6 DEF K

LEMMA SplicedSorted ==
  ASSUME NEW s \in Seq(Chunk), Sorted(s),
         NEW r, NEW lo, NEW hi, NEW m, Spliced(r, s, lo, hi, m),
         \A i \in 1 .. lo : s[i].base + s[i].len < m.base,
         \A i \in hi .. Len(s) : m.base + m.len < s[i].base
  PROVE  Sorted(r)
  <1>1. /\ lo \in 0 .. Len(s) /\ hi \in (lo + 1) .. (Len(s) + 1) /\ Len(s) \in Nat
        /\ Len(r) = Len(s) + lo + 2 - hi
        /\ \A i \in 1 .. Len(r) : r[i] = IF i <= lo THEN s[i] ELSE IF i = lo + 1 THEN m
                                         ELSE s[i - lo - 2 + hi]
    BY DEF Spliced
  <1>2. ASSUME NEW i \in 1 .. Len(r), NEW j \in 1 .. Len(r), i < j
        PROVE  r[i].base + r[i].len < r[j].base
    <2>1. \A k, l \in 1 .. Len(s) : k < l => s[k].base + s[k].len < s[l].base
      BY DEF Sorted
    <2>2. CASE j <= lo
      <3>1. r[i] = s[i] /\ r[j] = s[j] /\ i \in 1 .. Len(s) /\ j \in 1 .. Len(s)
        BY <1>1, <1>2, <2>2
      <3> QED
        BY <1>2, <2>1, <3>1
    <2>3. CASE j = lo + 1
      <3>1. r[i] = s[i] /\ r[j] = m /\ i \in 1 .. lo
        BY <1>1, <1>2, <2>3
      <3> QED
        BY <3>1
    <2>4. CASE j > lo + 1
      <3> DEFINE l == j - lo - 2 + hi
      <3>1. r[j] = s[l] /\ l \in hi .. Len(s) /\ l \in 1 .. Len(s)
        BY <1>1, <2>4
      <3>2. CASE i <= lo
        <4>1. r[i] = s[i] /\ i \in 1 .. Len(s) /\ i < l
          BY <1>1, <3>1, <3>2
        <4> QED
          BY <2>1, <3>1, <4>1
      <3>3. CASE i = lo + 1
        <4>1. r[i] = m
          BY <1>1, <3>3
        <4> HIDE DEF l
        <4> QED
          BY <3>1, <4>1
      <3>4. CASE i > lo + 1
        <4> DEFINE k == i - lo - 2 + hi
        <4>1. r[i] = s[k] /\ k \in 1 .. Len(s) /\ k < l
          BY <1>1, <1>2, <3>4
        <4> HIDE DEF k, l
        <4> QED
          BY <2>1, <3>1, <4>1
      <3> QED
        BY <1>1, <3>2, <3>3, <3>4
    <2> QED
      BY <1>1, <2>2, <2>3, <2>4
  <1> QED
    BY <1>2 DEF Sorted

\* What list_delete() leaves of a sorted list.
LEMMA DeleteSorted ==
  ASSUME NEW s \in Seq(Chunk), Sorted(s), NEW k \in 1 .. Len(s)
  PROVE  /\ list_delete(s, k) \in Seq(Chunk) /\ Sorted(list_delete(s, k))
         /\ Range(list_delete(s, k)) = Range(s) \ {s[k]}
  <1> DEFINE r == list_delete(s, k)
  <1>1. /\ r \in Seq(Chunk) /\ Len(r) = Len(s) - 1 /\ Len(s) \in Nat
        /\ \A i \in 1 .. (Len(s) - 1) : r[i] = IF i < k THEN s[i] ELSE s[i + 1]
    BY DeleteIs
  <1> HIDE DEF r
  <1>2. \A i, j \in 1 .. Len(s) : i < j => s[i].base + s[i].len < s[j].base
    BY DEF Sorted
  <1>3. \A i \in 1 .. Len(s) : s[i] \in Chunk /\ s[i].base \in Nat /\ s[i].len \in Nat
    BY DEF Chunk
  <1>4. Sorted(r)
    <2>1. ASSUME NEW i \in 1 .. Len(r), NEW j \in 1 .. Len(r), i < j
          PROVE  r[i].base + r[i].len < r[j].base
      <3>1. PICK x \in 1 .. Len(s) : r[i] = s[x] /\ x = IF i < k THEN i ELSE i + 1
        BY <1>1
      <3>2. PICK y \in 1 .. Len(s) : r[j] = s[y] /\ y = IF j < k THEN j ELSE j + 1
        BY <1>1
      <3>3. x < y
        BY <2>1, <3>1, <3>2
      <3> QED
        BY <1>2, <3>1, <3>2, <3>3, ZenonT(60)
    <2> QED
      BY <2>1 DEF Sorted
  <1>5. \A i \in 1 .. Len(s) : s[i] = s[k] => i = k
    <2>1. ASSUME NEW i \in 1 .. Len(s), s[i] = s[k], i # k PROVE FALSE
      <3>1. i < k \/ k < i
        BY <2>1
      <3> QED
        BY <1>2, <1>3, <2>1, <3>1
    <2> QED
      BY <2>1, ZenonT(60)
  <1>6. Range(r) = {r[i] : i \in 1 .. (Len(s) - 1)} /\ Range(s) = {s[i] : i \in 1 .. Len(s)}
    <2>1. Range(r) = {r[i] : i \in 1 .. Len(r)} /\ Range(s) = {s[i] : i \in 1 .. Len(s)}
      BY <1>1, RangeIs
    <2> QED
      BY <1>1, <2>1, ZenonT(60)
  <1>7. ASSUME NEW i \in 1 .. (Len(s) - 1) PROVE r[i] \in Range(s) \ {s[k]}
    <2>1. PICK x \in 1 .. Len(s) : r[i] = s[x] /\ x = IF i < k THEN i ELSE i + 1
      BY <1>1
    <2>2. x # k
      BY <2>1
    <2> QED
      BY <1>5, <1>6, <2>1, <2>2, ZenonT(60)
  <1>8. ASSUME NEW x \in 1 .. Len(s), s[x] # s[k] PROVE \E i \in 1 .. (Len(s) - 1) : r[i] = s[x]
    <2>1. x # k
      BY <1>8
    <2>2. CASE x < k
      <3>1. x \in 1 .. (Len(s) - 1) /\ r[x] = s[x]
        BY <1>1, <2>2
      <3> QED
        BY <3>1, ZenonT(60)
    <2>3. CASE x > k
      <3>1. x - 1 \in 1 .. (Len(s) - 1) /\ r[x - 1] = s[x]
        BY <1>1, <2>3
      <3> QED
        BY <3>1, ZenonT(60)
    <2> QED
      BY <2>1, <2>2, <2>3
  <1>9. Range(r) = Range(s) \ {s[k]}
    BY <1>6, <1>7, <1>8, ZenonT(60)
  <1> QED
    BY <1>1, <1>4, <1>9 DEF r

\* A chunk c put in at k joins its neighbours, and becomes Joined.
JoinsLast(s, k, c) == k > 1 /\ adjacent(s[k - 1], c)
JoinsNext(s, k, c) == k <= Len(s) /\ adjacent(c, s[k])
Joined(s, k, c) ==
  [base |-> IF JoinsLast(s, k, c) THEN s[k - 1].base ELSE c.base,
   len  |-> (IF JoinsLast(s, k, c) THEN s[k - 1].len ELSE 0)
            + (c.len + IF JoinsNext(s, k, c) THEN s[k].len ELSE 0)]

LEMMA ChunkIs ==
  ASSUME NEW c
  PROVE  /\ c \in Chunk => /\ c.base \in Nat /\ c.len \in Nat /\ c.len > 0
                           /\ c.len >= CHUNK_SIZE /\ c.len % POINTER = 0
                           /\ c = [base |-> c.base, len |-> c.len]
         /\ CHUNK_SIZE \in Nat /\ CHUNK_SIZE > 0 /\ POINTER \in Nat /\ POINTER > 0
  <1>1. CHUNK_SIZE \in Nat /\ CHUNK_SIZE > 0 /\ POINTER \in Nat /\ POINTER > 0
    BY HeapAssumption
  <1> QED
    BY <1>1 DEF Chunk

\* The lengths of chunks add up to the length of a chunk.
LEMMA JoinChunk ==
  ASSUME NEW b \in Nat, NEW c \in Chunk, NEW n, n = 0 \/ \E d \in Chunk : n = d.len
  PROVE  /\ [base |-> b, len |-> c.len + n] \in Chunk
         /\ [base |-> b, len |-> n + c.len] \in Chunk
  <1>1. /\ c.len \in Nat /\ c.len >= CHUNK_SIZE /\ c.len % POINTER = 0
        /\ CHUNK_SIZE \in Nat /\ POINTER \in Nat /\ POINTER > 0
    BY ChunkIs, ZenonT(60)
  <1>2. n \in Nat /\ n % POINTER = 0
    <2>1. CASE n = 0
      BY <1>1, <2>1
    <2>2. CASE \E d \in Chunk : n = d.len
      BY <2>2, ChunkIs, ZenonT(60)
    <2> QED
      BY <2>1, <2>2, ZenonT(60)
  <1>3. (c.len + n) % POINTER = 0
    BY <1>1, <1>2, SumMultiple, ZenonT(60)
  <1>4. c.len + n \in Nat /\ c.len + n >= CHUNK_SIZE /\ n + c.len = c.len + n
    BY <1>1, <1>2
  <1> QED
    BY <1>3, <1>4 DEF Chunk

LEMMA JoinedChunk ==
  ASSUME NEW s \in Seq(Chunk), NEW c \in Chunk, NEW k \in 1 .. (Len(s) + 1)
  PROVE  Joined(s, k, c) \in Chunk
  <1> DEFINE L == JoinsLast(s, k, c)
             N == JoinsNext(s, k, c)
             n == IF N THEN s[k].len ELSE 0
             l == IF L THEN s[k - 1].len ELSE 0
             b == IF L THEN s[k - 1].base ELSE c.base
  <1>1. /\ L => k - 1 \in 1 .. Len(s) /\ s[k - 1] \in Chunk
        /\ N => k \in 1 .. Len(s) /\ s[k] \in Chunk
    BY DEF JoinsLast, JoinsNext
  <1>2. Joined(s, k, c) = [base |-> b, len |-> l + (c.len + n)]
    BY DEF Joined
  <1> HIDE DEF L, N
  <1>3. b \in Nat
    BY <1>1, ChunkIs, ZenonT(60)
  <1>4. n = 0 \/ \E d \in Chunk : n = d.len
    BY <1>1, ZenonT(60)
  <1>5. l = 0 \/ \E d \in Chunk : l = d.len
    BY <1>1, ZenonT(60)
  <1> HIDE DEF n, l, b
  <1> DEFINE e == [base |-> b, len |-> c.len + n]
  <1>6. e \in Chunk /\ e.len = c.len + n
    BY <1>3, <1>4, JoinChunk, ZenonT(60)
  <1> HIDE DEF e
  <1>7. [base |-> b, len |-> l + e.len] \in Chunk
    BY <1>3, <1>5, <1>6, JoinChunk, ZenonT(60)
  <1> QED
    BY <1>2, <1>6, <1>7, ZenonT(60)

\* try_merge replaces the neighbours it joins by one chunk.
LEMMA MergeIs ==
  ASSUME NEW s \in Seq(Chunk), NEW c \in Chunk, NEW k \in 1 .. (Len(s) + 1)
  PROVE  Spliced(try_merge(list_add_before(s, k, c), k), s,
                 IF JoinsLast(s, k, c) THEN k - 2 ELSE k - 1,
                 IF JoinsNext(s, k, c) THEN k + 1 ELSE k, Joined(s, k, c))
  <1> DEFINE L == JoinsLast(s, k, c)
             N == JoinsNext(s, k, c)
             m == Joined(s, k, c)
             list == list_add_before(s, k, c)
             mid == c.len + IF N THEN s[k].len ELSE 0
             rest == IF N THEN list_delete(list, k + 1) ELSE list
             r == try_merge(list, k)
  <1>1. /\ list \in Seq(Chunk) /\ Len(list) = Len(s) + 1 /\ Len(s) \in Nat
        /\ \A i \in 1 .. (Len(s) + 1) :
             list[i] = IF i < k THEN s[i] ELSE IF i = k THEN c ELSE s[i - 1]
    <2> HIDE DEF L, N, m, mid, rest, r
    <2>1. Len(s) \in Nat
      OBVIOUS
    <2> QED
      BY <2>1, AddBeforeIs
  <1> HIDE DEF list
  <1>2. /\ k > 1 => list[k - 1] = s[k - 1]
        /\ list[k] = c
        /\ k <= Len(s) => list[k + 1] = s[k]
    BY <1>1
  <1>3. L <=> k > 1 /\ adjacent(list[k - 1], list[k])
    BY <1>2, ZenonT(60) DEF JoinsLast
  <1>4. N <=> k < Len(list) /\ adjacent(list[k], list[k + 1])
    <2>1. k < Len(list) <=> k <= Len(s)
      BY <1>1
    <2> QED
      BY <1>2, <2>1, ZenonT(60) DEF JoinsNext
  <1>5. N => k \in 1 .. Len(s)
    BY DEF JoinsNext
  <1>6. L => k - 1 \in 1 .. Len(s)
    BY DEF JoinsLast
  <1>7. r = IF L THEN list_delete([rest EXCEPT ![k - 1].len = @ + mid], k)
            ELSE [rest EXCEPT ![k].len = mid]
    <2>1. mid = list[k].len + IF N THEN list[k + 1].len ELSE 0
      <3>1. N => k <= Len(s)
        BY <1>5
      <3> QED
        BY <1>2, <3>1, ZenonT(60)
    <2> HIDE DEF mid, L, N
    <2> QED
      BY <1>3, <1>4, <2>1 DEF try_merge
  <1> HIDE DEF r
  <1> DEFINE n == IF N THEN Len(s) ELSE Len(s) + 1
  <1>8. /\ rest \in Seq(Chunk) /\ Len(rest) = n
        /\ \A i \in 1 .. n : rest[i] = IF i < k THEN s[i] ELSE IF i = k THEN c
                                       ELSE IF N THEN s[i] ELSE s[i - 1]
    <2>1. CASE N
      <3> DEFINE d == list_delete(list, k + 1)
      <3>1. k + 1 \in 1 .. Len(list)
        BY <1>1, <1>5, <2>1
      <3>2. /\ d \in Seq(Chunk) /\ Len(d) = Len(list) - 1
            /\ \A i \in 1 .. (Len(list) - 1) :
                 d[i] = IF i < k + 1 THEN list[i] ELSE list[i + 1]
        BY <1>1, <3>1, DeleteIs
      <3> HIDE DEF d
      <3>3. /\ Len(d) = Len(s)
            /\ \A i \in 1 .. Len(s) : d[i] = IF i < k THEN s[i] ELSE IF i = k THEN c ELSE s[i]
        <4>1. Len(list) - 1 = Len(s) /\ Len(s) \in Nat
          BY <1>1
        <4>2. \A i \in 1 .. Len(s) : d[i] = IF i < k + 1 THEN list[i] ELSE list[i + 1]
          BY <3>2, <4>1, ZenonT(60)
        <4>3. ASSUME NEW i \in 1 .. Len(s)
              PROVE  d[i] = IF i < k THEN s[i] ELSE IF i = k THEN c ELSE s[i]
          <5>1. i \in 1 .. (Len(s) + 1) /\ i + 1 \in 1 .. (Len(s) + 1)
            BY <4>1
          <5>2. i >= k + 1 => list[i + 1] = s[i]
            BY <1>1, <5>1
          <5>3. i < k + 1 => list[i] = IF i < k THEN s[i] ELSE IF i = k THEN c ELSE s[i]
            BY <1>1, <5>1
          <5>4. i < k + 1 <=> ~(i >= k + 1)
            OBVIOUS
          <5>5. i >= k + 1 => ~(i < k) /\ i # k
            OBVIOUS
          <5> QED
            BY <4>2, <5>2, <5>3, <5>4, <5>5, ZenonT(60)
        <4> QED
          BY <3>2, <4>1, <4>3, ZenonT(60)
      <3>4. rest = d
        BY <2>1 DEF d
      <3> HIDE DEF rest, N
      <3> QED
        BY <2>1, <3>2, <3>3, <3>4
    <2>2. CASE ~N
      <3>1. rest = list
        BY <2>2
      <3> HIDE DEF rest, N
      <3> QED
        BY <1>1, <2>2, <3>1
    <2> QED
      BY <2>1, <2>2
  <1>9. m \in Chunk
    BY JoinedChunk
  <1>10. m = [base |-> IF L THEN s[k - 1].base ELSE c.base,
              len |-> (IF L THEN s[k - 1].len ELSE 0) + mid]
    BY DEF Joined
  <1> HIDE DEF rest, mid, m, L, N
  <1>11. ASSUME L PROVE Spliced(r, s, k - 2, IF N THEN k + 1 ELSE k, m)
    <2> DEFINE e == [rest EXCEPT ![k - 1].len = @ + mid]
    <2>1. /\ rest[k - 1] = s[k - 1] /\ s[k - 1] \in Chunk /\ k - 1 \in 1 .. n /\ k \in 1 .. n
      BY <1>1, <1>5, <1>6, <1>8, <1>11
    <2>2. m = [rest[k - 1] EXCEPT !.len = @ + mid]
      <3>1. s[k - 1] = [base |-> s[k - 1].base, len |-> s[k - 1].len]
        BY <2>1, ChunkIs, ZenonT(60)
      <3> QED
        BY <1>10, <1>11, <2>1, <3>1
    <2>3. e = [rest EXCEPT ![k - 1] = m]
      BY <2>2
    <2>4. e \in Seq(Chunk) /\ Len(e) = n
          /\ \A i \in 1 .. n : e[i] = IF i = k - 1 THEN m ELSE rest[i]
      BY <1>8, <1>9, <2>1, <2>3
    <2>5. r = list_delete(e, k)
      BY <1>7, <1>11
    <2> HIDE DEF e, n
    <2>6. /\ r \in Seq(Chunk) /\ Len(r) = n - 1
          /\ \A i \in 1 .. (n - 1) : r[i] = IF i < k THEN e[i] ELSE e[i + 1]
      <3>1. k \in 1 .. Len(e)
        BY <2>1, <2>4
      <3>2. /\ r \in Seq(Chunk) /\ Len(r) = Len(e) - 1
            /\ \A i \in 1 .. (Len(e) - 1) : r[i] = IF i < k THEN e[i] ELSE e[i + 1]
        BY <2>4, <2>5, <3>1, DeleteIs
      <3> QED
        BY <2>4, <3>2
    <2>7. \A i \in 1 .. (n - 1) : r[i] = IF i < k - 1 THEN s[i] ELSE IF i = k - 1 THEN m
                                         ELSE IF N THEN s[i + 1] ELSE s[i]
      <3>1. n \in Nat
        BY <1>1 DEF n
      <3> QED
        BY <1>8, <2>1, <2>4, <2>6, <3>1
    <2> QED
      BY <1>1, <1>5, <1>6, <1>9, <1>11, <2>6, <2>7 DEF n, Spliced
  <1>12. ASSUME ~L PROVE Spliced(r, s, k - 1, IF N THEN k + 1 ELSE k, m)
    <2>1. rest[k] = c /\ k \in 1 .. n
      BY <1>1, <1>5, <1>8
    <2>2. m = [rest[k] EXCEPT !.len = mid]
      <3>1. c = [base |-> c.base, len |-> c.len]
        BY ChunkIs, ZenonT(60)
      <3>2. mid \in Nat
        <4>1. m.len \in Nat /\ m.len = 0 + mid
          BY <1>9, <1>10, <1>12, ChunkIs
        <4>2. c.len \in Nat /\ (N => s[k].len \in Nat)
          BY <1>5, ChunkIs
        <4> QED
          BY <4>2 DEF mid
      <3> QED
        BY <1>10, <1>12, <2>1, <3>1, <3>2
    <2>3. r = [rest EXCEPT ![k] = m]
      BY <1>7, <1>12, <2>2
    <2>4. r \in Seq(Chunk) /\ Len(r) = n
          /\ \A i \in 1 .. n : r[i] = IF i = k THEN m ELSE rest[i]
      BY <1>8, <1>9, <2>1, <2>3
    <2>5. \A i \in 1 .. n : r[i] = IF i < k THEN s[i] ELSE IF i = k THEN m
                                   ELSE IF N THEN s[i] ELSE s[i - 1]
      BY <1>8, <2>4
    <2> HIDE DEF n
    <2> QED
      BY <1>1, <1>5, <1>9, <2>4, <2>5 DEF n, Spliced
  <1> QED
    BY <1>11, <1>12 DEF L, N, m, r, list

LEMMA BytesIs ==
  ASSUME NEW c \in Chunk
  PROVE  /\ \A x : x \in Bytes(c) <=> x \in Int /\ c.base <= x /\ x < c.base + c.len
         /\ c.base \in Bytes(c)
  <1>1. c.base \in Nat /\ c.len \in Nat /\ c.len > 0
    BY ChunkIs, ZenonT(60)
  <1> QED
    BY <1>1 DEF Bytes

\* Chunks that share no byte lie one after the other.
LEMMA ApartInOrder ==
  ASSUME NEW c \in Chunk, NEW d \in Chunk, Bytes(c) \intersect Bytes(d) = {}
  PROVE  /\ c.base <= d.base => c.base + c.len <= d.base
         /\ c.base # d.base
  <1>1. /\ c.base \in Nat /\ c.len \in Nat /\ c.len > 0
        /\ d.base \in Nat /\ d.len \in Nat /\ d.len > 0
    BY ChunkIs, ZenonT(60)
  <1>2. d.base \in Bytes(d) /\ ~(d.base \in Bytes(c))
    BY BytesIs, ZenonT(60)
  <1>3. ~(c.base <= d.base /\ d.base < c.base + c.len)
    BY <1>1, <1>2, BytesIs
  <1> QED
    BY <1>1, <1>3

\* c lies in the gap before place k of s.
Between(s, k, c) ==
  \A i \in 1 .. Len(s) : IF i < k THEN s[i].base + s[i].len <= c.base
                         ELSE c.base + c.len <= s[i].base

\* r is s with c, c and the chunks N of s having become m.
Absorbed(r, s, c) ==
  \E m \in Chunk, N \in SUBSET Range(s) :
    /\ Range(r) = (Range(s) \ N) \union {m}
    /\ Bytes(m) = Bytes(c) \union UNION {Bytes(n) : n \in N}

\* What heap_insert_free_chunk() makes of a sorted list and a chunk put in at
\* its place: a sorted list again, in which the chunk and the neighbours N that
\* touch it have become m, which has their bytes and no others.
LEMMA Merged ==
  ASSUME NEW s \in Seq(Chunk), Sorted(s), NEW c \in Chunk, NEW k \in 1 .. (Len(s) + 1),
         Between(s, k, c)
  PROVE  /\ try_merge(list_add_before(s, k, c), k) \in Seq(Chunk)
         /\ Sorted(try_merge(list_add_before(s, k, c), k))
         /\ Absorbed(try_merge(list_add_before(s, k, c), k), s, c)
  <1>g. \A i \in 1 .. Len(s) : IF i < k THEN s[i].base + s[i].len <= c.base
                               ELSE c.base + c.len <= s[i].base
    BY DEF Between
  <1> DEFINE L == JoinsLast(s, k, c)
             X == JoinsNext(s, k, c)
             m == Joined(s, k, c)
             lo == IF L THEN k - 2 ELSE k - 1
             hi == IF X THEN k + 1 ELSE k
             r == try_merge(list_add_before(s, k, c), k)
             N == {s[i] : i \in {j \in 1 .. Len(s) : lo < j /\ j < hi}}
  <1>1. Spliced(r, s, lo, hi, m)
    BY MergeIs, ZenonT(60)
  <1> HIDE DEF r
  <1>2. Len(s) \in Nat
    OBVIOUS
  <1>3. m \in Chunk
    BY JoinedChunk, ZenonT(60)
  <1>4. \A i \in 1 .. Len(s) : s[i] \in Chunk /\ s[i].base \in Nat /\ s[i].len \in Nat /\ s[i].len > 0
    <2>1. \A i \in 1 .. Len(s) : s[i] \in Chunk
      OBVIOUS
    <2> QED
      BY <2>1, ChunkIs, ZenonT(60)
  <1>5. \A i, j \in 1 .. Len(s) : i < j => s[i].base + s[i].len < s[j].base
    BY DEF Sorted
  <1>6. /\ L => k - 1 \in 1 .. Len(s) /\ s[k - 1].base + s[k - 1].len = c.base
        /\ ~L => (k > 1 => s[k - 1].base + s[k - 1].len # c.base)
        /\ X => k \in 1 .. Len(s) /\ c.base + c.len = s[k].base
        /\ ~X => (k <= Len(s) => c.base + c.len # s[k].base)
    BY <1>2 DEF JoinsLast, JoinsNext, adjacent
  <1>7. /\ m.base = IF L THEN s[k - 1].base ELSE c.base
        /\ m.len = (IF L THEN s[k - 1].len ELSE 0) + (c.len + IF X THEN s[k].len ELSE 0)
    BY ZenonT(60) DEF Joined
  <1>8. c.base \in Nat /\ c.len \in Nat /\ c.len > 0
    BY ChunkIs, ZenonT(60)
  <1>9. m.base + m.len = c.base + c.len + IF X THEN s[k].len ELSE 0
    <2> HIDE DEF m, L, X
    <2> QED
      BY <1>4, <1>6, <1>7, <1>8
  <1> HIDE DEF m, L, X
  <1>10. \A i \in 1 .. lo : s[i].base + s[i].len < m.base
    <2>1. ASSUME NEW i \in 1 .. lo PROVE s[i].base + s[i].len < m.base
      <3>1. CASE L
        <4>1. i \in 1 .. Len(s) /\ k - 1 \in 1 .. Len(s) /\ i < k - 1
          BY <1>2, <1>6, <3>1
        <4> QED
          BY <1>5, <1>7, <3>1, <4>1, ZenonT(60)
      <3>2. CASE ~L
        <4>1. i \in 1 .. Len(s) /\ i <= k - 1 /\ k - 1 \in 1 .. Len(s) /\ k > 1
          BY <1>2, <3>2
        <4>2. s[k - 1].base + s[k - 1].len < c.base
          <5>1. /\ s[k - 1].base + s[k - 1].len <= c.base
                /\ s[k - 1].base + s[k - 1].len # c.base
            <6>1. k - 1 < k
              OBVIOUS
            <6> QED
              BY <1>g, <1>6, <3>2, <4>1, <6>1, ZenonT(60)
          <5>2. s[k - 1].base \in Nat /\ s[k - 1].len \in Nat
            BY <1>4, <4>1, ZenonT(60)
          <5>3. \A x, y, z \in Nat : x + y <= z /\ x + y # z => x + y < z
            OBVIOUS
          <5> QED
            BY <1>8, <5>1, <5>2, <5>3, ZenonT(60)
        <4>3. i < k - 1 => s[i].base + s[i].len < s[k - 1].base
          BY <1>5, <4>1
        <4>4. m.base = c.base
          BY <1>7, <3>2, ZenonT(60)
        <4> QED
          BY <1>4, <1>8, <4>1, <4>2, <4>3, <4>4
      <3> QED
        BY <3>1, <3>2, ZenonT(60)
    <2> QED
      BY <2>1
  <1>11. \A i \in hi .. Len(s) : m.base + m.len < s[i].base
    <2>1. ASSUME NEW i \in hi .. Len(s) PROVE m.base + m.len < s[i].base
      <3>1. CASE X
        <4>1. i \in 1 .. Len(s) /\ k \in 1 .. Len(s) /\ k < i
          BY <1>2, <1>6, <3>1
        <4>2. s[k].base + s[k].len < s[i].base
          BY <1>5, <4>1, ZenonT(60)
        <4> QED
          BY <1>4, <1>6, <1>8, <1>9, <3>1, <4>1, <4>2
      <3>2. CASE ~X
        <4>1. i \in 1 .. Len(s) /\ k \in 1 .. Len(s) /\ k <= i
          BY <1>2, <3>2
        <4>2. c.base + c.len < s[k].base
          <5>1. c.base + c.len <= s[k].base /\ c.base + c.len # s[k].base
            BY <1>g, <1>6, <3>2, <4>1
          <5>2. s[k].base \in Nat
            BY <1>4, <4>1, ZenonT(60)
          <5> QED
            BY <1>8, <5>1, <5>2
        <4>3. k < i => s[k].base + s[k].len < s[i].base
          BY <1>5, <4>1
        <4>4. m.base + m.len = c.base + c.len
          BY <1>8, <1>9, <3>2
        <4> QED
          BY <1>4, <1>8, <4>1, <4>2, <4>3, <4>4
      <3> QED
        BY <3>1, <3>2, ZenonT(60)
    <2> QED
      BY <2>1
  <1>12. r \in Seq(Chunk) /\ Sorted(r)
    <2>1. r \in Seq(Chunk)
      BY <1>1, ZenonT(60) DEF Spliced
    <2> HIDE DEF lo, hi
    <2> QED
      BY <1>1, <1>10, <1>11, <2>1, SplicedSorted
  <1>13. Range(s) = {s[i] : i \in 1 .. Len(s)}
    BY RangeIs, ZenonT(60)
  <1>14. N \in SUBSET Range(s)
    BY <1>13, ZenonT(60)
  <1>15. \A i, j \in 1 .. Len(s) : s[i] = s[j] => i = j
    <2>1. ASSUME NEW i \in 1 .. Len(s), NEW j \in 1 .. Len(s), s[i] = s[j], i # j PROVE FALSE
      <3>1. i < j \/ j < i
        BY <2>1
      <3> QED
        BY <1>4, <1>5, <2>1, <3>1
    <2> QED
      BY <2>1, ZenonT(60)
  <1>16. Range(r) = (Range(s) \ N) \union {m}
    <2>1. Range(r) = {s[i] : i \in {j \in 1 .. Len(s) : j <= lo \/ j >= hi}} \union {m}
      <3> HIDE DEF lo, hi
      <3> QED
        BY <1>1, SplicedRange
    <2>2. \A j \in 1 .. Len(s) : (lo < j /\ j < hi) <=> ~(j <= lo \/ j >= hi)
      BY <1>2
    <2> HIDE DEF lo, hi
    <2>3. ASSUME NEW j \in 1 .. Len(s) PROVE s[j] \in N <=> ~(j <= lo \/ j >= hi)
      <3>1. ASSUME s[j] \in N PROVE lo < j /\ j < hi
        <4>1. PICK i \in 1 .. Len(s) : s[i] = s[j] /\ lo < i /\ i < hi
          BY <3>1, ZenonT(60)
        <4> QED
          BY <1>15, <4>1, ZenonT(60)
      <3>2. ASSUME lo < j, j < hi PROVE s[j] \in N
        BY <3>2, ZenonT(60)
      <3> QED
        BY <2>2, <3>1, <3>2, ZenonT(60)
    <2> HIDE DEF N
    <2>4. {s[i] : i \in {j \in 1 .. Len(s) : j <= lo \/ j >= hi}} = Range(s) \ N
      <3>1. ASSUME NEW x \in {s[i] : i \in {j \in 1 .. Len(s) : j <= lo \/ j >= hi}}
            PROVE  x \in Range(s) \ N
        BY <1>13, <2>3, ZenonT(60)
      <3>2. ASSUME NEW x \in Range(s) \ N
            PROVE  x \in {s[i] : i \in {j \in 1 .. Len(s) : j <= lo \/ j >= hi}}
        <4>1. PICK i \in 1 .. Len(s) : x = s[i]
          BY <1>13, ZenonT(60)
        <4> QED
          BY <2>3, <4>1, ZenonT(60)
      <3> QED
        BY <3>1, <3>2, ZenonT(60)
    <2> QED
      BY <2>1, <2>4, ZenonT(60)
  <1>17. N = (IF L THEN {s[k - 1]} ELSE {}) \union (IF X THEN {s[k]} ELSE {})
    <2>1. \A j \in 1 .. Len(s) : (lo < j /\ j < hi) <=> (L /\ j = k - 1) \/ (X /\ j = k)
      BY <1>2
    <2> HIDE DEF lo, hi
    <2> QED
      BY <1>6, <2>1, ZenonT(60)
  <1> HIDE DEF N
  <1>18. Bytes(m) = Bytes(c) \union UNION {Bytes(n) : n \in N}
    <2>1. UNION {Bytes(n) : n \in N} =
            (IF L THEN Bytes(s[k - 1]) ELSE {}) \union (IF X THEN Bytes(s[k]) ELSE {})
      BY <1>17, ZenonT(60)
    <2>2. ASSUME NEW x
          PROVE  x \in Bytes(m) <=> \/ x \in Bytes(c)
                                    \/ L /\ x \in Bytes(s[k - 1])
                                    \/ X /\ x \in Bytes(s[k])
      <3>1. x \in Bytes(m) <=> x \in Int /\ m.base <= x /\ x < m.base + m.len
        BY <1>3, BytesIs, ZenonT(60)
      <3>2. x \in Bytes(c) <=> x \in Int /\ c.base <= x /\ x < c.base + c.len
        BY BytesIs, ZenonT(60)
      <3>3. L => (x \in Bytes(s[k - 1]) <=>
                    x \in Int /\ s[k - 1].base <= x /\ x < s[k - 1].base + s[k - 1].len)
        BY <1>4, <1>6, BytesIs, ZenonT(60)
      <3>4. X => (x \in Bytes(s[k]) <=>
                    x \in Int /\ s[k].base <= x /\ x < s[k].base + s[k].len)
        BY <1>4, <1>6, BytesIs, ZenonT(60)
      <3>5. CASE x \notin Int
        BY <3>1, <3>2, <3>3, <3>4, <3>5, ZenonT(60)
      <3>6. CASE x \in Int
        BY <1>4, <1>6, <1>7, <1>8, <1>9, <3>1, <3>2, <3>3, <3>4, <3>6
      <3> QED
        BY <3>5, <3>6, ZenonT(60)
    <2> QED
      BY <2>1, <2>2, ZenonT(60)
  <1> QED
    BY <1>3, <1>12, <1>14, <1>16, <1>18, ZenonT(60) DEF r, Absorbed
-----------------------------------------------------------------------------
(* What heap_alloc() takes                                                 *)

\* The length heap_alloc() looks for is that of a chunk, and has room for the
\* header and the memory asked for wherever the alignment puts them.
LEMMA ChunkLenIs ==
  ASSUME NEW size, NEW align, <<size, align>> \in Request, PowerOfTwo(align)
  PROVE  /\ size \in Nat /\ align \in Nat
         /\ chunk_len(size, align) \in Nat /\ chunk_len(size, align) >= CHUNK_SIZE
         /\ chunk_len(size, align) % POINTER = 0
         /\ \A base \in Nat :
              /\ user_ptr(base, align) \in Nat
              /\ user_ptr(base, align) - BEGIN_SIZE >= base
              /\ user_ptr(base, align) + size <= base + chunk_len(size, align)
              /\ align # 0 => user_ptr(base, align) % align = 0
  <1> DEFINE least == IF size + BEGIN_SIZE < CHUNK_SIZE THEN CHUNK_SIZE ELSE size + BEGIN_SIZE
             R == ROUNDUP(least, POINTER)
             a == real_alignment(align)
             n == chunk_len(size, align)
  <1>1. /\ size \in Nat /\ align \in Nat
        /\ POINTER \in Nat /\ POINTER > 0 /\ CHUNK_SIZE \in Nat /\ BEGIN_SIZE \in Nat
        /\ MIN_ALIGNMENT \in Nat /\ MIN_ALIGNMENT > 0
    BY HeapAssumption
  <1>2. a % POINTER = 0 /\ (align > 0 => a % align = 0)
    BY HeapAssumption
  <1>3. a \in Nat /\ (align = 0 => a = 0) /\ (align > 0 => a > 0)
    BY <1>1 DEF real_alignment
  <1>4. least \in Nat /\ least >= CHUNK_SIZE /\ least >= size + BEGIN_SIZE
    BY <1>1
  <1>5. POINTER % POINTER = 0
    <2>1. (POINTER * 1) % POINTER = 0
      BY <1>1, MultipleMod
    <2>2. POINTER * 1 = POINTER
      BY <1>1
    <2> QED
      BY <2>1, <2>2
  <1>6. n = R + a
    BY DEF chunk_len
  <1> HIDE DEF least, a, n
  <1>7. R \in Nat /\ least <= R /\ R % POINTER = 0
    BY <1>1, <1>4, <1>5, Roundup, ZenonT(60)
  <1> HIDE DEF R
  <1>8. (R + a) % POINTER = 0
    BY <1>1, <1>2, <1>3, <1>7, SumMultiple, ZenonT(60)
  <1>9. n \in Nat /\ n >= CHUNK_SIZE /\ n % POINTER = 0
    <2>1. n \in Nat /\ n >= CHUNK_SIZE
      BY <1>1, <1>3, <1>4, <1>6, <1>7
    <2> QED
      BY <1>6, <1>8, <2>1, ZenonT(60)
  <1>10. ASSUME NEW base \in Nat
         PROVE  /\ user_ptr(base, align) \in Nat
                /\ user_ptr(base, align) - BEGIN_SIZE >= base
                /\ user_ptr(base, align) + size <= base + n
                /\ align # 0 => user_ptr(base, align) % align = 0
    <2>1. CASE align = 0
      <3>1. user_ptr(base, align) = base + BEGIN_SIZE
        BY <2>1 DEF user_ptr
      <3> QED
        BY <1>1, <1>3, <1>4, <1>6, <1>7, <2>1, <3>1
    <2>2. CASE align # 0
      <3> DEFINE p == user_ptr(base, align)
                 b == base + BEGIN_SIZE
      <3>1. p = ROUNDUP(b, a)
        BY <2>2 DEF user_ptr, a
      <3>2. b \in Nat /\ align > 0 /\ a > 0
        BY <1>1, <1>3, <2>2
      <3> HIDE DEF p, b
      <3>3. p \in Nat /\ b <= p /\ p < b + a /\ p % align = 0
        <4>1. /\ ROUNDUP(b, a) \in Nat /\ b <= ROUNDUP(b, a) /\ ROUNDUP(b, a) < b + a
              /\ \A d \in Nat : d > 0 /\ a % d = 0 => ROUNDUP(b, a) % d = 0
          BY <1>3, <3>2, Roundup, ZenonT(60)
        <4>2. a % align = 0
          BY <1>2, <3>2, ZenonT(60)
        <4>3. ROUNDUP(b, a) % align = 0
          BY <1>1, <3>2, <4>1, <4>2, ZenonT(60)
        <4> QED
          BY <3>1, <4>1, <4>3, ZenonT(60)
      <3>4. p - BEGIN_SIZE >= base /\ p + size <= base + n
        BY <1>1, <1>3, <1>4, <1>6, <1>7, <3>2, <3>3 DEF b
      <3> QED
        BY <3>3, <3>4 DEF p
    <2> QED
      BY <2>1, <2>2
  <1> QED
    BY <1>1, <1>9, <1>10 DEF n

\* What heap_alloc_take() leaves of the free list, and the chunk it takes.
Shrunk(s, k, n) ==
  IF splits(s[k], n)
  THEN [s EXCEPT ![k] = [base |-> s[k].base + n, len |-> s[k].len - n]]
  ELSE list_delete(s, k)

Taken(f, n) == [base |-> f.base, len |-> taken_len(f, n)]

\* r is s without f, which has become d and at most one chunk on r.
SplitOff(r, s, f, d) ==
  \E M \in SUBSET Chunk :
    /\ Range(r) = (Range(s) \ {f}) \union M
    /\ Bytes(f) = Bytes(d) \union UNION {Bytes(m) : m \in M}
    /\ \A m \in M : Bytes(m) \intersect Bytes(d) = {} /\ M = {m}

\* What is left of a sorted list when n bytes are taken from its chunk at k:
\* the chunk taken and the rest M of it, at most one chunk, have its bytes.
LEMMA Split ==
  ASSUME NEW s \in Seq(Chunk), Sorted(s), NEW k \in 1 .. Len(s),
         NEW n \in Nat, n >= CHUNK_SIZE, n % POINTER = 0, s[k].len >= n
  PROVE  /\ Shrunk(s, k, n) \in Seq(Chunk) /\ Sorted(Shrunk(s, k, n))
         /\ Taken(s[k], n) \in Chunk /\ Taken(s[k], n).base = s[k].base
         /\ Taken(s[k], n).len >= n
         /\ SplitOff(Shrunk(s, k, n), s, s[k], Taken(s[k], n))
  <1> DEFINE r == Shrunk(s, k, n)
             d == Taken(s[k], n)
  <1>r. r = (IF splits(s[k], n)
             THEN [s EXCEPT ![k] = [base |-> s[k].base + n, len |-> s[k].len - n]]
             ELSE list_delete(s, k))
    BY DEF Shrunk
  <1>d. d = [base |-> s[k].base, len |-> taken_len(s[k], n)]
    BY DEF Taken
  <1> HIDE DEF r, d
  <1>1. /\ s[k] \in Chunk /\ s[k].base \in Nat /\ s[k].len \in Nat
        /\ s[k].len >= CHUNK_SIZE /\ s[k].len % POINTER = 0
        /\ s[k] = [base |-> s[k].base, len |-> s[k].len]
        /\ CHUNK_SIZE \in Nat /\ CHUNK_SIZE > 0 /\ POINTER \in Nat /\ POINTER > 0
    <2>1. s[k] \in Chunk
      OBVIOUS
    <2> QED
      BY <2>1, ChunkIs, ZenonT(60)
  <1>2. CASE splits(s[k], n)
    <2> DEFINE m == [base |-> s[k].base + n, len |-> s[k].len - n]
    <2>1. s[k].len > n + CHUNK_SIZE
      BY <1>2 DEF splits
    <2>2. (s[k].len - n) % POINTER = 0
      BY <1>1, SumMultiple, ZenonT(60)
    <2>3. /\ s[k].len - n \in Nat /\ s[k].len - n >= CHUNK_SIZE /\ s[k].base + n \in Nat
      BY <1>1, <2>1
    <2>4. m \in Chunk
      BY <2>2, <2>3 DEF Chunk
    <2>5. d = [base |-> s[k].base, len |-> n]
      BY <1>2, <1>d, ZenonT(60) DEF taken_len
    <2>6. d \in Chunk /\ d.base = s[k].base /\ d.len = n
      BY <1>1, <2>5 DEF Chunk
    <2>7. m.base = s[k].base + n /\ m.len = s[k].len - n
      OBVIOUS
    <2>8. r = [s EXCEPT ![k] = m]
      BY <1>2, <1>r, ZenonT(60)
    <2> HIDE DEF m
    <2>9. Spliced(r, s, k - 1, k + 1, m)
      <3>1. /\ r \in Seq(Chunk) /\ Len(r) = Len(s) /\ Len(s) \in Nat
            /\ \A i \in 1 .. Len(s) : r[i] = IF i = k THEN m ELSE s[i]
        BY <2>4, <2>8
      <3>2. k - 1 \in 0 .. Len(s) /\ k + 1 \in (k - 1 + 1) .. (Len(s) + 1)
            /\ Len(r) = Len(s) + (k - 1) + 2 - (k + 1)
        BY <3>1
      <3>3. \A i \in 1 .. Len(r) : r[i] = IF i <= k - 1 THEN s[i] ELSE IF i = k - 1 + 1 THEN m
                                         ELSE s[i - (k - 1) - 2 + (k + 1)]
        <4>1. ASSUME NEW i \in 1 .. Len(s)
              PROVE  /\ i - (k - 1) - 2 + (k + 1) = i /\ k - 1 + 1 = k
                     /\ i <= k - 1 => i # k
          BY <3>1
        <4> QED
          BY <3>1, <4>1, ZenonT(60)
      <3> QED
        BY <2>4, <3>1, <3>2, <3>3, ZenonT(60) DEF Spliced
    <2>10. /\ \A i \in 1 .. (k - 1) : s[i].base + s[i].len < m.base
           /\ \A i \in (k + 1) .. Len(s) : m.base + m.len < s[i].base
      <3>1. \A i \in 1 .. Len(s) : s[i].base \in Nat /\ s[i].len \in Nat
        <4>1. \A i \in 1 .. Len(s) : s[i] \in Chunk
          OBVIOUS
        <4> QED
          BY <4>1, ChunkIs, ZenonT(60)
      <3>2. /\ \A i \in 1 .. (k - 1) : i \in 1 .. Len(s) /\ i < k
            /\ \A i \in (k + 1) .. Len(s) : i \in 1 .. Len(s) /\ k < i
        OBVIOUS
      <3>3. /\ \A i \in 1 .. (k - 1) : s[i].base + s[i].len < s[k].base
            /\ \A i \in (k + 1) .. Len(s) : s[k].base + s[k].len < s[i].base
        BY <3>2, ZenonT(60) DEF Sorted
      <3>4. m.base + m.len = s[k].base + s[k].len /\ m.base >= s[k].base
        BY <1>1, <2>7
      <3>5. ASSUME NEW i \in 1 .. (k - 1) PROVE s[i].base + s[i].len < m.base
        <4>1. \A x, y, z, w \in Nat : x + y < z /\ w >= z => x + y < w
          OBVIOUS
        <4>2. m.base \in Nat
          BY <2>3, <2>7, ZenonT(60)
        <4> QED
          BY <1>1, <3>1, <3>2, <3>3, <3>4, <4>1, <4>2, ZenonT(60)
      <3>6. ASSUME NEW i \in (k + 1) .. Len(s) PROVE m.base + m.len < s[i].base
        BY <3>3, <3>4
      <3> QED
        BY <3>5, <3>6
    <2>11. r \in Seq(Chunk) /\ Sorted(r)
      <3>1. r \in Seq(Chunk)
        BY <2>9, ZenonT(60) DEF Spliced
      <3> QED
        BY <2>9, <2>10, <3>1, SplicedSorted
    <2>12. Range(r) = (Range(s) \ {s[k]}) \union {m}
      <3> DEFINE K == {j \in 1 .. Len(s) : j <= k - 1 \/ j >= k + 1}
      <3>1. Range(r) = {s[i] : i \in K} \union {m}
        BY <2>9, SplicedRange
      <3>2. \A j \in 1 .. Len(s) : j \in K <=> j # k
        OBVIOUS
      <3>3. \A j \in 1 .. Len(s) : s[j] = s[k] => j = k
        <4>1. ASSUME NEW j \in 1 .. Len(s), s[j] = s[k], j # k PROVE FALSE
          <5>1. j < k \/ k < j
            BY <4>1
          <5> QED
            BY <1>1, <4>1, <5>1 DEF Sorted
        <4> QED
          BY <4>1, ZenonT(60)
      <3>4. Range(s) = {s[i] : i \in 1 .. Len(s)}
        BY RangeIs, ZenonT(60)
      <3>5. K \subseteq 1 .. Len(s)
        OBVIOUS
      <3> HIDE DEF K
      <3>6. {s[i] : i \in K} = Range(s) \ {s[k]}
        BY <3>2, <3>3, <3>4, <3>5, ZenonT(60)
      <3> QED
        BY <3>1, <3>6, ZenonT(60)
    <2>13. ASSUME NEW x
           PROVE  /\ x \in Bytes(s[k]) <=> x \in Bytes(d) \/ x \in Bytes(m)
                  /\ ~(x \in Bytes(d) /\ x \in Bytes(m))
      <3>1. x \in Bytes(m) <=> x \in Int /\ m.base <= x /\ x < m.base + m.len
        BY <2>4, BytesIs, ZenonT(60)
      <3>2. x \in Bytes(d) <=> x \in Int /\ d.base <= x /\ x < d.base + d.len
        BY <2>6, BytesIs, ZenonT(60)
      <3>3. x \in Bytes(s[k]) <=> x \in Int /\ s[k].base <= x /\ x < s[k].base + s[k].len
        BY <1>1, BytesIs, ZenonT(60)
      <3>4. CASE x \notin Int
        BY <3>1, <3>2, <3>3, <3>4, ZenonT(60)
      <3>5. CASE x \in Int
        BY <1>1, <2>1, <2>6, <2>7, <3>1, <3>2, <3>3, <3>5
      <3> QED
        BY <3>4, <3>5, ZenonT(60)
    <2>14. Bytes(s[k]) = Bytes(d) \union UNION {Bytes(e) : e \in {m}}
      BY <2>13, ZenonT(60)
    <2>15. \A e \in {m} : Bytes(e) \intersect Bytes(d) = {} /\ {m} = {e}
      BY <2>13, ZenonT(60)
    <2>16. {m} \in SUBSET Chunk /\ d.len >= n
      BY <2>4, <2>6
    <2> QED
      BY <2>6, <2>11, <2>12, <2>14, <2>15, <2>16, ZenonT(60) DEF SplitOff, r, d
  <1>3. CASE ~splits(s[k], n)
    <2>1. d = s[k]
      BY <1>1, <1>3, <1>d, ZenonT(60) DEF taken_len
    <2>2. r = list_delete(s, k)
      BY <1>3, <1>r, ZenonT(60)
    <2>3. r \in Seq(Chunk) /\ Sorted(r) /\ Range(r) = Range(s) \ {s[k]}
      BY <2>2, DeleteSorted
    <2>4. Range(r) = (Range(s) \ {s[k]}) \union {}
      BY <2>3, ZenonT(60)
    <2>5. Bytes(s[k]) = Bytes(d) \union UNION {Bytes(m) : m \in {}}
      BY <2>1, ZenonT(60)
    <2> QED
      BY <1>1, <2>1, <2>3, <2>4, <2>5, ZenonT(60) DEF SplitOff, r, d
  <1> QED
    BY <1>2, <1>3
-----------------------------------------------------------------------------
(* Steps that leave the chunks where they are                              *)

\* Lists of one chunk and of none.
LEMMA ShortLists ==
  ASSUME NEW e
  PROVE  /\ Range(<<e>>) = {e} /\ IsInjective(<<e>>) /\ <<e>> # <<>>
         /\ Range(<<>>) = {} /\ IsInjective(<<>>)
  <1>1. DOMAIN <<e>> = {1} /\ <<e>>[1] = e /\ <<e>> # <<>>
    OBVIOUS
  <1>2. DOMAIN <<>> = {}
    OBVIOUS
  <1>3. Range(<<e>>) = {e}
    BY <1>1 DEF Range
  <1>4. IsInjective(<<e>>)
    BY <1>1 DEF IsInjective
  <1>5. Range(<<>>) = {}
    BY <1>2 DEF Range
  <1>6. IsInjective(<<>>)
    BY <1>2 DEF IsInjective
  <1> QED
    BY <1>1, <1>3, <1>4, <1>5, <1>6

\* A thread outside of the heap.
LEMMA NoCallIs ==
  /\ NoCall \in Call /\ NoCall.list = <<>> /\ NoCall.stage = "none" /\ NoCall.op = "none"
  BY DEF NoCall, Call

\* What a call is after its list.
LEMMA AfterList ==
  ASSUME NEW c \in Call, c.list = <<>>, c.op = "alloc" => <<c.size, c.align>> \in Request
  PROVE  /\ after_list(c) \in Call /\ after_list(c).list = <<>>
         /\ after_list(c).stage \in {"none", "lock"}
         /\ after_list(c).op = "alloc" => /\ <<after_list(c).size, after_list(c).align>> \in Request
                                          /\ PowerOfTwo(after_list(c).align)
  <1>1. CASE c.op = "stats" \/ (c.op = "alloc" /\ PowerOfTwo(c.align))
    <2>1. after_list(c) = [c EXCEPT !.stage = "lock"]
      BY <1>1, ZenonT(60) DEF after_list
    <2>2. /\ after_list(c) \in Call /\ after_list(c).list = <<>> /\ after_list(c).op = c.op
          /\ after_list(c).size = c.size /\ after_list(c).align = c.align
          /\ after_list(c).stage = "lock"
      BY <2>1 DEF Call
    <2>3. c.op = "stats" => c.op # "alloc"
      OBVIOUS
    <2> QED
      BY <1>1, <2>2, <2>3, ZenonT(60)
  <1>2. CASE ~(c.op = "stats" \/ (c.op = "alloc" /\ PowerOfTwo(c.align)))
    <2>1. after_list(c) = NoCall
      BY <1>2, ZenonT(60) DEF after_list
    <2>2. NoCall.op # "alloc"
      BY NoCallIs
    <2> QED
      BY <2>1, <2>2, NoCallIs, ZenonT(60)
  <1> QED
    BY <1>1, <1>2

LEMMA FlushIs ==
  ASSUME NEW c \in Call, c.list = <<>>, c.op = "alloc" => <<c.size, c.align>> \in Request
  PROVE  /\ flush(c) \in Call /\ flush(c).list = <<>>
         /\ flush(c).stage \in {"none", "lock", "flush"}
         /\ flush(c).op = "alloc" => <<flush(c).size, flush(c).align>> \in Request
         /\ flush(c).op = "alloc" /\ flush(c).stage = "lock" => PowerOfTwo(flush(c).align)
  <1>1. CASE delayed_free_list # <<>>
    <2>1. flush(c) = [c EXCEPT !.stage = "flush"]
      BY <1>1, ZenonT(60) DEF flush
    <2>2. /\ flush(c) \in Call /\ flush(c).list = <<>> /\ flush(c).op = c.op
          /\ flush(c).size = c.size /\ flush(c).align = c.align
          /\ flush(c).stage = "flush" /\ flush(c).stage # "lock"
      BY <2>1 DEF Call
    <2> QED
      BY <2>2, ZenonT(60)
  <1>2. CASE delayed_free_list = <<>>
    <2>1. flush(c) = after_list(c)
      BY <1>2, ZenonT(60) DEF flush
    <2> QED
      BY <2>1, AfterList, ZenonT(60)
  <1> QED
    BY <1>1, <1>2

\* The other calls are not disturbed by a call that has the lock, or that
\* leaves the free list alone and takes the lock from nobody.
LEMMA CallsKept ==
  ASSUME HeapInv, NEW t \in Thread, NEW c \in Call, set_call(t, c),
         CallOK(t)', PlaceOK(t)',
         \/ owner = t
         \/ free_list' = free_list /\ (owner' = owner \/ owner = NULL)
  PROVE  /\ call' \in [Thread -> Call] /\ call'[t] = c
         /\ \A u \in Thread \ {t} : call'[u] = call[u]
         /\ \A u \in Thread : CallOK(u)' /\ PlaceOK(u)'
  <1>1. call \in [Thread -> Call] /\ call' = [call EXCEPT ![t] = c]
    BY ZenonT(60) DEF HeapInv, HeapTypes, set_call
  <1>2. /\ call' \in [Thread -> Call] /\ call'[t] = c
        /\ \A u \in Thread \ {t} : call'[u] = call[u]
    BY <1>1
  <1>3. ASSUME NEW u \in Thread \ {t} PROVE CallOK(u)' /\ PlaceOK(u)'
    <2>1. call'[u] = call[u] /\ CallOK(u) /\ PlaceOK(u)
      BY <1>2, ZenonT(60) DEF HeapInv
    <2>2. CallOK(u)'
      BY <2>1, ZenonT(60) DEF CallOK
    <2>3. CASE call[u].stage # "update"
      BY <2>1, <2>2, <2>3, ZenonT(60) DEF PlaceOK
    <2>4. CASE call[u].stage = "update"
      <3>1. owner = u
        BY <2>1, <2>4, ZenonT(60) DEF PlaceOK
      <3>2. owner # t /\ owner # NULL
        BY <3>1, HeapAssumption, ZenonT(60)
      <3>3. free_list' = free_list /\ owner' = owner
        BY <3>2, ZenonT(60)
      <3> QED
        BY <2>1, <2>2, <3>3, ZenonT(60) DEF PlaceOK
    <2> QED
      BY <2>2, <2>3, <2>4, ZenonT(60)
  <1> QED
    BY <1>2, <1>3, ZenonT(60)

\* Only the stage of t's call changes, and who has the lock.
LEMMA SamePlaces ==
  ASSUME HeapInv, NEW t \in Thread, NEW c \in Call, set_call(t, c), c.list = call[t].list,
         UNCHANGED <<free_list, delayed_free_list, allocated, spare>>,
         \A u \in Thread : CallOK(u)' /\ PlaceOK(u)'
  PROVE  HeapInv' /\ Chunks' = Chunks
  <1>1. call \in [Thread -> Call] /\ call' = [call EXCEPT ![t] = c]
    BY ZenonT(60) DEF HeapInv, HeapTypes, set_call
  <1>2. call' \in [Thread -> Call] /\ \A u \in Thread : call'[u].list = call[u].list
    BY <1>1
  <1>3. /\ free_list' = free_list /\ delayed_free_list' = delayed_free_list
        /\ allocated' = allocated /\ spare' = spare
    OBVIOUS
  <1>4. HeapTypes'
    BY <1>2, <1>3, ZenonT(60) DEF HeapInv, HeapTypes
  <1>5. Sorted(free_list)'
    BY <1>3, ZenonT(60) DEF HeapInv, Sorted
  <1>6. Held' = Held /\ \A u \in Thread : Lists(u)' = Lists(u)
    BY <1>2, <1>3, ZenonT(60) DEF Held, Lists
  <1>7. Distinct'
    BY <1>2, <1>3, ZenonT(60) DEF HeapInv, Distinct
  <1>8. OnePlace'
    BY <1>3, <1>6, ZenonT(60) DEF HeapInv, OnePlace
  <1>9. Chunks' = Chunks
    <2>1. {Range(call[u].list) : u \in Thread}' = {Range(call[u].list) : u \in Thread}
      BY <1>2, ZenonT(60)
    <2> QED
      BY <1>3, <2>1, ZenonT(60) DEF Chunks
  <1>10. Apart'
    BY <1>3, <1>9, ZenonT(60) DEF HeapInv, Apart
  <1>11. (\A a \in allocated : Fits(a))'
    BY <1>3, ZenonT(60) DEF HeapInv, Fits
  <1> QED
    BY <1>4, <1>5, <1>7, <1>8, <1>9, <1>10, <1>11, ZenonT(60) DEF HeapInv

\* heap_alloc() and heap_get_stats() begin.
LEMMA BeginInv ==
  ASSUME HeapInv, NEW t \in Thread, NEW c \in Call, begin(t, flush(c)), c.list = <<>>,
         c.op = "alloc" => <<c.size, c.align>> \in Request,
         UNCHANGED <<delayed_free_list, allocated, spare>>
  PROVE  HeapInv' /\ Chunks' = Chunks
  <1> DEFINE d == flush(c)
  <1>1. /\ call[t] = NoCall /\ set_call(t, d) /\ owner' = owner /\ free_list' = free_list
        /\ UNCHANGED <<free_list, delayed_free_list, allocated, spare>>
    BY DEF begin, lockVars, listVars
  <1>2. /\ d \in Call /\ d.list = <<>> /\ d.stage \in {"none", "lock", "flush"}
        /\ d.op = "alloc" => <<d.size, d.align>> \in Request
        /\ d.op = "alloc" /\ d.stage = "lock" => PowerOfTwo(d.align)
    BY FlushIs, ZenonT(60)
  <1> HIDE DEF d
  <1>3. call \in [Thread -> Call]
    BY ZenonT(60) DEF HeapInv, HeapTypes
  <1>4. call'[t] = d
    BY <1>1, <1>3 DEF set_call
  <1>5. CallOK(t)'
    BY <1>2, <1>4 DEF CallOK
  <1>6. PlaceOK(t)'
    BY <1>2, <1>4 DEF PlaceOK
  <1>7. \A u \in Thread : CallOK(u)' /\ PlaceOK(u)'
    BY <1>1, <1>2, <1>5, <1>6, CallsKept, ZenonT(60)
  <1>8. d.list = call[t].list
    BY <1>1, <1>2, NoCallIs, ZenonT(60)
  <1> QED
    BY <1>1, <1>2, <1>7, <1>8, SamePlaces, ZenonT(60)

\* heap_alloc() begins.
LEMMA AllocInv ==
  ASSUME HeapInv, NEW t \in Thread, NEW r \in Request, heap_alloc(t, r[1], r[2])
  PROVE  HeapInv' /\ Chunks' = Chunks
  <1> DEFINE c == [NoCall EXCEPT !.op = "alloc", !.size = r[1], !.align = r[2]]
  <1>1. r[1] \in Nat /\ r[2] \in Nat /\ r = <<r[1], r[2]>>
    BY HeapAssumption
  <1>2. c \in Call /\ c.list = <<>> /\ c.size = r[1] /\ c.align = r[2]
    BY <1>1, NoCallIs DEF Call
  <1>3. begin(t, flush(c)) /\ UNCHANGED <<delayed_free_list, allocated, spare>>
    BY ZenonT(60) DEF heap_alloc
  <1> HIDE DEF c
  <1>4. <<c.size, c.align>> \in Request
    BY <1>1, <1>2, ZenonT(60)
  <1> QED
    BY <1>2, <1>3, <1>4, BeginInv, ZenonT(60)

\* heap_get_stats() begins.
LEMMA StatsInv ==
  ASSUME HeapInv, NEW t \in Thread, heap_get_stats(t)
  PROVE  HeapInv' /\ Chunks' = Chunks
  <1> DEFINE c == [NoCall EXCEPT !.op = "stats"]
  <1>1. c \in Call /\ c.list = <<>> /\ c.op # "alloc"
    BY NoCallIs DEF Call
  <1>2. begin(t, flush(c)) /\ UNCHANGED <<delayed_free_list, allocated, spare>>
    BY ZenonT(60) DEF heap_get_stats
  <1> HIDE DEF c
  <1> QED
    BY <1>1, <1>2, BeginInv, ZenonT(60)

\* A call takes theheap.lock, or gets in line for it.
LEMMA LockInv ==
  ASSUME HeapInv, NEW t \in Thread, heap_lock(t)
  PROVE  HeapInv' /\ Chunks' = Chunks
  <1> DEFINE d == [call[t] EXCEPT !.stage = "walk"]
  <1>1. /\ call[t].stage = "lock" /\ set_call(t, d)
        /\ free_list' = free_list /\ UNCHANGED <<free_list, delayed_free_list, allocated, spare>>
    BY DEF heap_lock, listVars
  <1>2. owner' = owner \/ owner = NULL
    BY ZenonT(60) DEF heap_lock, Acquire
  <1>3. call \in [Thread -> Call] /\ CallOK(t)
    BY ZenonT(60) DEF HeapInv, HeapTypes
  <1>4. /\ d \in Call /\ d.list = call[t].list /\ d.stage = "walk" /\ d.op = call[t].op
        /\ d.size = call[t].size /\ d.align = call[t].align
    BY <1>3 DEF Call
  <1> HIDE DEF d
  <1>5. call'[t] = d
    BY <1>1, <1>3 DEF set_call
  <1>6. CallOK(t)'
    BY <1>1, <1>3, <1>4, <1>5 DEF CallOK
  <1>7. PlaceOK(t)'
    BY <1>4, <1>5 DEF PlaceOK
  <1>8. \A u \in Thread : CallOK(u)' /\ PlaceOK(u)'
    BY <1>1, <1>2, <1>4, <1>6, <1>7, CallsKept, ZenonT(60)
  <1> QED
    BY <1>1, <1>4, <1>8, SamePlaces, ZenonT(60)

\* heap_alloc() gives up, heap_get_stats() is done.
LEMMA UnlockInv ==
  ASSUME HeapInv, NEW t \in Thread, heap_unlock(t)
  PROVE  HeapInv' /\ Chunks' = Chunks
  <1>1. /\ call[t].stage = "update" /\ call[t].list = <<>> /\ set_call(t, NoCall) /\ owner = t
        /\ UNCHANGED <<free_list, delayed_free_list, allocated, spare>>
    BY DEF heap_unlock, listVars, Release
  <1>2. call \in [Thread -> Call]
    BY ZenonT(60) DEF HeapInv, HeapTypes
  <1>3. call'[t] = NoCall
    BY <1>1, <1>2 DEF set_call
  <1>4. CallOK(t)' /\ PlaceOK(t)'
    BY <1>3, NoCallIs DEF CallOK, PlaceOK
  <1>5. \A u \in Thread : CallOK(u)' /\ PlaceOK(u)'
    BY <1>1, <1>4, NoCallIs, CallsKept, ZenonT(60)
  <1> QED
    BY <1>1, <1>5, NoCallIs, SamePlaces, ZenonT(60)
-----------------------------------------------------------------------------
(* Steps that move chunks                                                  *)

LEMMA Everywhere ==
  ASSUME NEW c
  PROVE  c \in Chunks <=> \/ c \in Range(free_list) \/ c \in Range(delayed_free_list)
                          \/ c \in Held \/ \E t \in Thread : c \in Lists(t)
  BY ZenonT(60) DEF Chunks, Held, Lists

LEMMA EverywhereNext ==
  ASSUME NEW c
  PROVE  c \in Chunks' <=> \/ c \in Range(free_list)' \/ c \in Range(delayed_free_list)'
                           \/ c \in Held' \/ \E t \in Thread : c \in Lists(t)'
  BY ZenonT(60) DEF Chunks, Held, Lists

\* Chunks lie where the invariant says.
LEMMA InPlace ==
  ASSUME HeapInv
  PROVE  /\ Range(free_list) \subseteq Chunk /\ Range(delayed_free_list) \subseteq Chunk
         /\ Held \subseteq Chunk /\ spare \subseteq Chunk
         /\ \A t \in Thread : call[t] \in Call /\ call[t].list \in Seq(Chunk) /\ Lists(t) \subseteq Chunk
  <1>1. /\ free_list \in Seq(Chunk) /\ delayed_free_list \in Seq(Chunk)
        /\ allocated \subseteq Allocation /\ spare \subseteq Block /\ call \in [Thread -> Call]
    BY ZenonT(60) DEF HeapInv, HeapTypes
  <1>2. Range(free_list) \subseteq Chunk /\ Range(delayed_free_list) \subseteq Chunk
    BY <1>1, RangeIs, ZenonT(60)
  <1>3. Held \subseteq Chunk
    BY <1>1 DEF Held, Allocation
  <1>4. spare \subseteq Chunk
    BY <1>1, BlockAssumption DEF Chunk
  <1>5. ASSUME NEW t \in Thread
        PROVE  call[t] \in Call /\ call[t].list \in Seq(Chunk) /\ Lists(t) \subseteq Chunk
    <2>1. call[t] \in Call
      BY <1>1
    <2>2. call[t].list \in Seq(Chunk)
      BY <2>1 DEF Call
    <2> QED
      BY <2>1, <2>2, RangeIs, ZenonT(60) DEF Lists
  <1> QED
    BY <1>2, <1>3, <1>4, <1>5, ZenonT(60)

\* A chunk goes from a caller, or from memory that is added, to the list of
\* t's call.
LEMMA BeginInsert ==
  ASSUME HeapInv, NEW t \in Thread, NEW c \in Held \union spare, begin(t, insert(c)),
         delayed_free_list' = delayed_free_list, allocated' \subseteq allocated,
         Held' = Held \ {c}, spare' = spare \ {c}
  PROVE  HeapInv' /\ Chunks' = Chunks \union {c}
  <1> DEFINE d == insert(c)
  <1>1. /\ call[t] = NoCall /\ set_call(t, d) /\ owner' = owner /\ free_list' = free_list
    BY DEF begin, lockVars, listVars
  <1>2. c \in Chunk
    BY InPlace, ZenonT(60)
  <1>3. d \in Call /\ d.list = <<c>> /\ d.stage = "lock" /\ d.op = "insert"
    <2>1. <<c>> \in Seq(Chunk)
      BY <1>2
    <2> QED
      BY <2>1, NoCallIs DEF Call, insert
  <1> HIDE DEF d
  <1>4. call \in [Thread -> Call] /\ call'[t] = d
    BY <1>1 DEF HeapInv, HeapTypes, set_call
  <1>5. CallOK(t)'
    BY <1>3, <1>4, ShortLists DEF CallOK
  <1>6. PlaceOK(t)'
    BY <1>3, <1>4 DEF PlaceOK
  <1>7. /\ call' \in [Thread -> Call] /\ \A u \in Thread \ {t} : call'[u] = call[u]
        /\ \A u \in Thread : CallOK(u)' /\ PlaceOK(u)'
    BY <1>1, <1>3, <1>5, <1>6, CallsKept, ZenonT(60)
  <1>8. HeapTypes'
    BY <1>1, <1>7, ZenonT(60) DEF HeapInv, HeapTypes
  <1>9. Sorted(free_list)'
    BY <1>1, ZenonT(60) DEF HeapInv, Sorted
  <1>10. Lists(t) = {} /\ Lists(t)' = {c} /\ \A u \in Thread \ {t} : Lists(u)' = Lists(u)
    BY <1>1, <1>3, <1>4, <1>7, NoCallIs, ShortLists, ZenonT(60) DEF Lists
  <1>11. Distinct'
    <2>1. \A u \in Thread : IsInjective(call'[u].list)
      BY <1>3, <1>4, <1>7, ShortLists, ZenonT(60) DEF HeapInv, Distinct
    <2> QED
      BY <2>1, ZenonT(60) DEF HeapInv, Distinct
  <1>12. OnePlace'
    BY <1>1, <1>10, ZenonT(60) DEF HeapInv, OnePlace
  <1>13. (Chunks \union spare)' \subseteq Chunks \union spare
    <2>1. ASSUME NEW x \in Chunks' PROVE x \in Chunks \union spare
      <3>1. \/ x \in Range(free_list)' \/ x \in Range(delayed_free_list)'
            \/ x \in Held' \/ \E u \in Thread : x \in Lists(u)'
        BY <2>1, ZenonT(60) DEF Chunks, Held, Lists
      <3> QED
        BY <1>1, <1>10, <3>1, Everywhere, ZenonT(60)
    <2> QED
      BY <2>1, ZenonT(60)
  <1>14. Apart'
    BY <1>13, ZenonT(60) DEF HeapInv, Apart
  <1>15. (\A a \in allocated : Fits(a))'
    BY ZenonT(60) DEF HeapInv, Fits
  <1>16. Chunks' = Chunks \union {c}
    <2>1. ASSUME NEW x PROVE x \in Chunks' <=> x \in Chunks \/ x = c
      <3>1. (\E u \in Thread : x \in Lists(u)') <=> x = c \/ \E u \in Thread : x \in Lists(u)
        BY <1>10, ZenonT(60)
      <3> QED
        BY <1>1, <3>1, Everywhere, EverywhereNext, ZenonT(60)
    <2> QED
      BY <2>1, ZenonT(60)
  <1> QED
    BY <1>7, <1>8, <1>9, <1>11, <1>12, <1>14, <1>15, <1>16, ZenonT(60) DEF HeapInv

\* A caller gives up what it holds.
LEMMA GivenUp ==
  ASSUME HeapInv, NEW a \in allocated, allocated' = allocated \ {a}
  PROVE  a.chunk \in Held /\ Held' = Held \ {a.chunk}
  BY ZenonT(60) DEF HeapInv, Distinct, Held

\* heap_free() puts the chunk of its argument on the list of the call.
LEMMA FreeInv ==
  ASSUME HeapInv, NEW t \in Thread, NEW a \in allocated, heap_free(t, a)
  PROVE  HeapInv' /\ Chunks' = Chunks
  <1>1. /\ begin(t, insert(a.chunk)) /\ allocated' = allocated \ {a}
        /\ delayed_free_list' = delayed_free_list /\ spare' = spare
    BY DEF heap_free
  <1>2. a.chunk \in Held /\ Held' = Held \ {a.chunk}
    BY <1>1, GivenUp, ZenonT(60)
  <1>3. spare' = spare \ {a.chunk} /\ allocated' \subseteq allocated
    BY <1>1, <1>2, ZenonT(60) DEF HeapInv, OnePlace
  <1>4. HeapInv' /\ Chunks' = Chunks \union {a.chunk}
    BY <1>1, <1>2, <1>3, BeginInsert, ZenonT(60)
  <1>5. a.chunk \in Chunks
    BY <1>2, Everywhere, ZenonT(60)
  <1> QED
    BY <1>4, <1>5, ZenonT(60)

\* heap_add_block() brings in memory that nobody has.
LEMMA AddBlockInv ==
  ASSUME HeapInv, NEW t \in Thread, NEW b \in spare, heap_add_block(t, b)
  PROVE  HeapInv' /\ Chunks' = Chunks \union {b}
  <1>1. /\ begin(t, insert(b)) /\ spare' = spare \ {b}
        /\ delayed_free_list' = delayed_free_list /\ allocated' = allocated
    BY DEF heap_add_block
  <1>2. Held' = Held \ {b} /\ allocated' \subseteq allocated
    BY <1>1, ZenonT(60) DEF HeapInv, OnePlace, Held
  <1> QED
    BY <1>1, <1>2, BeginInsert, ZenonT(60)

\* heap_delayed_free() moves a chunk to the delayed list.
LEMMA DelayedFreeInv ==
  ASSUME HeapInv, NEW a \in allocated, heap_delayed_free(a)
  PROVE  HeapInv' /\ Chunks' = Chunks
  <1>1. /\ delayed_free_list' = <<a.chunk>> \o delayed_free_list
        /\ allocated' = allocated \ {a}
        /\ owner' = owner /\ free_list' = free_list /\ spare' = spare /\ call' = call
    BY DEF heap_delayed_free, lockVars, listVars
  <1>2. a.chunk \in Held /\ Held' = Held \ {a.chunk}
    BY <1>1, GivenUp, ZenonT(60)
  <1>3. /\ delayed_free_list \in Seq(Chunk) /\ IsInjective(delayed_free_list)
        /\ a.chunk \in Chunk /\ a.chunk \notin Range(delayed_free_list)
    BY <1>2, InPlace, ZenonT(60) DEF HeapInv, HeapTypes, Distinct, OnePlace
  <1>4. /\ delayed_free_list' \in Seq(Chunk) /\ IsInjective(delayed_free_list')
        /\ Range(delayed_free_list') = Range(delayed_free_list) \union {a.chunk}
    BY <1>1, <1>3, PushIs, ZenonT(60)
  <1>5. HeapTypes'
    BY <1>1, <1>4, ZenonT(60) DEF HeapInv, HeapTypes
  <1>6. Sorted(free_list)'
    BY <1>1, ZenonT(60) DEF HeapInv, Sorted
  <1>7. \A u \in Thread : Lists(u)' = Lists(u)
    BY <1>1, ZenonT(60) DEF Lists
  <1>8. Distinct'
    BY <1>1, <1>4, ZenonT(60) DEF HeapInv, Distinct
  <1>9. OnePlace'
    BY <1>1, <1>2, <1>4, <1>7, ZenonT(60) DEF HeapInv, OnePlace
  <1>10. (Chunks \union spare)' \subseteq Chunks \union spare
    <2>1. ASSUME NEW x \in Chunks' PROVE x \in Chunks \union spare
      <3>1. \/ x \in Range(free_list)' \/ x \in Range(delayed_free_list)'
            \/ x \in Held' \/ \E u \in Thread : x \in Lists(u)'
        BY <2>1, ZenonT(60) DEF Chunks, Held, Lists
      <3> QED
        BY <1>1, <1>2, <1>4, <1>7, <3>1, Everywhere, ZenonT(60)
    <2> QED
      BY <1>1, <2>1, ZenonT(60)
  <1>11. Apart'
    BY <1>10, ZenonT(60) DEF HeapInv, Apart
  <1>12. (\A b \in allocated : Fits(b))'
    BY <1>1, ZenonT(60) DEF HeapInv, Fits
  <1>13. \A u \in Thread : CallOK(u)' /\ PlaceOK(u)'
    BY <1>1, ZenonT(60) DEF HeapInv, CallOK, PlaceOK
  <1>14. Chunks' = Chunks
    <2>1. ASSUME NEW x PROVE x \in Chunks' <=> x \in Chunks
      BY <1>1, <1>2, <1>4, <1>7, Everywhere, EverywhereNext, ZenonT(60)
    <2> QED
      BY <2>1, ZenonT(60)
  <1> QED
    BY <1>14, <1>5, <1>6, <1>8, <1>9, <1>11, <1>12, <1>13, ZenonT(60) DEF HeapInv

\* The delayed chunks go to the list of t's call.
LEMMA FreeDelayedInv ==
  ASSUME HeapInv, NEW t \in Thread, heap_free_delayed_list(t)
  PROVE  HeapInv' /\ Chunks' = Chunks
  <1>1. /\ call[t].stage = "flush" /\ delayed_free_list' = <<>>
        /\ owner' = owner /\ free_list' = free_list /\ spare' = spare /\ allocated' = allocated
        /\ set_call(t, IF delayed_taken = <<>> THEN after_list(call[t])
                       ELSE [call[t] EXCEPT !.list = delayed_taken, !.stage = "lock"])
    BY DEF heap_free_delayed_list, lockVars, listVars
  <1>2. /\ call \in [Thread -> Call] /\ call[t] \in Call /\ CallOK(t)
        /\ delayed_free_list \in Seq(Chunk) /\ IsInjective(delayed_free_list)
    BY InPlace, ZenonT(60) DEF HeapInv, HeapTypes, Distinct
  <1>3. call[t].list = <<>> /\ (call[t].op = "alloc" => <<call[t].size, call[t].align>> \in Request)
    BY <1>1, <1>2, ZenonT(60) DEF CallOK
  <1>4. /\ delayed_taken \in Seq(Chunk) /\ IsInjective(delayed_taken)
        /\ Range(delayed_taken) = Range(delayed_free_list)
        /\ delayed_taken = <<>> <=> delayed_free_list = <<>>
    BY <1>2, ReverseIs, ZenonT(60)
  <1>5. CASE delayed_taken = <<>>
    <2> DEFINE d == after_list(call[t])
    <2>1. set_call(t, d)
      BY <1>1, <1>5, ZenonT(60)
    <2>2. /\ d \in Call /\ d.list = <<>> /\ d.stage \in {"none", "lock"}
          /\ d.op = "alloc" => <<d.size, d.align>> \in Request /\ PowerOfTwo(d.align)
      BY <1>2, <1>3, AfterList, ZenonT(60)
    <2> HIDE DEF d
    <2>3. call'[t] = d
      BY <1>2, <2>1 DEF set_call
    <2>4. CallOK(t)'
      BY <2>2, <2>3 DEF CallOK
    <2>5. PlaceOK(t)'
      BY <2>2, <2>3 DEF PlaceOK
    <2>6. \A u \in Thread : CallOK(u)' /\ PlaceOK(u)'
      BY <1>1, <2>1, <2>2, <2>4, <2>5, CallsKept, ZenonT(60)
    <2>7. d.list = call[t].list
      BY <1>3, <2>2, ZenonT(60)
    <2>8. delayed_free_list' = delayed_free_list
      BY <1>1, <1>4, <1>5, ZenonT(60)
    <2>9. UNCHANGED <<free_list, delayed_free_list, allocated, spare>>
      BY <1>1, <2>8
    <2> QED
      BY <2>1, <2>2, <2>6, <2>7, <2>9, SamePlaces, ZenonT(60)
  <1>6. CASE delayed_taken # <<>>
    <2> DEFINE d == [call[t] EXCEPT !.list = delayed_taken, !.stage = "lock"]
    <2>1. set_call(t, d)
      BY <1>1, <1>6, ZenonT(60)
    <2>2. /\ d \in Call /\ d.list = delayed_taken /\ d.stage = "lock"
          /\ d.op = call[t].op /\ d.size = call[t].size /\ d.align = call[t].align
      BY <1>2, <1>4 DEF Call
    <2> HIDE DEF d
    <2>3. call'[t] = d
      BY <1>2, <2>1 DEF set_call
    <2>4. CallOK(t)'
      BY <1>3, <1>6, <2>2, <2>3 DEF CallOK
    <2>5. PlaceOK(t)'
      BY <2>2, <2>3 DEF PlaceOK
    <2>6. /\ call' \in [Thread -> Call] /\ \A u \in Thread \ {t} : call'[u] = call[u]
          /\ \A u \in Thread : CallOK(u)' /\ PlaceOK(u)'
      BY <1>1, <2>1, <2>2, <2>4, <2>5, CallsKept, ZenonT(60)
    <2>7. /\ delayed_free_list' \in Seq(Chunk) /\ IsInjective(delayed_free_list')
          /\ Range(delayed_free_list') = {}
      <3>1. delayed_free_list' \in Seq(Chunk)
        BY <1>1
      <3> QED
        BY <1>1, <3>1, ShortLists, ZenonT(60)
    <2>8. HeapTypes'
      BY <1>1, <2>6, <2>7, ZenonT(60) DEF HeapInv, HeapTypes
    <2>9. Sorted(free_list)'
      BY <1>1, ZenonT(60) DEF HeapInv, Sorted
    <2>10. /\ Lists(t)' = Range(delayed_free_list) /\ Held' = Held
           /\ \A u \in Thread \ {t} : Lists(u)' = Lists(u)
      BY <1>1, <1>4, <2>2, <2>3, <2>6, ZenonT(60) DEF Lists, Held
    <2>11. Distinct'
      <3>1. \A u \in Thread : IsInjective(call'[u].list)
        BY <1>4, <2>2, <2>3, <2>6, ZenonT(60) DEF HeapInv, Distinct
      <3> QED
        BY <1>1, <2>7, <3>1, ZenonT(60) DEF HeapInv, Distinct
    <2>12. OnePlace'
      <3>1. OnePlace
        BY ZenonT(60) DEF HeapInv
      <3>2. ASSUME NEW u \in Thread
            PROVE  /\ (Lists(u) \intersect Range(free_list) = {})'
                   /\ (Lists(u) \intersect Range(delayed_free_list) = {})'
                   /\ (Lists(u) \intersect Held = {})'
                   /\ (Lists(u) \intersect spare = {})'
        <4>1. CASE u = t
          BY <1>1, <2>7, <2>10, <3>1, <4>1, ZenonT(60) DEF OnePlace
        <4>2. CASE u # t
          BY <1>1, <2>7, <2>10, <3>1, <4>2, ZenonT(60) DEF OnePlace
        <4> QED
          BY <4>1, <4>2, ZenonT(60)
      <3>3. ASSUME NEW u \in Thread, NEW v \in Thread \ {u}
            PROVE  (Lists(u) \intersect Lists(v) = {})'
        <4>1. /\ Lists(u) \intersect Lists(v) = {}
              /\ Lists(u) \intersect Range(delayed_free_list) = {}
              /\ Lists(v) \intersect Range(delayed_free_list) = {}
          BY <3>1, ZenonT(60) DEF OnePlace
        <4>2. CASE u = t
          <5>1. Lists(u)' = Range(delayed_free_list) /\ Lists(v)' = Lists(v)
            BY <2>10, <4>2, ZenonT(60)
          <5> QED
            BY <4>1, <5>1, ZenonT(60)
        <4>3. CASE v = t
          <5>1. Lists(v)' = Range(delayed_free_list) /\ Lists(u)' = Lists(u)
            BY <2>10, <4>3, ZenonT(60)
          <5> QED
            BY <4>1, <5>1, ZenonT(60)
        <4>4. CASE u # t /\ v # t
          <5>1. Lists(v)' = Lists(v) /\ Lists(u)' = Lists(u)
            BY <2>10, <4>4, ZenonT(60)
          <5> QED
            BY <4>1, <5>1, ZenonT(60)
        <4> QED
          BY <4>2, <4>3, <4>4, ZenonT(60)
      <3>4. /\ (Range(free_list) \intersect Range(delayed_free_list) = {})'
            /\ (Range(free_list) \intersect Held = {})'
            /\ (Range(free_list) \intersect spare = {})'
            /\ (Range(delayed_free_list) \intersect Held = {})'
            /\ (Range(delayed_free_list) \intersect spare = {})'
            /\ (Held \intersect spare = {})'
        BY <1>1, <2>7, <2>10, <3>1, ZenonT(60) DEF OnePlace
      <3> QED
        BY <3>2, <3>3, <3>4, ZenonT(60) DEF OnePlace
    <2>13. (Chunks \union spare)' \subseteq Chunks \union spare
      <3>1. ASSUME NEW x \in Chunks' PROVE x \in Chunks \union spare
        <4>1. \/ x \in Range(free_list)' \/ x \in Range(delayed_free_list)'
              \/ x \in Held' \/ \E u \in Thread : x \in Lists(u)'
          BY <3>1, ZenonT(60) DEF Chunks, Held, Lists
        <4> QED
          BY <1>1, <2>7, <2>10, <4>1, Everywhere, ZenonT(60)
      <3> QED
        BY <1>1, <3>1, ZenonT(60)
    <2>14. Apart'
      BY <2>13, ZenonT(60) DEF HeapInv, Apart
    <2>15. (\A a \in allocated : Fits(a))'
      BY <1>1, ZenonT(60) DEF HeapInv, Fits
    <2>16. Chunks' = Chunks
      <3>1. ASSUME NEW x PROVE x \in Chunks' <=> x \in Chunks
        <4>1. Lists(t) = {}
          BY <1>3, ShortLists, ZenonT(60) DEF Lists
        <4>2. (\E u \in Thread : x \in Lists(u)')
                <=> x \in Range(delayed_free_list) \/ \E u \in Thread : x \in Lists(u)
          BY <2>10, <4>1, ZenonT(60)
        <4> QED
          BY <1>1, <2>7, <2>10, <4>2, Everywhere, EverywhereNext, ZenonT(60)
      <3> QED
        BY <3>1, ZenonT(60)
    <2> QED
      BY <2>16, <2>6, <2>8, <2>9, <2>11, <2>12, <2>14, <2>15, ZenonT(60) DEF HeapInv
  <1> QED
    BY <1>5, <1>6

\* The call after heap_insert_free_chunk() has inserted the first chunk.
Continued(c) ==
  LET rest == [c EXCEPT !.list = Tail(@), !.at = 0]
  IN  IF rest.list = <<>> THEN after_list(rest) ELSE [rest EXCEPT !.stage = "lock"]

LEMMA RestIs ==
  ASSUME NEW c \in Call, c.list # <<>>, c.op = "alloc" => <<c.size, c.align>> \in Request,
         IsInjective(c.list)
  PROVE  LET d == Continued(c)
         IN  /\ d \in Call /\ d.list = Tail(c.list) /\ d.stage \in {"none", "lock"}
             /\ d.op = "alloc" => <<d.size, d.align>> \in Request
             /\ d.op = "alloc" /\ d.list = <<>> => PowerOfTwo(d.align)
             /\ d.stage = "none" => d.list = <<>>
  <1> DEFINE rest == [c EXCEPT !.list = Tail(@), !.at = 0]
             d == Continued(c)
  <1>d. d = IF rest.list = <<>> THEN after_list(rest) ELSE [rest EXCEPT !.stage = "lock"]
    BY DEF Continued
  <1>1. c.list \in Seq(Chunk)
    BY DEF Call
  <1>2. Tail(c.list) \in Seq(Chunk)
    BY <1>1, TailIs, ZenonT(60)
  <1>3. /\ rest \in Call /\ rest.list = Tail(c.list) /\ rest.op = c.op
        /\ rest.size = c.size /\ rest.align = c.align
    BY <1>2 DEF Call
  <1> HIDE DEF d, rest
  <1>4. CASE rest.list = <<>>
    <2>1. d = after_list(rest)
      BY <1>4, <1>d, ZenonT(60)
    <2>2. rest.op = "alloc" => <<rest.size, rest.align>> \in Request
      BY <1>3, ZenonT(60)
    <2>3. /\ d \in Call /\ d.list = <<>> /\ d.stage \in {"none", "lock"}
          /\ d.op = "alloc" => <<d.size, d.align>> \in Request /\ PowerOfTwo(d.align)
      BY <1>3, <1>4, <2>1, <2>2, AfterList, ZenonT(60)
    <2> QED
      BY <1>3, <1>4, <2>3, ZenonT(60) DEF d
  <1>5. CASE rest.list # <<>>
    <2>1. d = [rest EXCEPT !.stage = "lock"]
      BY <1>5, <1>d, ZenonT(60)
    <2>2. /\ d \in Call /\ d.list = rest.list /\ d.stage = "lock" /\ d.stage # "none"
          /\ d.op = rest.op /\ d.size = rest.size /\ d.align = rest.align
      BY <1>3, <2>1 DEF Call
    <2> QED
      BY <1>3, <1>5, <2>2, ZenonT(60) DEF d
  <1> QED
    BY <1>4, <1>5 DEF d

\* What heap_insert_free_chunk() does to the free list: the first chunk of
\* t's list and the chunks N it touches have become m.
LEMMA InsertMerges ==
  ASSUME HeapInv, NEW t \in Thread, heap_insert_free_chunk(t)
  PROVE  /\ Head(call[t].list) \in Lists(t) /\ Head(call[t].list) \in Chunk
         /\ free_list' \in Seq(Chunk) /\ Sorted(free_list')
         /\ Absorbed(free_list', free_list, Head(call[t].list))
  <1> DEFINE c == Head(call[t].list)
             k == call[t].at
  <1>1. /\ call[t].stage = "update" /\ call[t].list # <<>>
        /\ free_list' = try_merge(list_add_before(free_list, k, c), k)
    BY ZenonT(60) DEF heap_insert_free_chunk
  <1>2. /\ call[t].list \in Seq(Chunk) /\ IsInjective(call[t].list)
        /\ free_list \in Seq(Chunk) /\ Sorted(free_list)
    BY InPlace, ZenonT(60) DEF HeapInv, HeapTypes, Distinct
  <1>3. c \in Lists(t) /\ c \in Chunk
    BY <1>1, <1>2, TailIs, ZenonT(60) DEF Lists
  <1>4. PlaceOK(t)
    BY ZenonT(60) DEF HeapInv
  <1>5. /\ k \in 1 .. (Len(free_list) + 1)
        /\ \A i \in 1 .. Len(free_list) :
             IF i < k THEN free_list[i].base <= c.base ELSE c.base < free_list[i].base
    BY <1>1, <1>4, ZenonT(60) DEF PlaceOK
  <1> HIDE DEF c, k
  <1>6. ASSUME NEW i \in 1 .. Len(free_list)
        PROVE  IF i < k THEN free_list[i].base + free_list[i].len <= c.base
               ELSE c.base + c.len <= free_list[i].base
    <2> DEFINE f == free_list[i]
    <2>1. f \in Range(free_list) /\ f \in Chunk
      <3>1. Range(free_list) = {free_list[j] : j \in 1 .. Len(free_list)}
        BY <1>2, RangeIs
      <3>2. f \in Range(free_list)
        BY <3>1, ZenonT(60)
      <3> QED
        BY <3>2, InPlace, ZenonT(60)
    <2>2. Bytes(c) \intersect Bytes(f) = {} /\ Bytes(f) \intersect Bytes(c) = {}
      <3>1. f # c /\ f \in Chunks /\ c \in Chunks
        BY <1>3, <2>1, Everywhere, ZenonT(60) DEF HeapInv, OnePlace
      <3> QED
        BY <3>1, ZenonT(60) DEF HeapInv, Apart
    <2>3. /\ c.base <= f.base => c.base + c.len <= f.base
          /\ f.base <= c.base => f.base + f.len <= c.base
      BY <1>3, <2>1, <2>2, ApartInOrder, ZenonT(60)
    <2>4. c.base \in Nat /\ f.base \in Nat
      BY <1>3, <2>1, ChunkIs, ZenonT(60)
    <2>5. c.base < f.base => c.base <= f.base
      BY <2>4
    <2> QED
      BY <1>5, <2>3, <2>5, ZenonT(60)
  <1>7. free_list' \in Seq(Chunk) /\ Sorted(free_list') /\ Absorbed(free_list', free_list, c)
    <2>1. Between(free_list, k, c)
      BY <1>6, ZenonT(60) DEF Between
    <2>2. free_list' = try_merge(list_add_before(free_list, k, c), k)
      BY <1>1 DEF c, k
    <2>3. c \in Chunk /\ k \in 1 .. (Len(free_list) + 1)
      BY <1>3, <1>5, ZenonT(60)
    <2> DEFINE r == try_merge(list_add_before(free_list, k, c), k)
    <2>4. r \in Seq(Chunk) /\ Sorted(r) /\ Absorbed(r, free_list, c)
      BY <1>2, <2>1, <2>3, Merged, ZenonT(60)
    <2> HIDE DEF r
    <2> QED
      BY <2>2, <2>4, ZenonT(60) DEF r
  <1> QED
    BY <1>3, <1>7 DEF c

\* The chunk goes from the list of the call to the free list, and memory stays.
LEMMA InsertInv ==
  ASSUME HeapInv, NEW t \in Thread, heap_insert_free_chunk(t)
  PROVE  HeapInv' /\ Memory' = Memory
  <1> DEFINE c == Head(call[t].list)
             d == Continued(call[t])
  <1>1. /\ call[t].list # <<>> /\ owner = t /\ set_call(t, d)
        /\ delayed_free_list' = delayed_free_list /\ allocated' = allocated /\ spare' = spare
    BY DEF heap_insert_free_chunk, Release, Continued
  <1>2. /\ call \in [Thread -> Call] /\ call[t] \in Call /\ CallOK(t)
        /\ call[t].list \in Seq(Chunk) /\ IsInjective(call[t].list) /\ OnePlace /\ Apart
    BY InPlace, ZenonT(60) DEF HeapInv, HeapTypes, Distinct
  <1>3. /\ d \in Call /\ d.list = Tail(call[t].list) /\ d.stage \in {"none", "lock"}
        /\ d.op = "alloc" => <<d.size, d.align>> \in Request
        /\ d.op = "alloc" /\ d.list = <<>> => PowerOfTwo(d.align)
        /\ d.stage = "none" => d.list = <<>>
    <2>1. call[t].op = "alloc" => <<call[t].size, call[t].align>> \in Request
      BY <1>2, ZenonT(60) DEF CallOK
    <2> QED
      BY <1>1, <1>2, <2>1, RestIs, ZenonT(60)
  <1>4. PICK m \in Chunk, N \in SUBSET Range(free_list) :
          /\ Range(free_list') = (Range(free_list) \ N) \union {m}
          /\ Bytes(m) = Bytes(c) \union UNION {Bytes(n) : n \in N}
    BY InsertMerges, ZenonT(60) DEF Absorbed
  <1>5. /\ free_list' \in Seq(Chunk) /\ Sorted(free_list') /\ c \in Lists(t) /\ c \in Chunk
    BY InsertMerges, ZenonT(60)
  <1> HIDE DEF d
  <1>6. call'[t] = d
    BY <1>1, <1>2 DEF set_call
  <1>7. CallOK(t)'
    BY <1>3, <1>6 DEF CallOK
  <1>8. PlaceOK(t)'
    BY <1>3, <1>6 DEF PlaceOK
  <1>9. /\ call' \in [Thread -> Call] /\ \A u \in Thread \ {t} : call'[u] = call[u]
        /\ \A u \in Thread : CallOK(u)' /\ PlaceOK(u)'
    BY <1>1, <1>3, <1>7, <1>8, CallsKept, ZenonT(60)
  <1>10. HeapTypes'
    BY <1>1, <1>5, <1>9, ZenonT(60) DEF HeapInv, HeapTypes
  <1>11. /\ IsInjective(Tail(call[t].list))
         /\ Range(Tail(call[t].list)) = Range(call[t].list) \ {c}
    BY <1>1, <1>2, TailIs, ZenonT(60)
  <1>12. Distinct'
    <2>1. \A u \in Thread : IsInjective(call'[u].list)
      BY <1>3, <1>6, <1>9, <1>11, ZenonT(60) DEF HeapInv, Distinct
    <2> QED
      BY <1>1, <2>1, ZenonT(60) DEF HeapInv, Distinct
  <1>13. /\ Lists(t)' = Lists(t) \ {c} /\ Held' = Held
         /\ \A u \in Thread \ {t} : Lists(u)' = Lists(u)
    BY <1>1, <1>3, <1>6, <1>9, <1>11, ZenonT(60) DEF Lists, Held
  <1> HIDE DEF c
  <1>14. c \in Chunks \union spare /\ \A n \in N : n \in Chunks \union spare
    BY <1>5, Everywhere, ZenonT(60)
  <1>15. c.base \in Bytes(c) /\ c.base \in Bytes(m)
    BY <1>4, <1>5, BytesIs, ZenonT(60)
  \* A chunk that is not merged is none of those that are, and apart from m.
  <1>16. ASSUME NEW x \in Chunks \union spare, x # c, x \notin N
         PROVE  Bytes(x) \intersect Bytes(m) = {} /\ x # m
    <2>1. Bytes(x) \intersect Bytes(c) = {} /\ \A n \in N : Bytes(x) \intersect Bytes(n) = {}
      BY <1>2, <1>14, <1>16, ZenonT(60) DEF Apart
    <2>2. Bytes(x) \intersect Bytes(m) = {}
      <3>1. ASSUME NEW y \in Bytes(x), y \in Bytes(m) PROVE FALSE
        <4>1. y \in Bytes(c) \/ \E n \in N : y \in Bytes(n)
          <5>1. y \in Bytes(c) \union UNION {Bytes(n) : n \in N}
            BY <1>4, <3>1
          <5> QED
            BY <5>1
        <4> QED
          BY <2>1, <3>1, <4>1, ZenonT(60)
      <3> QED
        BY <3>1, ZenonT(60)
    <2>3. x # m
      <3>1. c.base \notin Bytes(x)
        BY <1>15, <2>1, ZenonT(60)
      <3> QED
        BY <1>15, <3>1, ZenonT(60)
    <2> QED
      BY <2>2, <2>3, ZenonT(60)
  <1>17. ASSUME NEW x, \/ x \in Range(free_list) \ N \/ x \in Range(delayed_free_list)
                       \/ x \in Held \/ x \in spare \/ x \in Lists(t) \ {c}
                       \/ \E u \in Thread \ {t} : x \in Lists(u)
         PROVE  x \in Chunks \union spare /\ x # c /\ x \notin N
    <2>1. x \in Chunks \union spare
      BY <1>17, Everywhere, ZenonT(60)
    <2>2. x # c
      BY <1>2, <1>5, <1>17, ZenonT(60) DEF OnePlace
    <2>3. x \notin N
      BY <1>2, <1>4, <1>17, ZenonT(60) DEF OnePlace
    <2> QED
      BY <2>1, <2>2, <2>3, ZenonT(60)
  <1>18. /\ m \notin Range(delayed_free_list) /\ m \notin Held /\ m \notin spare
         /\ \A u \in Thread : m \notin Lists(u)'
    BY <1>13, <1>16, <1>17, ZenonT(60)
  <1>19. OnePlace'
    <2>1. ASSUME NEW u \in Thread PROVE Lists(u)' \subseteq Lists(u)
      BY <1>13, ZenonT(60)
    <2>2. Range(free_list') \subseteq Range(free_list) \union {m}
      BY <1>4, ZenonT(60)
    <2>3. ASSUME NEW u \in Thread
          PROVE  /\ Lists(u)' \intersect Range(free_list') = {}
                 /\ Lists(u)' \intersect Range(delayed_free_list') = {}
                 /\ Lists(u)' \intersect Held' = {}
                 /\ Lists(u)' \intersect spare' = {}
                 /\ \A v \in Thread \ {u} : Lists(u)' \intersect Lists(v)' = {}
      <3>1. /\ Lists(u) \intersect Range(free_list) = {} /\ m \notin Lists(u)'
            /\ Lists(u) \intersect Range(delayed_free_list) = {}
            /\ Lists(u) \intersect Held = {} /\ Lists(u) \intersect spare = {}
        BY <1>2, <1>18, ZenonT(60) DEF OnePlace
      <3>2. Lists(u)' \intersect Range(free_list') = {}
        BY <2>1, <2>2, <3>1, ZenonT(60)
      <3>3. /\ Lists(u)' \intersect Range(delayed_free_list') = {}
            /\ Lists(u)' \intersect Held' = {} /\ Lists(u)' \intersect spare' = {}
        BY <1>1, <1>13, <2>1, <3>1, ZenonT(60)
      <3>4. ASSUME NEW v \in Thread \ {u} PROVE Lists(u)' \intersect Lists(v)' = {}
        <4>1. Lists(u) \intersect Lists(v) = {}
          BY <1>2, ZenonT(60) DEF OnePlace
        <4> QED
          BY <2>1, <4>1, ZenonT(60)
      <3> QED
        BY <3>2, <3>3, <3>4, ZenonT(60)
    <2>4. /\ Range(free_list') \intersect Range(delayed_free_list') = {}
          /\ Range(free_list') \intersect Held' = {}
          /\ Range(free_list') \intersect spare' = {}
          /\ Range(delayed_free_list') \intersect Held' = {}
          /\ Range(delayed_free_list') \intersect spare' = {}
          /\ Held' \intersect spare' = {}
      BY <1>1, <1>2, <1>13, <1>18, <2>2, ZenonT(60) DEF OnePlace
    <2> QED
      BY <2>3, <2>4, ZenonT(60) DEF OnePlace
  <1>20. ASSUME NEW x \in (Chunks \union spare)', x # m
         PROVE  x \in Chunks \union spare /\ x # c /\ x \notin N
    <2>1. \/ x \in Range(free_list') \/ x \in Range(delayed_free_list')
          \/ x \in Held' \/ x \in spare' \/ \E u \in Thread : x \in Lists(u)'
      BY <1>20, ZenonT(60) DEF Chunks, Held, Lists
    <2>2. \/ x \in Range(free_list) \ N \/ x \in Range(delayed_free_list)
          \/ x \in Held \/ x \in spare \/ x \in Lists(t) \ {c}
          \/ \E u \in Thread \ {t} : x \in Lists(u)
      BY <1>1, <1>4, <1>13, <1>20, <2>1, ZenonT(60)
    <2> QED
      BY <1>17, <2>2, ZenonT(60)
  <1>21. Apart'
    <2>1. ASSUME NEW x \in (Chunks \union spare)', NEW y \in (Chunks \union spare)', x # y
          PROVE  Bytes(x) \intersect Bytes(y) = {}
      BY <1>2, <1>16, <1>20, <2>1, ZenonT(60) DEF Apart
    <2> QED
      BY <2>1, ZenonT(60) DEF Apart
  <1>22. (\A a \in allocated : Fits(a))'
    BY <1>1, ZenonT(60) DEF HeapInv, Fits
  <1>23. Sorted(free_list)'
    BY <1>5, ZenonT(60) DEF Sorted
  \* The chunks m is made of are gone, the others are where they were.
  <1>24. ASSUME NEW x PROVE x \in Chunks' <=> x = m \/ (x \in Chunks /\ x # c /\ x \notin N)
    <2>1. (\E u \in Thread : x \in Lists(u)')
            <=> \/ x \in Lists(t) \ {c} \/ \E u \in Thread \ {t} : x \in Lists(u)
      BY <1>13, ZenonT(60)
    <2>2. x \in Chunks' <=> \/ x = m \/ x \in Range(free_list) \ N
                            \/ x \in Range(delayed_free_list) \/ x \in Held
                            \/ x \in Lists(t) \ {c} \/ \E u \in Thread \ {t} : x \in Lists(u)
      <3>1. x \in Range(free_list') <=> x = m \/ x \in Range(free_list) \ N
        BY <1>4, ZenonT(60)
      <3> QED
        BY <1>1, <1>13, <2>1, <3>1, EverywhereNext, ZenonT(60)
    <2>3. x \in Chunks /\ x # c /\ x \notin N =>
            \/ x \in Range(free_list) \ N
            \/ x \in Range(delayed_free_list) \/ x \in Held
            \/ x \in Lists(t) \ {c} \/ \E u \in Thread \ {t} : x \in Lists(u)
      BY Everywhere, ZenonT(60)
    <2>4. x \in Range(free_list) \ N \/ x \in Range(delayed_free_list) \/ x \in Held
          \/ x \in Lists(t) \ {c} \/ (\E u \in Thread \ {t} : x \in Lists(u)) =>
            x \in Chunks /\ x # c /\ x \notin N
      BY <1>17, Everywhere, ZenonT(60)
    <2> QED
      BY <2>2, <2>3, <2>4, ZenonT(60)
  <1>25. Memory' = Memory
    <2>1. ASSUME NEW y PROVE y \in Memory' <=> y \in Memory
      <3>1. y \in Memory' <=> \E x \in Chunks' : y \in Bytes(x)
        BY ZenonT(60) DEF Memory
      <3>2. y \in Memory <=> \E x \in Chunks : y \in Bytes(x)
        BY ZenonT(60) DEF Memory
      <3>3. y \in Bytes(m) <=> y \in Bytes(c) \/ \E n \in N : y \in Bytes(n)
        <4>1. y \in Bytes(m) <=> y \in Bytes(c) \union UNION {Bytes(n) : n \in N}
          BY <1>4
        <4> QED
          BY <4>1
      <3>4. c \in Chunks /\ \A n \in N : n \in Chunks
        BY <1>5, Everywhere, ZenonT(60)
      <3> QED
        BY <1>24, <3>1, <3>2, <3>3, <3>4, ZenonT(60)
    <2> QED
      BY <2>1, ZenonT(60)
  <1> QED
    BY <1>25, <1>9, <1>10, <1>12, <1>19, <1>21, <1>22, <1>23, ZenonT(60) DEF HeapInv

\* What heap_alloc_take() does: the chunk its walk has found is cut, and the
\* caller's memory lies in the part that is taken.
LEMMA TakeSplits ==
  ASSUME HeapInv, NEW t \in Thread, heap_alloc_take(t)
  PROVE  \E f \in Range(free_list), a \in Allocation :
           /\ allocated' = allocated \union {a} /\ Fits(a)
           /\ free_list' \in Seq(Chunk) /\ Sorted(free_list')
           /\ SplitOff(free_list', free_list, f, a.chunk)
  <1> DEFINE c == call[t]
             k == c.at
             n == chunk_len(c.size, c.align)
             d == Taken(free_list[k], n)
             p == user_ptr(free_list[k].base, c.align)
             a == [ptr |-> p, len |-> c.size, align |-> c.align, chunk |-> d]
  <1>1. /\ c.stage = "update" /\ c.list = <<>> /\ k > 0
        /\ free_list' = Shrunk(free_list, k, n) /\ allocated' = allocated \union {a}
    BY DEF heap_alloc_take, Shrunk, Taken
  <1>2. /\ free_list \in Seq(Chunk) /\ Sorted(free_list) /\ PlaceOK(t) /\ CallOK(t)
    BY ZenonT(60) DEF HeapInv, HeapTypes
  <1>3. /\ c.op = "alloc" /\ k \in 1 .. Len(free_list) /\ free_list[k].len >= n
        /\ <<c.size, c.align>> \in Request /\ PowerOfTwo(c.align)
    <2>1. c.op = "alloc" /\ k \in 1 .. Len(free_list) /\ free_list[k].len >= n
      BY <1>1, <1>2, ZenonT(60) DEF PlaceOK
    <2> QED
      BY <1>1, <1>2, <2>1, ZenonT(60) DEF CallOK
  <1> DEFINE size == c.size
             align == c.align
             f == free_list[k]
  <1>4. free_list[k] \in Range(free_list) /\ free_list[k] \in Chunk
    <2>1. free_list[k] \in Chunk
      BY <1>2, <1>3
    <2>2. Range(free_list) = {free_list[i] : i \in 1 .. Len(free_list)}
      BY <1>2, RangeIs, ZenonT(60)
    <2> QED
      BY <1>3, <2>1, <2>2, ZenonT(60)
  <1>5. f.base \in Nat
    BY <1>4, ChunkIs, ZenonT(60)
  <1>6. /\ size \in Nat /\ align \in Nat /\ n \in Nat /\ n >= CHUNK_SIZE /\ n % POINTER = 0
        /\ p \in Nat /\ p - BEGIN_SIZE >= f.base /\ p + size <= f.base + n
        /\ align # 0 => p % align = 0
    BY <1>3, <1>5, ChunkLenIs, ZenonT(60)
  <1>7. /\ free_list' \in Seq(Chunk) /\ Sorted(free_list')
        /\ d \in Chunk /\ d.base = f.base /\ d.len >= n
        /\ SplitOff(free_list', free_list, f, d)
    <2> HIDE DEF n, k
    <2> QED
      BY <1>1, <1>2, <1>3, <1>6, Split, ZenonT(60)
  <1>8. d.len \in Nat
    BY <1>7, ChunkIs, ZenonT(60)
  <1>9. a.ptr = p /\ a.len = size /\ a.align = align /\ a.chunk = d
    OBVIOUS
  <1>10. a \in Allocation
    BY <1>6, <1>7, ZenonT(60) DEF Allocation
  <1>11. p + size <= f.base + d.len
    <2> HIDE DEF p, size, d, n, f
    <2> QED
      BY <1>5, <1>6, <1>7, <1>8
  <1> HIDE DEF p, size, align, d, n, f, a
  <1>12. Fits(a)
    BY <1>6, <1>7, <1>9, <1>11, ZenonT(60) DEF Fits
  <1> QED
    BY <1>1, <1>4, <1>7, <1>9, <1>10, <1>12, ZenonT(60) DEF f

\* A chunk of the free list goes to a caller, and memory stays.
LEMMA TakeInv ==
  ASSUME HeapInv, NEW t \in Thread, heap_alloc_take(t)
  PROVE  HeapInv' /\ Memory' = Memory
  <1>1. /\ call[t].list = <<>> /\ owner = t /\ set_call(t, NoCall)
        /\ delayed_free_list' = delayed_free_list /\ spare' = spare
    BY DEF heap_alloc_take, Release
  <1>2. call \in [Thread -> Call] /\ OnePlace /\ Apart
    BY ZenonT(60) DEF HeapInv, HeapTypes
  <1>3. PICK f \in Range(free_list), a \in Allocation :
          /\ allocated' = allocated \union {a} /\ Fits(a)
          /\ free_list' \in Seq(Chunk) /\ Sorted(free_list')
          /\ SplitOff(free_list', free_list, f, a.chunk)
    BY TakeSplits, ZenonT(60)
  <1> DEFINE d == a.chunk
  <1>4. PICK M \in SUBSET Chunk :
          /\ Range(free_list') = (Range(free_list) \ {f}) \union M
          /\ Bytes(f) = Bytes(d) \union UNION {Bytes(m) : m \in M}
          /\ \A m \in M : Bytes(m) \intersect Bytes(d) = {} /\ M = {m}
    BY <1>3, ZenonT(60) DEF SplitOff
  <1>5. d \in Chunk
    BY DEF Allocation
  <1>6. call'[t] = NoCall
    BY <1>1, <1>2 DEF set_call
  <1>7. /\ call' \in [Thread -> Call] /\ \A u \in Thread \ {t} : call'[u] = call[u]
        /\ \A u \in Thread : CallOK(u)' /\ PlaceOK(u)'
    <2>1. CallOK(t)' /\ PlaceOK(t)'
      BY <1>6, NoCallIs DEF CallOK, PlaceOK
    <2> QED
      BY <1>1, <2>1, NoCallIs, CallsKept, ZenonT(60)
  <1>8. HeapTypes'
    BY <1>1, <1>3, <1>7, ZenonT(60) DEF HeapInv, HeapTypes
  <1>9. /\ Held' = Held \union {d}
        /\ \A u \in Thread : call'[u].list = call[u].list /\ Lists(u)' = Lists(u)
    <2>1. Held' = Held \union {d}
      BY <1>3, ZenonT(60) DEF Held
    <2>2. \A u \in Thread : call'[u].list = call[u].list
      BY <1>1, <1>6, <1>7, NoCallIs, ZenonT(60)
    <2> QED
      BY <2>1, <2>2, ZenonT(60) DEF Lists
  <1> HIDE DEF d
  \* Other chunks have none of the bytes of f, and what it became has no others.
  <1>10. ASSUME NEW x \in Chunks \union spare, x # f, NEW e, e = d \/ e \in M
         PROVE  Bytes(x) \intersect Bytes(e) = {} /\ x # e
    <2>1. Bytes(x) \intersect Bytes(f) = {}
      BY <1>2, <1>10, Everywhere, ZenonT(60) DEF Apart
    <2>2. Bytes(e) \subseteq Bytes(f)
      <3>1. ASSUME NEW y \in Bytes(e) PROVE y \in Bytes(d) \union UNION {Bytes(m) : m \in M}
        BY <1>10
      <3> QED
        BY <1>4, <3>1
    <2>3. e.base \in Bytes(e)
      <3>1. e \in Chunk
        BY <1>5, <1>10, ZenonT(60)
      <3> QED
        BY <3>1, BytesIs, ZenonT(60)
    <2> QED
      BY <2>1, <2>2, <2>3, ZenonT(60)
  <1>11. ASSUME NEW x, \/ x \in Range(free_list) \ {f} \/ x \in Range(delayed_free_list)
                       \/ x \in Held \/ x \in spare \/ \E u \in Thread : x \in Lists(u)
         PROVE  x \in Chunks \union spare /\ x # f
    <2>1. x \in Chunks \union spare
      BY <1>11, Everywhere, ZenonT(60)
    <2>2. x # f
      BY <1>2, <1>11, ZenonT(60) DEF OnePlace
    <2> QED
      BY <2>1, <2>2, ZenonT(60)
  <1>12. ASSUME NEW e, e = d \/ e \in M
         PROVE  /\ e \notin Range(free_list) \ {f}
                /\ e \notin Range(delayed_free_list) /\ e \notin Held /\ e \notin spare
                /\ \A u \in Thread : e \notin Lists(u)
    BY <1>10, <1>11, <1>12, ZenonT(60)
  <1>13. d \notin M
    <2>1. ASSUME d \in M PROVE FALSE
      <3>1. d.base \in Bytes(d)
        BY <1>5, BytesIs, ZenonT(60)
      <3> QED
        BY <1>4, <2>1, <3>1, ZenonT(60)
    <2> QED
      BY <2>1
  <1>14. d \notin Range(free_list')
    BY <1>4, <1>12, <1>13, ZenonT(60)
  <1>15. Distinct'
    <2>1. ASSUME NEW x \in allocated', NEW y \in allocated', x.chunk = y.chunk PROVE x = y
      <3>1. \A z \in allocated : z.chunk # d
        BY <1>12, ZenonT(60) DEF Held
      <3>2. x \in allocated \/ x = a
        BY <1>3, ZenonT(60)
      <3>3. y \in allocated \/ y = a
        BY <1>3, ZenonT(60)
      <3> QED
        BY <2>1, <3>1, <3>2, <3>3, ZenonT(60) DEF HeapInv, Distinct, d
    <2>2. \A u \in Thread : IsInjective(call'[u].list)
      BY <1>9, ZenonT(60) DEF HeapInv, Distinct
    <2>3. IsInjective(delayed_free_list')
      BY <1>1, ZenonT(60) DEF HeapInv, Distinct
    <2> QED
      BY <2>1, <2>2, <2>3, ZenonT(60) DEF Distinct
  <1>16. OnePlace'
    <2>1. Range(free_list') \subseteq (Range(free_list) \ {f}) \union M
      BY <1>4, ZenonT(60)
    <2>2. ASSUME NEW u \in Thread
          PROVE  /\ Lists(u)' \intersect Range(free_list') = {}
                 /\ Lists(u)' \intersect Range(delayed_free_list') = {}
                 /\ Lists(u)' \intersect Held' = {}
                 /\ Lists(u)' \intersect spare' = {}
                 /\ \A v \in Thread \ {u} : Lists(u)' \intersect Lists(v)' = {}
      <3>1. /\ Lists(u) \intersect Range(free_list) = {}
            /\ Lists(u) \intersect Range(delayed_free_list) = {}
            /\ Lists(u) \intersect Held = {} /\ Lists(u) \intersect spare = {}
            /\ \A v \in Thread \ {u} : Lists(u) \intersect Lists(v) = {}
        BY <1>2, ZenonT(60) DEF OnePlace
      <3>0. /\ Lists(u)' = Lists(u) /\ Held' = Held \union {d}
            /\ d \notin Lists(u) /\ \A e \in M : e \notin Lists(u)
        BY <1>9, <1>12, ZenonT(60)
      <3>2. Lists(u)' \intersect Range(free_list') = {}
        BY <2>1, <3>0, <3>1, ZenonT(60)
      <3>3. Lists(u)' \intersect Held' = {}
        BY <3>0, <3>1, ZenonT(60)
      <3>4. /\ Lists(u)' \intersect Range(delayed_free_list') = {}
            /\ Lists(u)' \intersect spare' = {}
        BY <1>1, <1>9, <3>1, ZenonT(60)
      <3>5. \A v \in Thread \ {u} : Lists(u)' \intersect Lists(v)' = {}
        BY <1>9, <3>1, ZenonT(60)
      <3> QED
        BY <3>2, <3>3, <3>4, <3>5, ZenonT(60)
    <2>3. /\ Range(free_list) \intersect Range(delayed_free_list) = {}
          /\ Range(free_list) \intersect Held = {}
          /\ Range(free_list) \intersect spare = {}
          /\ Range(delayed_free_list) \intersect Held = {}
          /\ Range(delayed_free_list) \intersect spare = {}
          /\ Held \intersect spare = {}
      BY <1>2, ZenonT(60) DEF OnePlace
    <2>4. Range(free_list') \intersect Range(delayed_free_list') = {}
      BY <1>1, <1>12, <2>1, <2>3, ZenonT(60)
    <2>5. Range(free_list') \intersect Held' = {}
      BY <1>9, <1>12, <1>14, <2>1, <2>3, ZenonT(60)
    <2>6. Range(free_list') \intersect spare' = {}
      BY <1>1, <1>12, <2>1, <2>3, ZenonT(60)
    <2>7. /\ Range(delayed_free_list') \intersect Held' = {}
          /\ Range(delayed_free_list') \intersect spare' = {}
          /\ Held' \intersect spare' = {}
      BY <1>1, <1>9, <1>12, <2>3, ZenonT(60)
    <2> QED
      BY <2>2, <2>4, <2>5, <2>6, <2>7, ZenonT(60) DEF OnePlace
  <1>17. ASSUME NEW x \in (Chunks \union spare)'
         PROVE  \/ x = d \/ x \in M
                \/ x \in Chunks \union spare /\ x # f
    <2>1. \/ x \in Range(free_list') \/ x \in Range(delayed_free_list')
          \/ x \in Held' \/ x \in spare' \/ \E u \in Thread : x \in Lists(u)'
      BY <1>17, ZenonT(60) DEF Chunks, Held, Lists
    <2>2. \/ x = d \/ x \in M \/ x \in Range(free_list) \ {f} \/ x \in Range(delayed_free_list)
          \/ x \in Held \/ x \in spare \/ \E u \in Thread : x \in Lists(u)
      <3>1. x \in Range(free_list') => x \in M \/ x \in Range(free_list) \ {f}
        BY <1>4, ZenonT(60)
      <3>2. x \in Held' => x = d \/ x \in Held
        BY <1>9, ZenonT(60)
      <3>3. \A u \in Thread : x \in Lists(u)' => x \in Lists(u)
        BY <1>9, ZenonT(60)
      <3> QED
        BY <1>1, <2>1, <3>1, <3>2, <3>3, ZenonT(60)
    <2> QED
      BY <1>11, <2>2, ZenonT(60)
  <1>18. Apart'
    <2>1. ASSUME NEW x \in (Chunks \union spare)', NEW y \in (Chunks \union spare)', x # y
          PROVE  Bytes(x) \intersect Bytes(y) = {}
      <3>1. CASE (x = d \/ x \in M) /\ (y = d \/ y \in M)
        BY <1>4, <2>1, <3>1, ZenonT(60)
      <3>2. CASE (x = d \/ x \in M) /\ y \in Chunks \union spare /\ y # f
        BY <1>10, <3>2, ZenonT(60)
      <3>3. CASE (y = d \/ y \in M) /\ x \in Chunks \union spare /\ x # f
        BY <1>10, <3>3, ZenonT(60)
      <3>4. CASE x \in Chunks \union spare /\ y \in Chunks \union spare
        BY <1>2, <2>1, <3>4, ZenonT(60) DEF Apart
      <3> QED
        BY <1>17, <3>1, <3>2, <3>3, <3>4, ZenonT(60)
    <2> QED
      BY <2>1, ZenonT(60) DEF Apart
  <1>19. (\A b \in allocated : Fits(b))'
    BY <1>3, ZenonT(60) DEF HeapInv, Fits
  <1>20. Sorted(free_list)'
    BY <1>3, ZenonT(60) DEF Sorted
  <1>21. ASSUME NEW x PROVE x \in Chunks' <=> x = d \/ x \in M \/ (x \in Chunks /\ x # f)
    <2>1. (\E u \in Thread : x \in Lists(u)') <=> \E u \in Thread : x \in Lists(u)
      BY <1>9, ZenonT(60)
    <2>2. x \in Range(free_list') <=> x \in M \/ x \in Range(free_list) \ {f}
      BY <1>4, ZenonT(60)
    <2>3. x \in Held' <=> x = d \/ x \in Held
      BY <1>9, ZenonT(60)
    <2>4. x \in Chunks' <=> \/ x = d \/ x \in M \/ x \in Range(free_list) \ {f}
                            \/ x \in Range(delayed_free_list) \/ x \in Held
                            \/ \E u \in Thread : x \in Lists(u)
      BY <1>1, <2>1, <2>2, <2>3, EverywhereNext, ZenonT(60)
    <2>5. x \in Range(free_list) \ {f} \/ x \in Range(delayed_free_list) \/ x \in Held
          \/ (\E u \in Thread : x \in Lists(u)) <=> x \in Chunks /\ x # f
      BY <1>11, Everywhere, ZenonT(60)
    <2> QED
      BY <2>4, <2>5, ZenonT(60)
  <1>22. Memory' = Memory
    <2>1. ASSUME NEW y PROVE y \in Memory' <=> y \in Memory
      <3>1. y \in Memory' <=> \E x \in Chunks' : y \in Bytes(x)
        BY ZenonT(60) DEF Memory
      <3>2. y \in Memory <=> \E x \in Chunks : y \in Bytes(x)
        BY ZenonT(60) DEF Memory
      <3>3. y \in Bytes(f) <=> y \in Bytes(d) \/ \E m \in M : y \in Bytes(m)
        <4>1. y \in Bytes(f) <=> y \in Bytes(d) \union UNION {Bytes(m) : m \in M}
          BY <1>4
        <4> QED
          BY <4>1
      <3>4. f \in Chunks
        BY Everywhere, ZenonT(60)
      <3> QED
        BY <1>21, <3>1, <3>2, <3>3, <3>4, ZenonT(60)
    <2> QED
      BY <2>1, ZenonT(60)
  <1> QED
    BY <1>22, <1>7, <1>8, <1>15, <1>16, <1>18, <1>19, <1>20, ZenonT(60) DEF HeapInv
-----------------------------------------------------------------------------
(* The heap as an allocator                                                *)

\* What a caller has, and the byte before it, are bytes of its chunk.
LEMMA LiveInChunk ==
  ASSUME HeapInv, NEW a \in allocated
  PROVE  /\ A!Bytes(Live(a)) \subseteq Bytes(a.chunk) /\ a.ptr - 1 \in Bytes(a.chunk)
         /\ a.chunk \in Chunks /\ Bytes(a.chunk) \subseteq Memory
  <1>1. /\ a.chunk \in Chunk /\ a.ptr \in Nat /\ a.len \in Nat /\ Fits(a) /\ a.chunk \in Chunks
    BY DEF HeapInv, HeapTypes, Allocation, Chunks
  <1>2. a.chunk.base \in Nat /\ a.chunk.len \in Nat
    BY <1>1, ChunkIs, ZenonT(60)
  <1>3. BEGIN_SIZE \in Nat /\ BEGIN_SIZE > 0
    BY HeapAssumption
  <1>4. \A x : x \in Bytes(a.chunk)
          <=> x \in Int /\ a.chunk.base <= x /\ x < a.chunk.base + a.chunk.len
    BY <1>1, BytesIs, ZenonT(60)
  <1>5. a.ptr - BEGIN_SIZE >= a.chunk.base /\ a.ptr + a.len <= a.chunk.base + a.chunk.len
    BY <1>1, ZenonT(60) DEF Fits
  <1>6. A!Bytes(Live(a)) = a.ptr .. (a.ptr + a.len - 1)
    BY DEF A!Bytes, Live
  <1>7. A!Bytes(Live(a)) \subseteq Bytes(a.chunk)
    <2>1. ASSUME NEW x \in a.ptr .. (a.ptr + a.len - 1)
          PROVE  x \in Int /\ a.chunk.base <= x /\ x < a.chunk.base + a.chunk.len
      BY <1>1, <1>2, <1>3, <1>5
    <2> QED
      BY <1>4, <1>6, <2>1, ZenonT(60)
  <1>8. /\ a.ptr - 1 \in Int /\ a.chunk.base <= a.ptr - 1
        /\ a.ptr - 1 < a.chunk.base + a.chunk.len
    BY <1>1, <1>2, <1>3, <1>5
  <1>9. a.ptr - 1 \in Bytes(a.chunk)
    BY <1>4, <1>8, ZenonT(60)
  <1> QED
    BY <1>1, <1>7, <1>9, ZenonT(60) DEF Memory

LEMMA LiveInChunkNext ==
  (HeapInv => \A a \in allocated :
     /\ A!Bytes(Live(a)) \subseteq Bytes(a.chunk)
     /\ a.chunk \in Chunks /\ Bytes(a.chunk) \subseteq Memory)'
  <1>1. HeapInv => \A a \in allocated :
          /\ A!Bytes(Live(a)) \subseteq Bytes(a.chunk)
          /\ a.chunk \in Chunks /\ Bytes(a.chunk) \subseteq Memory
    BY LiveInChunk, ZenonT(60)
  <1> QED
    BY <1>1, PTL

\* Callers can tell their allocations apart.
LEMMA LiveOnce ==
  ASSUME HeapInv, NEW a \in allocated, NEW b \in allocated, Live(a) = Live(b)
  PROVE  a = b
  <1>1. a.ptr = b.ptr
    BY DEF Live
  <1>2. a.ptr - 1 \in Bytes(a.chunk) /\ a.ptr - 1 \in Bytes(b.chunk)
    BY <1>1, LiveInChunk, ZenonT(60)
  <1>3. a.chunk \in Chunks /\ b.chunk \in Chunks
    BY LiveInChunk, ZenonT(60)
  <1>4. a.chunk = b.chunk
    BY <1>2, <1>3, ZenonT(60) DEF HeapInv, Apart
  <1> QED
    BY <1>4, ZenonT(60) DEF HeapInv, Distinct

\* What the callers have, as the abstract allocator sees it.
live == {Live(a) : a \in allocated}

\* heap_alloc() is a step of the allocator.
LEMMA TakeAllocates ==
  ASSUME HeapInv, HeapInv', NEW t \in Thread, heap_alloc_take(t), Memory' = Memory
  PROVE  A!Alloc \/ UNCHANGED <<Memory, live>>
  <1>1. PICK a \in Allocation : allocated' = allocated \union {a} /\ Fits(a)
    BY TakeSplits, ZenonT(60)
  <1> DEFINE r == Live(a)
  <1>2. live' = live \union {r}
    BY <1>1, ZenonT(60) DEF live
  <1>3. CASE r \in live
    BY <1>2, <1>3
  <1>4. CASE r \notin live
    <2>1. a \in allocated' /\ a \notin allocated
      BY <1>1, <1>4, ZenonT(60) DEF live
    <2>2. A!Bytes(r) \subseteq Bytes(a.chunk) /\ a.chunk \in Chunks' /\ Bytes(a.chunk) \subseteq Memory'
      BY <2>1, LiveInChunkNext, ZenonT(60)
    <2>3. A!Bytes(r) \subseteq Memory
      BY <2>2, ZenonT(60)
    <2>4. r.align # 0 => r.ptr % r.align = 0
      BY <1>1 DEF Fits, Live
    <2>5. ASSUME NEW o \in live PROVE A!Bytes(r) \intersect A!Bytes(o) = {}
      <3>1. PICK b \in allocated : o = Live(b)
        BY ZenonT(60) DEF live
      <3>2. b \in allocated' /\ b # a
        BY <1>1, <2>1, ZenonT(60)
      <3>3. A!Bytes(o) \subseteq Bytes(b.chunk) /\ b.chunk \in Chunks'
        BY <3>1, <3>2, LiveInChunkNext, ZenonT(60)
      <3>4. a.chunk # b.chunk
        BY <2>1, <3>2, ZenonT(60) DEF HeapInv, Distinct
      <3>5. Bytes(a.chunk) \intersect Bytes(b.chunk) = {}
        BY <2>2, <3>3, <3>4, ZenonT(60) DEF HeapInv, Apart
      <3> QED
        BY <2>2, <3>3, <3>5, ZenonT(60)
    <2> HIDE DEF r
    <2>6. A!Granted(r)
      BY <2>3, <2>4, <2>5, ZenonT(60) DEF A!Granted, Memory, live, Live
    <2> QED
      BY <1>2, <1>4, <2>6, ZenonT(60) DEF A!Alloc, Memory, live, Live
  <1> QED
    BY <1>3, <1>4

\* Steps that leave allocations alone.
LEMMA NothingAllocated ==
  ASSUME Chunks' = Chunks, allocated' = allocated
  PROVE  UNCHANGED <<Memory, live>>
  <1>1. Memory' = Memory
    BY ZenonT(60) DEF Memory
  <1>2. live' = live
    BY ZenonT(60) DEF live
  <1> QED
    BY <1>1, <1>2

\* So are heap_free() and heap_delayed_free().
LEMMA FreeFrees ==
  ASSUME HeapInv, NEW a \in allocated, allocated' = allocated \ {a}, Chunks' = Chunks
  PROVE  A!Free
  <1>1. Memory' = Memory
    BY ZenonT(60) DEF Memory
  <1>2. Live(a) \in live
    BY ZenonT(60) DEF live
  <1>3. \A b \in allocated : Live(b) = Live(a) => b = a
    BY LiveOnce, ZenonT(60)
  <1>4. live' = live \ {Live(a)}
    <2>1. ASSUME NEW x \in live' PROVE x \in live \ {Live(a)}
      <3>1. PICK b \in allocated \ {a} : x = Live(b)
        BY <2>1, ZenonT(60) DEF live
      <3> QED
        BY <1>3, <3>1, ZenonT(60) DEF live
    <2>2. ASSUME NEW x \in live \ {Live(a)} PROVE x \in live'
      <3>1. PICK b \in allocated : x = Live(b)
        BY <2>2, ZenonT(60) DEF live
      <3>2. b \in allocated'
        BY <2>2, <3>1, ZenonT(60)
      <3> QED
        BY <3>1, <3>2, ZenonT(60) DEF live
    <2> QED
      BY <2>1, <2>2, ZenonT(60)
  <1> QED
    BY <1>1, <1>2, <1>4, ZenonT(60) DEF A!Free, Memory, live, Live

\* And heap_add_block().
LEMMA AddBlockAdds ==
  ASSUME HeapInv, NEW b \in spare, allocated' = allocated, Chunks' = Chunks \union {b}
  PROVE  A!AddBlock
  <1>1. b \notin Chunks
    BY Everywhere, ZenonT(60) DEF HeapInv, OnePlace
  <1>2. b.base \in Bytes(b)
    BY InPlace, BytesIs, ZenonT(60)
  <1>3. b.base \notin Memory
    <2>1. ASSUME NEW c \in Chunks PROVE b.base \notin Bytes(c)
      BY <1>1, <1>2, ZenonT(60) DEF HeapInv, Apart
    <2> QED
      BY <2>1, ZenonT(60) DEF Memory
  <1>4. Memory \subseteq Memory' /\ b.base \in Memory'
    BY <1>2, ZenonT(60) DEF Memory
  <1>5. Memory # Memory'
    BY <1>3, <1>4, ZenonT(60)
  <1>6. live' = live
    BY ZenonT(60) DEF live
  <1> QED
    BY <1>4, <1>5, <1>6, ZenonT(60) DEF A!AddBlock, Memory, live, Live
-----------------------------------------------------------------------------
(* The walks                                                               *)

LOCAL WF == INSTANCE WellFoundedInduction

\* A nonempty set of naturals has a least element.
LEMMA Least ==
  ASSUME NEW T \in SUBSET Nat, T # {}
  PROVE  Min(T) \in T /\ \A k \in T : Min(T) <= k
  <1> DEFINE R == WF!OpToRel(<, Nat)
  <1>1. WF!IsWellFoundedOn(R, Nat)
    BY WF!NatLessThanWellFounded, ZenonT(60)
  <1> HIDE DEF R
  <1>2. PICK m \in T : \A y \in T : ~(<<y, m>> \in R)
    BY <1>1, WF!WFMin, ZenonT(60)
  <1>3. \A y \in T : ~(y < m)
    BY <1>2, ZenonT(60) DEF R, WF!OpToRel
  <1>4. \A k \in T : m <= k
    BY <1>2, <1>3
  <1> QED
    BY <1>2, <1>4, ZenonT(60) DEF Min

\* heap_insert_free_chunk() finds the place of c in the order of addresses.
LEMMA InsertPosition ==
  ASSUME free_list \in Seq(Chunk), Sorted(free_list), NEW c \in Chunk
  PROVE  /\ insert_position(c) \in 1 .. (Len(free_list) + 1)
         /\ \A i \in 1 .. Len(free_list) :
              IF i < insert_position(c) THEN free_list[i].base <= c.base
              ELSE c.base < free_list[i].base
  <1> DEFINE above == {i \in 1 .. Len(free_list) : c.base < free_list[i].base}
             p == insert_position(c)
  <1>1. p = IF above = {} THEN Len(free_list) + 1 ELSE Min(above)
    BY DEF insert_position
  <1>2. Len(free_list) \in Nat /\ c.base \in Nat
    BY ChunkIs
  <1>3. \A i \in 1 .. Len(free_list) : free_list[i].base \in Nat /\ free_list[i].len \in Nat
    <2>1. \A i \in 1 .. Len(free_list) : free_list[i] \in Chunk
      OBVIOUS
    <2> QED
      BY <2>1, ChunkIs, ZenonT(60)
  <1>4. \A i \in 1 .. Len(free_list) :
          /\ i \in above => c.base < free_list[i].base
          /\ i \notin above => free_list[i].base <= c.base
    BY <1>2, <1>3
  <1> HIDE DEF p
  <1>5. CASE above = {}
    <2>1. p = Len(free_list) + 1
      BY <1>1, <1>5, ZenonT(60)
    <2>2. p \in 1 .. (Len(free_list) + 1) /\ \A i \in 1 .. Len(free_list) : i < p
      BY <1>2, <2>1
    <2> HIDE DEF above
    <2> QED
      BY <1>4, <1>5, <2>2, ZenonT(60) DEF p
  <1>6. CASE above # {}
    <2>1. above \in SUBSET Nat
      BY <1>2
    <2>2. p = Min(above)
      BY <1>1, <1>6, ZenonT(60)
    <2>3. above \subseteq 1 .. Len(free_list)
      OBVIOUS
    <2> HIDE DEF above
    <2>4. p \in above /\ \A i \in above : p <= i
      BY <1>6, <2>1, <2>2, Least, ZenonT(60)
    <2>5. p \in 1 .. Len(free_list) /\ p \in 1 .. (Len(free_list) + 1)
      BY <1>2, <2>3, <2>4
    <2>6. ASSUME NEW i \in 1 .. Len(free_list)
          PROVE  IF i < p THEN free_list[i].base <= c.base ELSE c.base < free_list[i].base
      <3>1. CASE i < p
        <4>1. i \notin above
          BY <2>4, <2>5, <3>1
        <4> QED
          BY <1>4, <3>1, <4>1, ZenonT(60)
      <3>2. CASE ~(i < p)
        <4>1. c.base < free_list[p].base
          BY <1>4, <2>4, <2>5, ZenonT(60)
        <4>2. i = p \/ p < i
          BY <2>5, <3>2
        <4>3. p < i => free_list[p].base + free_list[p].len < free_list[i].base
          BY <2>5, ZenonT(60) DEF Sorted
        <4> QED
          BY <1>2, <1>3, <2>5, <3>2, <4>1, <4>2, <4>3
      <3> QED
        BY <3>1, <3>2
    <2> QED
      BY <2>5, <2>6, ZenonT(60) DEF p
  <1> QED
    BY <1>5, <1>6

\* The chunk heap_alloc() finds is on the list and long enough.
LEMMA FitPosition ==
  ASSUME free_list \in Seq(Chunk), NEW n \in Nat
  PROVE  /\ fit_position(n) \in Nat
         /\ fit_position(n) > 0 => /\ fit_position(n) \in 1 .. Len(free_list)
                                   /\ free_list[fit_position(n)].len >= n
  <1> DEFINE fits == {i \in 1 .. Len(free_list) : free_list[i].len >= n}
             p == fit_position(n)
  <1>1. p = IF fits = {} THEN 0 ELSE Min(fits)
    BY DEF fit_position
  <1>2. CASE fits = {}
    BY <1>1, <1>2
  <1>3. CASE fits # {}
    <2>1. fits \in SUBSET Nat
      OBVIOUS
    <2>2. p = Min(fits)
      BY <1>1, <1>3, ZenonT(60)
    <2>3. p \in fits
      <3> HIDE DEF fits
      <3> QED
        BY <1>3, <2>1, <2>2, Least, ZenonT(60)
    <2> HIDE DEF p
    <2> QED
      BY <2>1, <2>3 DEF p
  <1> QED
    BY <1>2, <1>3

\* The walk finds the place for the update.
LEMMA WalkInv ==
  ASSUME HeapInv, NEW t \in Thread, heap_walk(t)
  PROVE  HeapInv' /\ Chunks' = Chunks
  <1> DEFINE c == call[t]
             n == chunk_len(c.size, c.align)
             at == IF c.list # <<>> THEN insert_position(Head(c.list))
                   ELSE IF c.op = "alloc" THEN fit_position(n) ELSE 0
             d == [c EXCEPT !.stage = "update", !.at = at]
  <1>1. /\ c.stage = "walk" /\ owner = t /\ set_call(t, d) /\ owner' = owner
        /\ free_list' = free_list /\ UNCHANGED <<free_list, delayed_free_list, allocated, spare>>
    BY DEF heap_walk, listVars, lockVars
  <1>2. /\ call \in [Thread -> Call] /\ c \in Call /\ CallOK(t) /\ c.list \in Seq(Chunk)
        /\ free_list \in Seq(Chunk) /\ Sorted(free_list) /\ IsInjective(c.list)
    BY InPlace, ZenonT(60) DEF HeapInv, HeapTypes, Distinct
  <1>3. c.list # <<>> =>
          /\ at \in 1 .. (Len(free_list) + 1)
          /\ \A i \in 1 .. Len(free_list) :
               IF i < at THEN free_list[i].base <= Head(c.list).base
               ELSE Head(c.list).base < free_list[i].base
    <2>1. ASSUME c.list # <<>>
          PROVE  /\ at \in 1 .. (Len(free_list) + 1)
                 /\ \A i \in 1 .. Len(free_list) :
                      IF i < at THEN free_list[i].base <= Head(c.list).base
                      ELSE Head(c.list).base < free_list[i].base
      <3>1. at = insert_position(Head(c.list)) /\ Head(c.list) \in Chunk
        BY <1>2, <2>1, TailIs, ZenonT(60)
      <3> HIDE DEF at
      <3> QED
        BY <1>2, <3>1, InsertPosition, ZenonT(60)
    <2> QED
      BY <2>1
  <1>4. c.list = <<>> =>
          /\ at \in Nat
          /\ at > 0 => /\ c.op = "alloc" /\ at \in 1 .. Len(free_list)
                       /\ free_list[at].len >= n
    <2>1. CASE c.list = <<>> /\ c.op = "alloc"
      <3>1. at = fit_position(n)
        BY <2>1, ZenonT(60)
      <3>2. n \in Nat
        <4>1. <<c.size, c.align>> \in Request /\ PowerOfTwo(c.align)
          BY <1>1, <1>2, <2>1, ZenonT(60) DEF CallOK
        <4> QED
          BY <4>1, ChunkLenIs, ZenonT(60)
      <3> HIDE DEF at, n
      <3> QED
        BY <1>2, <2>1, <3>1, <3>2, FitPosition, ZenonT(60)
    <2>2. CASE c.list = <<>> /\ c.op # "alloc"
      BY <2>2
    <2> QED
      BY <2>1, <2>2
  <1>5. at \in Nat
    <2> HIDE DEF at
    <2> QED
      BY <1>3, <1>4
  <1> HIDE DEF at
  <1>6. /\ d \in Call /\ d.list = c.list /\ d.stage = "update" /\ d.op = c.op
        /\ d.size = c.size /\ d.align = c.align /\ d.at = at
    BY <1>2, <1>5 DEF Call
  <1> HIDE DEF d
  <1>7. call'[t] = d
    BY <1>1, <1>2 DEF set_call
  <1>8. CallOK(t)'
    BY <1>1, <1>2, <1>6, <1>7 DEF CallOK
  <1>9. PlaceOK(t)'
    BY <1>1, <1>3, <1>4, <1>6, <1>7, ZenonT(60) DEF PlaceOK
  <1>10. \A u \in Thread : CallOK(u)' /\ PlaceOK(u)'
    BY <1>1, <1>6, <1>8, <1>9, CallsKept, ZenonT(60)
  <1> QED
    BY <1>1, <1>6, <1>10, SamePlaces, ZenonT(60)
-----------------------------------------------------------------------------
(* The invariant holds                                                     *)

LEMMA HeapInitInv == Init => HeapInv
  <1> SUFFICES ASSUME Init PROVE HeapInv
    OBVIOUS
  <1> DEFINE heap == [base |-> HEAP_START, len |-> HEAP_LEN]
  <1>1. heap \in Chunk
    BY HeapAssumption DEF Chunk
  <1>2. heap \notin Block /\ Block \subseteq Chunk
    BY BlockAssumption DEF Chunk
  <1>3. \A b, c \in Block \union {heap} : b # c => Bytes(b) \intersect Bytes(c) = {}
    BY BlockAssumption, ZenonT(60) DEF Bytes
  <1>4. /\ free_list = <<heap>> /\ delayed_free_list = <<>> /\ allocated = {}
        /\ spare = Block /\ call = [u \in Thread |-> NoCall]
    BY DEF Init
  <1> HIDE DEF heap
  <1>5. \A u \in Thread : call[u] = NoCall
    BY <1>4
  <1>6. /\ Range(free_list) = {heap} /\ Range(delayed_free_list) = {} /\ Held = {}
        /\ \A u \in Thread : Lists(u) = {}
    <2>1. Range(<<heap>>) = {heap} /\ Range(<<>>) = {}
      BY ShortLists, ZenonT(60)
    <2>2. Held = {}
      BY <1>4, ZenonT(60) DEF Held
    <2>3. \A u \in Thread : Lists(u) = Range(<<>>)
      BY <1>5, NoCallIs, ZenonT(60) DEF Lists
    <2> QED
      BY <1>4, <2>1, <2>2, <2>3, ZenonT(60)
  <1>7. HeapTypes
    <2>1. free_list \in Seq(Chunk) /\ delayed_free_list \in Seq(Chunk)
      BY <1>1, <1>4
    <2>2. call \in [Thread -> Call]
      BY <1>4, NoCallIs, ZenonT(60)
    <2> QED
      BY <1>4, <2>1, <2>2, ZenonT(60) DEF HeapTypes
  <1>8. Sorted(free_list)
    BY <1>4 DEF Sorted
  <1>9. Distinct
    <2>1. IsInjective(delayed_free_list) /\ \A u \in Thread : IsInjective(call[u].list)
      BY <1>4, <1>5, NoCallIs, ShortLists, ZenonT(60)
    <2> QED
      BY <1>4, <2>1, ZenonT(60) DEF Distinct
  <1>10. OnePlace
    BY <1>2, <1>4, <1>6, ZenonT(60) DEF OnePlace
  <1>11. Apart
    <2>1. ASSUME NEW x \in Chunks \union spare PROVE x \in Block \union {heap}
      BY <1>4, <1>6, Everywhere, ZenonT(60)
    <2> QED
      BY <1>3, <2>1, ZenonT(60) DEF Apart
  <1>12. \A u \in Thread : CallOK(u) /\ PlaceOK(u)
    <2>1. ASSUME NEW u \in Thread PROVE CallOK(u) /\ PlaceOK(u)
      BY <1>5, NoCallIs DEF CallOK, PlaceOK
    <2> QED
      BY <2>1
  <1>13. \A a \in allocated : Fits(a)
    BY <1>4, ZenonT(60)
  <1> QED
    BY <1>7, <1>8, <1>9, <1>10, <1>11, <1>12, <1>13, ZenonT(60) DEF HeapInv

LEMMA HeapNextInv == HeapInv /\ [Next]_vars => HeapInv'
  <1> SUFFICES ASSUME HeapInv, [Next]_vars PROVE HeapInv'
    OBVIOUS
  <1>1. ASSUME NEW a \in allocated, heap_delayed_free(a) PROVE HeapInv'
    BY <1>1, DelayedFreeInv, ZenonT(60)
  <1>2. ASSUME NEW t \in Thread, NEW r \in Request, heap_alloc(t, r[1], r[2]) PROVE HeapInv'
    BY <1>2, AllocInv, ZenonT(60)
  <1>3. ASSUME NEW t \in Thread, heap_get_stats(t) PROVE HeapInv'
    BY <1>3, StatsInv, ZenonT(60)
  <1>4. ASSUME NEW t \in Thread, NEW a \in allocated, heap_free(t, a) PROVE HeapInv'
    BY <1>4, FreeInv, ZenonT(60)
  <1>5. ASSUME NEW t \in Thread, NEW b \in spare, heap_add_block(t, b) PROVE HeapInv'
    BY <1>5, AddBlockInv, ZenonT(60)
  <1>6. ASSUME NEW t \in Thread, HeapStep(t) PROVE HeapInv'
    <2>1. CASE heap_free_delayed_list(t)
      BY <2>1, FreeDelayedInv, ZenonT(60)
    <2>2. CASE heap_lock(t)
      BY <2>2, LockInv, ZenonT(60)
    <2>3. CASE heap_walk(t)
      BY <2>3, WalkInv, ZenonT(60)
    <2>4. CASE heap_insert_free_chunk(t)
      BY <2>4, InsertInv, ZenonT(60)
    <2>5. CASE heap_alloc_take(t)
      BY <2>5, TakeInv, ZenonT(60)
    <2>6. CASE heap_unlock(t)
      BY <2>6, UnlockInv, ZenonT(60)
    <2> QED
      BY <1>6, <2>1, <2>2, <2>3, <2>4, <2>5, <2>6, ZenonT(60) DEF HeapStep
  <1>7. CASE UNCHANGED vars
    <2>1. /\ UNCHANGED <<free_list, delayed_free_list, allocated, spare, call, owner>>
      BY <1>7 DEF vars, listVars, lockVars
    <2>2. Held' = Held /\ Chunks' = Chunks /\ \A u \in Thread : Lists(u)' = Lists(u)
      BY <2>1 DEF Held, Lists, Chunks
    <2>3. HeapTypes' /\ Sorted(free_list)' /\ Distinct'
      BY <2>1, ZenonT(60) DEF HeapInv, HeapTypes, Sorted, Distinct
    <2>4. OnePlace' /\ Apart'
      BY <2>1, <2>2, ZenonT(60) DEF HeapInv, OnePlace, Apart
    <2>5. (\A u \in Thread : CallOK(u) /\ PlaceOK(u))'
      BY <2>1, ZenonT(60) DEF HeapInv, CallOK, PlaceOK
    <2>6. (\A a \in allocated : Fits(a))'
      BY <2>1, ZenonT(60) DEF HeapInv, Fits
    <2> QED
      BY <2>3, <2>4, <2>5, <2>6, ZenonT(60) DEF HeapInv
  <1> QED
    BY <1>1, <1>2, <1>3, <1>4, <1>5, <1>6, <1>7, ZenonT(60) DEF Next

\* The invariant holds in every reachable state: whatever threads call the
\* heap, and whatever is freed from critical sections, every chunk has one
\* place and the place a walk has found is right when the list is updated.
THEOREM HeapInvariant == Spec => []HeapInv
  BY HeapInitInv, HeapNextInv, PTL DEF Spec

\* The free list stays sorted, apart, merged and long enough for its headers,
\* whatever threads heap_alloc(), heap_free() and heap_delayed_free() in
\* whatever order.
THEOREM HeapFreeListMerged == Spec => []FreeListMerged
  <1>1. HeapInv => FreeListMerged
    <2> SUFFICES ASSUME HeapInv PROVE FreeListMerged
      OBVIOUS
    <2>1. free_list \in Seq(Chunk) /\ Sorted(free_list)
      BY ZenonT(60) DEF HeapInv, HeapTypes
    <2>2. \A i \in 1 .. Len(free_list) :
            free_list[i].len >= CHUNK_SIZE /\ free_list[i].len % POINTER = 0
      <3>1. \A i \in 1 .. Len(free_list) : free_list[i] \in Chunk
        BY <2>1
      <3> QED
        BY <3>1, ChunkIs, ZenonT(60)
    <2>3. \A i \in 1 .. (Len(free_list) - 1) :
            free_list[i].base + free_list[i].len < free_list[i + 1].base
      <3>1. \A i \in 1 .. (Len(free_list) - 1) :
              i \in 1 .. Len(free_list) /\ i + 1 \in 1 .. Len(free_list) /\ i < i + 1
        BY <2>1
      <3> QED
        BY <2>1, <3>1, ZenonT(60) DEF Sorted
    <2> QED
      BY <2>2, <2>3, ZenonT(60) DEF FreeListMerged
  <1> QED
    BY <1>1, HeapInvariant, PTL

\* What heap_alloc() returns lies in a chunk of its own, header included,
\* until it is freed.
THEOREM HeapHeaders == Spec => []HeaderInChunk
  <1>1. HeapInv => HeaderInChunk
    <2> SUFFICES ASSUME HeapInv, NEW a \in allocated
                 PROVE  /\ a.ptr - BEGIN_SIZE >= a.chunk.base
                        /\ a.ptr + a.len <= a.chunk.base + a.chunk.len
                        /\ \A c \in Chunks : c # a.chunk => Bytes(c) \intersect Bytes(a.chunk) = {}
      BY ZenonT(60) DEF HeaderInChunk
    <2>1. Fits(a) /\ a.chunk \in Chunks
      BY ZenonT(60) DEF HeapInv, Chunks
    <2>2. \A c \in Chunks : c # a.chunk => Bytes(c) \intersect Bytes(a.chunk) = {}
      BY <2>1, ZenonT(60) DEF HeapInv, Apart
    <2> QED
      BY <2>1, <2>2, ZenonT(60) DEF Fits
  <1> QED
    BY <1>1, HeapInvariant, PTL

\* Every step of the heap is one of the allocator, or none that callers see.
LEMMA HeapStepsAllocate ==
  HeapInv /\ HeapInv' /\ [Next]_vars => [A!Next]_<<Memory, live>>
  <1> SUFFICES ASSUME HeapInv, HeapInv', [Next]_vars
               PROVE  A!Alloc \/ A!Free \/ A!AddBlock \/ UNCHANGED <<Memory, live>>
    BY DEF A!Next
  <1> DEFINE Goal == A!Alloc \/ A!Free \/ A!AddBlock \/ UNCHANGED <<Memory, live>>
  <1>1. ASSUME NEW a \in allocated, heap_delayed_free(a) PROVE A!Free
    <2>1. Chunks' = Chunks /\ allocated' = allocated \ {a}
      BY <1>1, DelayedFreeInv, ZenonT(60) DEF heap_delayed_free
    <2> QED
      BY <2>1, FreeFrees, ZenonT(60)
  <1>2. ASSUME NEW t \in Thread, NEW r \in Request, heap_alloc(t, r[1], r[2])
        PROVE  UNCHANGED <<Memory, live>>
    <2>1. Chunks' = Chunks
      BY <1>2, AllocInv, ZenonT(60)
    <2>2. allocated' = allocated
      BY <1>2 DEF heap_alloc
    <2> QED
      BY <2>1, <2>2, NothingAllocated
  <1>3. ASSUME NEW t \in Thread, heap_get_stats(t) PROVE UNCHANGED <<Memory, live>>
    <2>1. Chunks' = Chunks
      BY <1>3, StatsInv, ZenonT(60)
    <2>2. allocated' = allocated
      BY <1>3 DEF heap_get_stats
    <2> QED
      BY <2>1, <2>2, NothingAllocated
  <1>4. ASSUME NEW t \in Thread, NEW a \in allocated, heap_free(t, a) PROVE A!Free
    <2>1. Chunks' = Chunks /\ allocated' = allocated \ {a}
      BY <1>4, FreeInv, ZenonT(60) DEF heap_free
    <2> QED
      BY <2>1, FreeFrees, ZenonT(60)
  <1>5. ASSUME NEW t \in Thread, NEW b \in spare, heap_add_block(t, b) PROVE A!AddBlock
    <2>1. Chunks' = Chunks \union {b}
      BY <1>5, AddBlockInv, ZenonT(60)
    <2>2. allocated' = allocated
      BY <1>5 DEF heap_add_block
    <2> QED
      BY <2>1, <2>2, AddBlockAdds, ZenonT(60)
  <1>6. ASSUME NEW t \in Thread, HeapStep(t) PROVE A!Alloc \/ UNCHANGED <<Memory, live>>
    <2>1. CASE heap_free_delayed_list(t)
      <3>1. Chunks' = Chunks
        BY <2>1, FreeDelayedInv, ZenonT(60)
      <3>2. allocated' = allocated
        BY <2>1 DEF heap_free_delayed_list
      <3> QED
        BY <3>1, <3>2, NothingAllocated
    <2>2. CASE heap_lock(t)
      <3>1. Chunks' = Chunks
        BY <2>2, LockInv, ZenonT(60)
      <3>2. allocated' = allocated
        BY <2>2 DEF heap_lock
      <3> QED
        BY <3>1, <3>2, NothingAllocated
    <2>3. CASE heap_walk(t)
      <3>1. Chunks' = Chunks
        BY <2>3, WalkInv, ZenonT(60)
      <3>2. allocated' = allocated
        BY <2>3 DEF heap_walk
      <3> QED
        BY <3>1, <3>2, NothingAllocated
    <2>4. CASE heap_insert_free_chunk(t)
      <3>1. Memory' = Memory
        BY <2>4, InsertInv, ZenonT(60)
      <3>2. allocated' = allocated
        BY <2>4 DEF heap_insert_free_chunk
      <3>3. live' = live
        BY <3>2, ZenonT(60) DEF live
      <3> QED
        BY <3>1, <3>3
    <2>5. CASE heap_alloc_take(t)
      <3>1. Memory' = Memory
        BY <2>5, TakeInv, ZenonT(60)
      <3> QED
        BY <2>5, <3>1, TakeAllocates, ZenonT(60)
    <2>6. CASE heap_unlock(t)
      <3>1. Chunks' = Chunks
        BY <2>6, UnlockInv, ZenonT(60)
      <3>2. allocated' = allocated
        BY <2>6 DEF heap_unlock
      <3> QED
        BY <3>1, <3>2, NothingAllocated
    <2> QED
      BY <1>6, <2>1, <2>2, <2>3, <2>4, <2>5, <2>6, ZenonT(60) DEF HeapStep
  <1>7. CASE UNCHANGED vars
    <2>1. Chunks' = Chunks /\ allocated' = allocated
      BY <1>7 DEF vars, listVars, Chunks
    <2> QED
      BY <2>1, NothingAllocated
  <1>8. Goal
    <2> HIDE DEF Goal
    <2>1. A!Alloc \/ A!Free \/ A!AddBlock \/ UNCHANGED <<Memory, live>> => Goal
      BY DEF Goal
    <2>2. CASE Next
      <3>1. \/ \E a \in allocated : heap_delayed_free(a)
            \/ \E t \in Thread : \E r \in Request : heap_alloc(t, r[1], r[2])
            \/ \E t \in Thread : heap_get_stats(t)
            \/ \E t \in Thread : \E a \in allocated : heap_free(t, a)
            \/ \E t \in Thread : \E b \in spare : heap_add_block(t, b)
            \/ \E t \in Thread : HeapStep(t)
        BY <2>2, ZenonT(60) DEF Next
      <3> QED
        BY <1>1, <1>2, <1>3, <1>4, <1>5, <1>6, <2>1, <3>1, ZenonT(60)
    <2> QED
      BY <1>7, <2>1, <2>2, ZenonT(60)
  <1> QED
    BY <1>8

\* The heap implements module Allocator: heap_alloc() hands out memory that is
\* aligned and nobody else's, heap_free() and heap_delayed_free() take back
\* just that, and no step loses a byte of the memory the heap was given.
THEOREM HeapIsAllocator == Spec => IsAllocator
  <1>1. Init => A!Init
    BY DEF Init, A!Init
  <1>2. HeapInv /\ HeapInv' /\ [Next]_vars =>
          [A!Next]_<<UNION {Bytes(c) : c \in Chunks},
                     {[ptr |-> a.ptr, len |-> a.len, align |-> a.align] : a \in allocated}>>
    BY HeapStepsAllocate DEF Memory, live, Live
  <1> QED
    BY <1>1, <1>2, HeapInvariant, PTL DEF Spec, IsAllocator, A!Spec
=============================================================================
