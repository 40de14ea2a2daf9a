----------------------------- MODULE EventProofs -----------------------------
(* Proofs about modules Event and Cbuf, for any number of threads, any      *)
(* priorities and any size of the circular buffer.                          *)
EXTENDS Cbuf, WaitObjectProofs

\* The default time limits are too tight for the size of the obligations.
USE SMTT(60), ZenonT(60)

-----------------------------------------------------------------------------
(* The circular buffer: places and numbers of bytes                        *)

\* A sum of two places in the array, or of two numbers of bytes, wraps once.
LEMMA Wrap ==
  ASSUME NEW N \in Nat \ {0}, NEW x \in Nat, x < 2 * N
  PROVE  x % N = IF x < N THEN x ELSE x - N
  OBVIOUS

\* What is free, without the modulo.
LEMMA SpaceIs ==
  ASSUME head \in Index, tail \in Index, NEW h \in Index
  PROVE  /\ used(h) = IF h < tail THEN h - tail + LEN ELSE h - tail
         /\ cbuf_space_avail(h) = IF h < tail THEN tail - h - 1 ELSE LEN - 1 - h + tail
  <1>1. LEN \in Nat \ {0}
    BY CbufAssumption
  <1> DEFINE x == h - tail + LEN
  <1>2. x \in Nat /\ x < 2 * LEN
    BY <1>1 DEF Index
  <1>3. used(h) = x % LEN
    BY DEF used
  <1> HIDE DEF x
  <1>4. used(h) = IF x < LEN THEN x ELSE x - LEN
    BY <1>1, <1>2, <1>3, Wrap
  <1> QED
    BY <1>1, <1>4 DEF Index, cbuf_space_avail, x

\* head after n bytes, without the modulo.
LEMMA PointerIs ==
  ASSUME NEW h \in Index, NEW n \in 0 .. LEN
  PROVE  /\ INC_POINTER(h, n) = IF h + n < LEN THEN h + n ELSE h + n - LEN
         /\ INC_POINTER(h, n) \in Index
  <1>1. LEN \in Nat \ {0}
    BY CbufAssumption
  <1> DEFINE x == h + n
  <1>2. x \in Nat /\ x < 2 * LEN
    BY <1>1 DEF Index
  <1>3. INC_POINTER(h, n) = x % LEN
    BY DEF INC_POINTER
  <1> HIDE DEF x
  <1>4. INC_POINTER(h, n) = IF x < LEN THEN x ELSE x - LEN
    BY <1>1, <1>2, <1>3, Wrap
  <1> QED
    BY <1>1, <1>4 DEF Index, x

\* The loop of cbuf_write() accepts what there is room for, except with the
\* tail at the start of the array, where it accepts all unless there is no
\* room at all.
LEMMA Accepts ==
  ASSUME NEW len \in 1 .. (LEN - 1), tail \in Index, head \in Index
  PROVE  accepted(len) = IF tail = 0 THEN IF head = LEN - 1 THEN 0 ELSE len
                         ELSE least(cbuf_space_avail(head), len)
  <1> DEFINE at(n) == INC_POINTER(head, len - n)
             write_len(n) == IF at(n) >= tail THEN least(LEN - at(n), n)
                             ELSE least(tail - at(n) - 1, n)
             stops(n) == n = 0 \/ cbuf_space_avail(at(n)) = 0 \/ write_len(n) = 0
             m == CHOOSE f : f = [n \in 0 .. len |->
                    IF stops(n) THEN 0 ELSE write_len(n) + f[n - write_len(n)]]
             all(n) == IF n = 0 THEN 0
                       ELSE IF tail = 0 THEN IF at(n) = LEN - 1 THEN 0 ELSE n
                       ELSE least(cbuf_space_avail(at(n)), n)
             g == [n \in 0 .. len |-> all(n)]
  <1>1. accepted(len) = m[len]
    BY Zenon DEF accepted
  <1>2. LEN \in Nat \ {0, 1}
    BY CbufAssumption
  <1>3. ASSUME NEW n \in 0 .. len
        PROVE  /\ at(n) \in Index
               /\ at(n) = IF head + (len - n) < LEN THEN head + (len - n)
                          ELSE head + (len - n) - LEN
               /\ cbuf_space_avail(at(n)) =
                    IF at(n) < tail THEN tail - at(n) - 1 ELSE LEN - 1 - at(n) + tail
    <2>1. len - n \in 0 .. LEN
      BY <1>2
    <2> QED
      BY <2>1, PointerIs, SpaceIs
  <1> HIDE DEF at
  <1>4. ASSUME NEW n \in 0 .. len, ~stops(n)
        PROVE  n - write_len(n) \in 0 .. len /\ write_len(n) \in 1 .. n
    BY <1>2, <1>3, <1>4 DEF least, Index
  <1>5. ASSUME NEW n \in 0 .. len
        PROVE  all(n) = IF stops(n) THEN 0 ELSE write_len(n) + all(n - write_len(n))
    <2>1. CASE stops(n)
      BY <1>2, <1>3, <2>1 DEF least, Index
    <2>2. CASE ~stops(n)
      <3> DEFINE k == n - write_len(n)
      <3>1. k \in 0 .. len /\ write_len(n) \in 1 .. n
        BY <1>4, <2>2
      <3>2. at(k) = IF at(n) + write_len(n) < LEN THEN at(n) + write_len(n)
                    ELSE at(n) + write_len(n) - LEN
        BY <1>2, <1>3, <3>1 DEF Index
      <3>3. /\ at(n) \in Index /\ at(k) \in Index
            /\ cbuf_space_avail(at(n)) =
                 IF at(n) < tail THEN tail - at(n) - 1 ELSE LEN - 1 - at(n) + tail
            /\ cbuf_space_avail(at(k)) =
                 IF at(k) < tail THEN tail - at(k) - 1 ELSE LEN - 1 - at(k) + tail
        BY <1>3, <3>1
      <3> HIDE DEF k
      <3>4. k = n - write_len(n)
        BY DEF k
      <3>5. all(n) = write_len(n) + all(k)
        BY <1>2, <2>2, <3>1, <3>2, <3>3, <3>4 DEF least, Index
      <3> QED
        BY <2>2, <3>4, <3>5
    <2> QED
      BY <2>1, <2>2
  <1> HIDE DEF write_len, stops, all
  <1>6. g = [n \in 0 .. len |->
               IF stops(n) THEN 0 ELSE write_len(n) + g[n - write_len(n)]]
    BY <1>4, <1>5
  <1>7. m = [n \in 0 .. len |->
               IF stops(n) THEN 0 ELSE write_len(n) + m[n - write_len(n)]]
    BY <1>6, Zenon
  <1> HIDE DEF m, g
  <1>8. ASSUME NEW n \in 0 .. len
        PROVE  m[n] = IF stops(n) THEN 0 ELSE write_len(n) + m[n - write_len(n)]
    BY <1>7
  <1>9. ASSUME NEW n \in 0 .. len, stops(n)
        PROVE  m[n] = all(n)
    BY <1>5, <1>8, <1>9
  <1>10. ASSUME NEW n \in 0 .. len, ~stops(n), m[n - write_len(n)] = all(n - write_len(n))
         PROVE  m[n] = all(n)
    BY <1>5, <1>8, <1>10
  <1> DEFINE k == len - write_len(len)
             j == k - write_len(k)
  <1>11. ASSUME ~stops(len), ~stops(k)
         PROVE  stops(j) /\ k \in 0 .. len /\ j \in 0 .. len
    <2>1. k \in 0 .. len /\ write_len(len) \in 1 .. len
      BY <1>2, <1>4, <1>11
    <2>2. j \in 0 .. len /\ write_len(k) \in 1 .. k
      BY <1>4, <1>11, <2>1
    <2>3. at(k) = IF at(len) + write_len(len) < LEN THEN at(len) + write_len(len)
                  ELSE at(len) + write_len(len) - LEN
      BY <1>2, <1>3, <2>1 DEF Index
    <2>4. at(j) = IF at(k) + write_len(k) < LEN THEN at(k) + write_len(k)
                  ELSE at(k) + write_len(k) - LEN
      BY <1>2, <1>3, <2>1, <2>2 DEF Index
    <2>5. /\ at(len) \in Index /\ at(k) \in Index /\ at(j) \in Index
          /\ cbuf_space_avail(at(j)) =
                 IF at(j) < tail THEN tail - at(j) - 1 ELSE LEN - 1 - at(j) + tail
          /\ cbuf_space_avail(at(k)) =
                 IF at(k) < tail THEN tail - at(k) - 1 ELSE LEN - 1 - at(k) + tail
      BY <1>2, <1>3, <2>1, <2>2
    <2>6. /\ k = len - write_len(len) /\ j = k - write_len(k)
      OBVIOUS
    <2> HIDE DEF k, j
    <2>7. CASE at(len) < tail
      <3> DEFINE x == at(len)
                 w == write_len(len)
      <3>w. w = IF tail - x - 1 < len THEN tail - x - 1 ELSE len
        <4>1. ~(at(len) >= tail)
          BY <1>2, <2>5, <2>7 DEF Index
        <4> QED
          BY <4>1, ZenonT(60) DEF write_len, least
      <3>x. /\ x \in Index /\ w \in 1 .. len /\ k = len - w
            /\ at(k) = IF x + w < LEN THEN x + w ELSE x + w - LEN
        BY <2>1, <2>3, <2>5, <2>6, ZenonT(60)
      <3> HIDE DEF x, w
      <3>1. at(k) = tail - 1 \/ k = 0
        <4>1. x < tail
          BY <2>7 DEF x
        <4> QED
          BY <1>2, <3>w, <3>x, <4>1 DEF Index
      <3>2. at(k) = tail - 1 => cbuf_space_avail(at(k)) = 0
        BY <1>2, <2>5 DEF Index
      <3> QED
        BY <1>11, <3>1, <3>2 DEF stops
    <2>8. CASE at(len) >= tail
      <3>1. at(k) = 0 \/ k = 0
        BY <1>2, <2>1, <2>3, <2>5, <2>6, <2>8 DEF write_len, least, Index
      <3>2. at(k) = 0
        BY <1>11, <3>1 DEF stops
      <3>3. at(j) = IF write_len(k) < LEN THEN write_len(k) ELSE write_len(k) - LEN
        BY <1>2, <2>2, <2>4, <3>2
      <3>4. write_len(k) = IF tail = 0 THEN k ELSE least(tail - 1, k)
        BY <1>2, <2>1, <2>5, <3>2 DEF write_len, least, Index
      <3>5. at(j) = tail - 1 \/ j = 0
        BY <1>2, <2>1, <2>2, <2>6, <3>3, <3>4 DEF least, Index
      <3>6. at(j) = tail - 1 => cbuf_space_avail(at(j)) = 0
        BY <1>2, <2>5 DEF Index
      <3> QED
        BY <2>1, <2>2, <3>5, <3>6 DEF stops
    <2> QED
      BY <1>2, <2>1, <2>2, <2>5, <2>7, <2>8 DEF Index
  <1>12. m[len] = all(len)
    <2>1. len \in 0 .. len
      BY <1>2
    <2>2. ~stops(len) => k \in 0 .. len
      BY <1>4, <2>1
    <2> HIDE DEF k
    <2>3. ~stops(len) => k = len - write_len(len)
      BY DEF k
    <2>4. CASE ~stops(len) /\ ~stops(k)
      <3>1. m[j] = all(j)
        BY <1>9, <1>11, <2>4
      <3>2. m[k] = all(k)
        BY <1>10, <2>2, <2>4, <3>1
      <3> QED
        BY <1>10, <2>1, <2>3, <2>4, <3>2
    <2>5. CASE ~stops(len) /\ stops(k)
      BY <1>9, <1>10, <2>1, <2>2, <2>3, <2>5
    <2> QED
      BY <1>9, <2>1, <2>4, <2>5
  <1>13. at(len) = head
    BY <1>2, <1>3 DEF Index
  <1> QED
    BY <1>1, <1>2, <1>12, <1>13 DEF all

\* Types of the array's indices and of the numbers of bytes, and what is in it.
DataInv ==
  /\ head \in Index /\ tail \in Index
  /\ sent \in 0 .. (Serial - 1) /\ wanted \in 0 .. (Serial - 1)
  /\ BytesInOrder

\* The distance of two numbers of bytes, without the modulo.
LEMMA DistanceIs ==
  ASSUME NEW s \in 0 .. (Serial - 1), NEW w \in 0 .. (Serial - 1)
  PROVE  (s - w + Serial) % Serial = IF s < w THEN s - w + Serial ELSE s - w
  <1>1. Serial \in Nat \ {0}
    BY CbufAssumption DEF Serial
  <1> DEFINE x == s - w + Serial
  <1>2. x \in Nat /\ x < 2 * Serial
    BY <1>1
  <1> HIDE DEF x
  <1>3. x % Serial = IF x < Serial THEN x ELSE x - Serial
    BY <1>1, <1>2, Wrap
  <1> QED
    BY <1>1, <1>3 DEF x

\* The number of a later byte, without the modulo.
LEMMA NumberIs ==
  ASSUME NEW s \in 0 .. (Serial - 1), NEW k \in 0 .. LEN
  PROVE  /\ (s + k) % Serial = IF s + k < Serial THEN s + k ELSE s + k - Serial
         /\ (s + k) % Serial \in 0 .. (Serial - 1)
  <1>1. Serial \in Nat \ {0} /\ LEN \in Nat /\ Serial = 2 * LEN
    BY CbufAssumption DEF Serial
  <1> DEFINE x == s + k
  <1>2. x \in Nat /\ x < 2 * Serial /\ x = s + k
    BY <1>1
  <1> HIDE DEF x
  <1>3. x % Serial = IF x < Serial THEN x ELSE x - Serial
    BY <1>1, <1>2, Wrap
  <1>4. (s + k) % Serial = IF s + k < Serial THEN s + k ELSE s + k - Serial
    BY <1>1, <1>3 DEF x
  <1>5. (s + k) % Serial \in 0 .. (Serial - 1)
    BY <1>1, <1>4
  <1> QED
    BY <1>4, <1>5, ZenonT(60)

\* The place of the k-th byte from h on, without the modulo.
LEMMA PlaceIs ==
  ASSUME NEW h \in Index, NEW k \in 0 .. LEN
  PROVE  /\ (h + k) % LEN = IF h + k < LEN THEN h + k ELSE h + k - LEN
         /\ (h + k) % LEN \in Index
  BY PointerIs DEF INC_POINTER

\* The offset of a place from h, without the modulo.
LEMMA OffsetIs ==
  ASSUME NEW h \in Index, NEW i \in Index
  PROVE  (i - h + LEN) % LEN = IF i < h THEN i - h + LEN ELSE i - h
  <1>1. LEN \in Nat \ {0}
    BY CbufAssumption
  <1> DEFINE x == i - h + LEN
  <1>2. x \in Nat /\ x < 2 * LEN
    BY <1>1 DEF Index
  <1> HIDE DEF x
  <1>3. x % LEN = IF x < LEN THEN x ELSE x - LEN
    BY <1>1, <1>2, Wrap
  <1> QED
    BY <1>1, <1>3 DEF Index, x

\* cbuf_write() with room for what it copies keeps the bytes in order, and
\* the array is not empty afterwards if it was not before or n is not zero.
LEMMA Filled ==
  ASSUME DataInv, NEW n \in 0 .. cbuf_space_avail(head), fill(n)
  PROVE  /\ DataInv'
         /\ head' = INC_POINTER(head, n)
         /\ head' # tail' <=> head # tail \/ n > 0
  <1> DEFINE u == used(head)
  <1>1. LEN \in Nat \ {0, 1} /\ Serial = 2 * LEN
    BY CbufAssumption DEF Serial
  <1>2. /\ head \in Index /\ tail \in Index
        /\ sent \in 0 .. (Serial - 1) /\ wanted \in 0 .. (Serial - 1)
        /\ tail' = tail /\ wanted' = wanted
        /\ head' = INC_POINTER(head, n)
        /\ sent' = (sent + n) % Serial
    BY DEF DataInv, fill
  <1>3. /\ u = IF head < tail THEN head - tail + LEN ELSE head - tail
        /\ u + n < LEN /\ n < LEN /\ n \in Nat /\ u \in Nat
    BY <1>1, <1>2, SpaceIs DEF Index, cbuf_space_avail
  <1>4. /\ head' = IF head + n < LEN THEN head + n ELSE head + n - LEN
        /\ head' \in Index
    BY <1>1, <1>2, <1>3, PointerIs
  <1>5. /\ sent' = IF sent + n < Serial THEN sent + n ELSE sent + n - Serial
        /\ sent' \in 0 .. (Serial - 1)
    <2>1. n \in 0 .. LEN
      BY <1>1, <1>3
    <2> QED
      BY <1>2, <2>1, NumberIs, ZenonT(60)
  <1>6. u = IF sent < wanted THEN sent - wanted + Serial ELSE sent - wanted
    BY <1>2, DistanceIs DEF DataInv, BytesInOrder
  <1>7. used(head)' = IF head' < tail THEN head' - tail + LEN ELSE head' - tail
    BY <1>2, <1>4, OffsetIs DEF used
  <1>8. used(head)' = u + n
    BY <1>1, <1>2, <1>3, <1>4, <1>7 DEF Index
  <1>9. (sent' - wanted + Serial) % Serial = u + n
    <2>1. (sent' - wanted + Serial) % Serial =
            IF sent' < wanted THEN sent' - wanted + Serial ELSE sent' - wanted
      BY <1>2, <1>5, DistanceIs
    <2> QED
      BY <1>1, <1>2, <1>3, <1>5, <1>6, <2>1
  <1>10. ASSUME NEW k \in 0 .. (u + n - 1)
         PROVE  buf'[(tail + k) % LEN] = (wanted + k) % Serial
    <2> DEFINE i == (tail + k) % LEN
    <2>1. /\ i = IF tail + k < LEN THEN tail + k ELSE tail + k - LEN
          /\ i \in Index
      BY <1>1, <1>2, <1>3, PlaceIs
    <2>2. buf'[i] = LET o == (i - head + LEN) % LEN
                    IN  IF o < n THEN (sent + o) % Serial ELSE buf[i]
      BY <2>1 DEF fill
    <2>3. (i - head + LEN) % LEN = IF i < head THEN i - head + LEN ELSE i - head
      BY <1>2, <2>1, OffsetIs
    <2> HIDE DEF i
    <2>4. CASE k < u
      <3>1. (i - head + LEN) % LEN >= n
        BY <1>1, <1>2, <1>3, <2>1, <2>3, <2>4 DEF Index
      <3>2. buf'[i] = buf[i]
        BY <1>1, <1>2, <1>3, <2>1, <2>2, <2>3, <3>1 DEF Index
      <3>3. buf[i] = (wanted + k) % Serial
        BY <1>3, <2>4 DEF DataInv, BytesInOrder, i
      <3> QED
        BY <3>2, <3>3 DEF i
    <2>5. CASE k >= u
      <3>1. (i - head + LEN) % LEN = k - u
        BY <1>1, <1>2, <1>3, <2>1, <2>3, <2>5 DEF Index
      <3>2. buf'[i] = (sent + (k - u)) % Serial
        BY <1>1, <1>3, <2>2, <3>1
      <3>3. (sent + (k - u)) % Serial =
              IF sent + (k - u) < Serial THEN sent + (k - u) ELSE sent + (k - u) - Serial
        <4>1. k - u \in 0 .. LEN
          BY <1>1, <1>3, <2>5
        <4> HIDE DEF u
        <4> QED
          BY <1>2, <4>1, NumberIs, ZenonT(60)
      <3>4. (wanted + k) % Serial =
              IF wanted + k < Serial THEN wanted + k ELSE wanted + k - Serial
        <4>1. k \in 0 .. LEN
          BY <1>1, <1>3
        <4> QED
          BY <1>2, <4>1, NumberIs, ZenonT(60)
      <3>5. (sent + (k - u)) % Serial = (wanted + k) % Serial
        BY <1>1, <1>2, <1>3, <1>6, <2>5, <3>3, <3>4
      <3> QED
        BY <3>2, <3>5 DEF i
    <2> QED
      BY <1>3, <2>4, <2>5
  <1>11. BytesInOrder'
    <2> HIDE DEF u
    <2>1. \A k \in 0 .. (used(head)' - 1) : buf'[(tail' + k) % LEN] = (wanted' + k) % Serial
      <3>1. \A k \in 0 .. (u + n - 1) : buf'[(tail + k) % LEN] = (wanted + k) % Serial
        BY <1>10, ZenonT(60)
      <3>2. tail' = tail /\ wanted' = wanted
        BY <1>2
      <3> TAKE k \in 0 .. (used(head)' - 1)
      <3>3. k \in 0 .. (u + n - 1)
        BY <1>1, <1>3, <1>8
      <3>4. buf'[(tail + k) % LEN] = (wanted + k) % Serial
        BY <3>1, <3>3, ZenonT(60)
      <3> QED
        BY <3>2, <3>4, ZenonT(60)
    <2>2. used(head)' = (sent' - wanted' + Serial) % Serial
      BY <1>2, <1>8, <1>9, ZenonT(60)
    <2> QED
      BY <2>1, <2>2, ZenonT(60) DEF BytesInOrder
  <1>12. head' # tail' <=> head # tail \/ n > 0
    BY <1>1, <1>2, <1>3, <1>4 DEF Index
  <1> QED
    BY <1>2, <1>4, <1>5, <1>11, <1>12 DEF DataInv

\* cbuf_read() of up to what there is keeps the rest in order, and leaves the
\* array empty exactly when it has read everything.
LEMMA Drained ==
  ASSUME DataInv, NEW n \in 0 .. used(head),
         tail' = INC_POINTER(tail, n), wanted' = (wanted + n) % Serial,
         UNCHANGED <<head, buf, sent>>
  PROVE  /\ DataInv'
         /\ head' = tail' <=> n = used(head)
  <1> DEFINE u == used(head)
  <1>1. LEN \in Nat \ {0, 1} /\ Serial = 2 * LEN
    BY CbufAssumption DEF Serial
  <1>2. /\ head \in Index /\ tail \in Index
        /\ sent \in 0 .. (Serial - 1) /\ wanted \in 0 .. (Serial - 1)
        /\ head' = head /\ buf' = buf /\ sent' = sent
    BY DEF DataInv
  <1>3. /\ u = IF head < tail THEN head - tail + LEN ELSE head - tail
        /\ u < LEN /\ n <= u /\ n \in Nat /\ u \in Nat /\ n \in 0 .. LEN
    <2>1. u = IF head < tail THEN head - tail + LEN ELSE head - tail
      BY <1>2, SpaceIs
    <2>2. u < LEN /\ u \in Nat
      BY <1>1, <1>2, <2>1 DEF Index
    <2> QED
      BY <1>1, <2>1, <2>2
  <1>4. /\ tail' = IF tail + n < LEN THEN tail + n ELSE tail + n - LEN
        /\ tail' \in Index
    BY <1>2, <1>3, PointerIs
  <1>5. /\ wanted' = IF wanted + n < Serial THEN wanted + n ELSE wanted + n - Serial
        /\ wanted' \in 0 .. (Serial - 1)
    BY <1>2, <1>3, NumberIs, ZenonT(60)
  <1>6. u = IF sent < wanted THEN sent - wanted + Serial ELSE sent - wanted
    BY <1>2, DistanceIs DEF DataInv, BytesInOrder
  <1>7. used(head)' = IF head < tail' THEN head - tail' + LEN ELSE head - tail'
    BY <1>2, <1>4, OffsetIs DEF used
  <1>8. used(head)' = u - n
    BY <1>1, <1>2, <1>3, <1>4, <1>7 DEF Index
  <1>9. (sent - wanted' + Serial) % Serial = u - n
    <2>1. (sent - wanted' + Serial) % Serial =
            IF sent < wanted' THEN sent - wanted' + Serial ELSE sent - wanted'
      BY <1>2, <1>5, DistanceIs
    <2> QED
      BY <1>1, <1>2, <1>3, <1>5, <1>6, <2>1
  <1>10. ASSUME NEW k \in 0 .. (u - n - 1)
         PROVE  buf[(tail' + k) % LEN] = (wanted' + k) % Serial
    <2>1. k \in 0 .. LEN /\ n + k \in 0 .. LEN /\ n + k \in 0 .. (u - 1)
      BY <1>1, <1>3
    <2>2. (tail' + k) % LEN = IF tail' + k < LEN THEN tail' + k ELSE tail' + k - LEN
      BY <1>4, <2>1, PlaceIs, ZenonT(60)
    <2>3. (tail + (n + k)) % LEN =
            IF tail + (n + k) < LEN THEN tail + (n + k) ELSE tail + (n + k) - LEN
      BY <1>2, <2>1, PlaceIs, ZenonT(60)
    <2>4. (wanted' + k) % Serial =
            IF wanted' + k < Serial THEN wanted' + k ELSE wanted' + k - Serial
      BY <1>5, <2>1, NumberIs, ZenonT(60)
    <2>5. (wanted + (n + k)) % Serial =
            IF wanted + (n + k) < Serial THEN wanted + (n + k)
            ELSE wanted + (n + k) - Serial
      BY <1>2, <2>1, NumberIs, ZenonT(60)
    <2>6. (tail' + k) % LEN = (tail + (n + k)) % LEN
      BY <1>1, <1>2, <1>3, <1>4, <2>1, <2>2, <2>3 DEF Index
    <2>7. (wanted' + k) % Serial = (wanted + (n + k)) % Serial
      BY <1>1, <1>2, <1>3, <1>5, <2>1, <2>4, <2>5
    <2>8. buf[(tail + (n + k)) % LEN] = (wanted + (n + k)) % Serial
      BY <2>1, ZenonT(60) DEF DataInv, BytesInOrder
    <2> QED
      BY <2>6, <2>7, <2>8, ZenonT(60)
  <1>11. BytesInOrder'
    <2> HIDE DEF u
    <2>1. \A k \in 0 .. (used(head)' - 1) : buf'[(tail' + k) % LEN] = (wanted' + k) % Serial
      <3> TAKE k \in 0 .. (used(head)' - 1)
      <3>1. k \in 0 .. (u - n - 1)
        BY <1>1, <1>3, <1>8
      <3>2. buf[(tail' + k) % LEN] = (wanted' + k) % Serial
        BY <1>10, <3>1, ZenonT(60)
      <3> QED
        BY <1>2, <3>2, ZenonT(60)
    <2>2. used(head)' = (sent' - wanted' + Serial) % Serial
      BY <1>2, <1>8, <1>9, ZenonT(60)
    <2> QED
      BY <2>1, <2>2, ZenonT(60) DEF BytesInOrder
  <1>12. head' = tail' <=> n = u
    BY <1>1, <1>2, <1>3, <1>4 DEF Index
  <1> QED
    BY <1>2, <1>4, <1>5, <1>11, <1>12, ZenonT(60) DEF DataInv

\* What a thread does next in a call.
Doing == {"none", "fill", "fill_quiet", "wait", "copy", "exit"}

\* What the calls in progress have been given.
CallOK ==
  /\ call \in [Thread -> [does : Doing, len : Nat]]
  /\ \A t \in Thread : call[t].does \in {"fill", "fill_quiet"} => call[t].len \in WriteLen

\* The inductive invariant of the circular buffer: the event is a manual one in
\* use, and signalled exactly when the array is not empty, interrupts enabled
\* or not.
CbufInv ==
  /\ DataInv
  /\ CallOK
  /\ magic /\ ~autounsignal
  /\ signalled \in BOOLEAN
  /\ signalled <=> head # tail

\* No write with the tail at the start of the array reaches the end of the
\* array, where cbuf_write() keeps no place free.
RoomAtTheEnd == \A t \in Thread :
  call[t].does \in {"fill", "fill_quiet"} /\ tail = 0 /\ head # LEN - 1 =>
    head + call[t].len < LEN

\* Then a write accepts no more than there is room for.
LEMMA AcceptsRoom ==
  ASSUME CbufInv, RoomAtTheEnd, NEW t \in Thread,
         call[t].does \in {"fill", "fill_quiet"}
  PROVE  accepted(call[t].len) \in 0 .. cbuf_space_avail(head)
  <1> DEFINE len == call[t].len
  <1>1. LEN \in Nat \ {0, 1} /\ len \in 1 .. (LEN - 1)
    BY CbufAssumption DEF CbufInv, CallOK
  <1>2. head \in Index /\ tail \in Index
    BY DEF CbufInv, DataInv
  <1>3. tail = 0 /\ head # LEN - 1 => head + len < LEN
    BY DEF RoomAtTheEnd
  <1> HIDE DEF len
  <1>4. accepted(len) = IF tail = 0 THEN IF head = LEN - 1 THEN 0 ELSE len
                        ELSE least(cbuf_space_avail(head), len)
    BY <1>1, <1>2, Accepts, ZenonT(60)
  <1>5. cbuf_space_avail(head) =
          IF head < tail THEN tail - head - 1 ELSE LEN - 1 - head + tail
    BY <1>2, SpaceIs, ZenonT(60)
  <1>6. accepted(len) \in 0 .. cbuf_space_avail(head)
    BY <1>1, <1>2, <1>3, <1>4, <1>5 DEF Index, least
  <1> QED
    BY <1>6 DEF len

\* A step of a call that leaves the array and the signal alone.
LEMMA CbufKept ==
  ASSUME CbufInv, CallOK', UNCHANGED dataVars,
         UNCHANGED <<magic, autounsignal, signalled>>
  PROVE  CbufInv'
  <1>1. /\ head' = head /\ tail' = tail /\ buf' = buf /\ sent' = sent
        /\ wanted' = wanted
    BY ZenonT(60) DEF dataVars
  <1>2. used(head)' = used(head)
    BY <1>1, ZenonT(60) DEF used
  <1>3. BytesInOrder'
    BY <1>1, <1>2, ZenonT(60) DEF CbufInv, DataInv, BytesInOrder
  <1> QED
    BY <1>1, <1>3, ZenonT(60) DEF CbufInv, DataInv

\* What a call does next.
LEMMA ThenOK ==
  ASSUME CallOK, NEW t \in Thread, NEW does \in Doing, NEW len \in Nat,
         then(t, does, len),
         does \in {"fill", "fill_quiet"} => len \in WriteLen
  PROVE  CallOK'
  <1>1. call' = [call EXCEPT ![t] = [does |-> does, len |-> len]]
    BY DEF then
  <1>2. call' \in [Thread -> [does : Doing, len : Nat]]
    BY <1>1 DEF CallOK
  <1>3. ASSUME NEW u \in Thread, call'[u].does \in {"fill", "fill_quiet"}
        PROVE  call'[u].len \in WriteLen
    BY <1>1, <1>3 DEF CallOK
  <1> QED
    BY <1>2, <1>3, ZenonT(60) DEF CallOK

LEMMA ExitOK ==
  ASSUME CallOK, NEW t \in Thread, then(t, "exit", 0)
  PROVE  CallOK'
  <1>1. 0 \in Nat
    OBVIOUS
  <1>2. "exit" \in Doing
    BY DEF Doing
  <1>3. "exit" \notin {"fill", "fill_quiet"}
    OBVIOUS
  <1> QED
    BY <1>1, <1>2, <1>3, ThenOK, ZenonT(60)

\* A signal of the event, from a thread or an interrupt handler.
LEMMA SignalledNow ==
  ASSUME CbufInv, signal
  PROVE  signalled' /\ magic' /\ ~autounsignal' /\ signalled' \in BOOLEAN
  BY ZenonT(60) DEF CbufInv, signal, signalled_after

\* cbuf_write() fills the array and signals the event if it has to.
LEMMA CbufFill ==
  ASSUME CbufInv, RoomAtTheEnd, NEW t \in Thread, cbuf_write_fill(t)
  PROVE  CbufInv'
  <1> DEFINE n == accepted(call[t].len)
  <1>1. call[t].does \in {"fill", "fill_quiet"} /\ fill(n) /\ then(t, "exit", 0)
    BY ZenonT(60) DEF cbuf_write_fill
  <1>2. n \in 0 .. cbuf_space_avail(head)
    BY <1>1, AcceptsRoom, ZenonT(60)
  <1>3. DataInv
    BY DEF CbufInv
  <1> HIDE DEF n
  <1>4. /\ DataInv' /\ head' = INC_POINTER(head, n)
        /\ head' # tail' <=> head # tail \/ n > 0
    BY <1>1, <1>2, <1>3, Filled, ZenonT(60)
  <1>5. CallOK'
    BY <1>1, ExitOK, ZenonT(60) DEF CbufInv
  <1>6. tail' = tail
    BY <1>1, ZenonT(60) DEF fill
  <1>7. CASE must_signal(n) /\ ~signalled /\ event_signal(t, call[t].does = "fill")
    <2>1. signalled' /\ magic' /\ ~autounsignal' /\ signalled' \in BOOLEAN
      BY <1>7, SignalledNow, ZenonT(60) DEF event_signal
    <2>2. head' # tail'
      BY <1>4, <1>6, <1>7, ZenonT(60) DEF must_signal
    <2> QED
      BY <1>4, <1>5, <2>1, <2>2, ZenonT(60) DEF CbufInv
  <1>8. CASE (~must_signal(n) \/ signalled) /\ UNCHANGED eventVars
    <2>1. signalled' = signalled /\ magic' = magic /\ autounsignal' = autounsignal
      BY <1>8, ZenonT(60) DEF eventVars
    <2>2. signalled <=> head' # tail'
      <3>1. CASE signalled
        BY <1>4, <3>1, ZenonT(60) DEF CbufInv
      <3>2. CASE ~signalled
        BY <1>4, <1>6, <1>8, <3>2, ZenonT(60) DEF must_signal
      <3> QED
        BY <3>1, <3>2
    <2> QED
      BY <1>4, <1>5, <2>1, <2>2, ZenonT(60) DEF CbufInv
  <1> QED
    BY <1>7, <1>8, ZenonT(60) DEF cbuf_write_fill, n

\* cbuf_write_char() in an interrupt handler does the same with one byte.
LEMMA CbufWriteChar ==
  ASSUME CbufInv, cbuf_write_char
  PROVE  CbufInv'
  <1>1. cbuf_space_avail(head) > 0 /\ fill(1) /\ call' = call
    BY ZenonT(60) DEF cbuf_write_char
  <1>2. DataInv
    BY DEF CbufInv
  <1>3. 1 \in 0 .. cbuf_space_avail(head)
    <2>1. head \in Index /\ tail \in Index /\ LEN \in Nat
      BY CbufAssumption DEF CbufInv, DataInv
    <2>2. cbuf_space_avail(head) =
            IF head < tail THEN tail - head - 1 ELSE LEN - 1 - head + tail
      BY <2>1, SpaceIs, ZenonT(60)
    <2> QED
      BY <1>1, <2>1, <2>2 DEF Index
  <1>4. 1 > 0
    OBVIOUS
  <1>5. DataInv' /\ head' # tail'
    BY <1>1, <1>2, <1>3, <1>4, Filled, ZenonT(60)
  <1>6. CallOK'
    BY <1>1, ZenonT(60) DEF CbufInv, CallOK
  <1>7. CASE event_signal_callback
    <2>1. signalled' /\ magic' /\ ~autounsignal' /\ signalled' \in BOOLEAN
      BY <1>7, SignalledNow, ZenonT(60) DEF event_signal_callback
    <2> QED
      BY <1>5, <1>6, <2>1, ZenonT(60) DEF CbufInv
  <1>8. CASE signalled /\ UNCHANGED eventVars
    <2>1. signalled' = signalled /\ magic' = magic /\ autounsignal' = autounsignal
      BY <1>8, ZenonT(60) DEF eventVars
    <2> QED
      BY <1>5, <1>6, <1>8, <2>1, ZenonT(60) DEF CbufInv
  <1> QED
    BY <1>7, <1>8, ZenonT(60) DEF cbuf_write_char

\* cbuf_read() takes out what there is and unsignals the event if nothing is
\* left.
LEMMA CbufCopy ==
  ASSUME CbufInv, NEW t \in Thread, cbuf_read_copy(t)
  PROVE  CbufInv'
  <1> DEFINE n == least(used(head), call[t].len)
  <1>1. /\ tail' = INC_POINTER(tail, n) /\ wanted' = (wanted + n) % Serial
        /\ then(t, "exit", 0) /\ UNCHANGED <<head, buf, sent>>
    BY ZenonT(60) DEF cbuf_read_copy
  <1>2. DataInv
    BY DEF CbufInv
  <1>3. head \in Index /\ tail \in Index /\ LEN \in Nat \ {0, 1}
    BY CbufAssumption DEF CbufInv, DataInv
  <1>4. call[t].len \in Nat
    BY DEF CbufInv, CallOK
  <1>5. used(head) = IF head < tail THEN head - tail + LEN ELSE head - tail
    BY <1>3, SpaceIs, ZenonT(60)
  <1>6. n \in 0 .. used(head)
    BY <1>3, <1>4, <1>5 DEF Index, least
  <1> HIDE DEF n
  <1>7. DataInv' /\ (head' = tail' <=> n = used(head))
    BY <1>1, <1>2, <1>6, Drained, ZenonT(60)
  <1>8. CallOK'
    BY <1>1, ExitOK, ZenonT(60) DEF CbufInv
  <1>9. head' = head
    BY <1>1
  <1>10. CASE emptied(n) /\ event_unsignal(t)
    <2>1. head' = tail'
      BY <1>1, <1>9, <1>10, ZenonT(60) DEF emptied
    <2>2. /\ signalled' = FALSE /\ magic' = magic /\ autounsignal' = autounsignal
      BY <1>10, ZenonT(60) DEF event_unsignal
    <2>3. signalled' \in BOOLEAN
      BY <2>2, ZenonT(60)
    <2> QED
      BY <1>7, <1>8, <2>1, <2>2, <2>3, ZenonT(60) DEF CbufInv
  <1>11. CASE ~emptied(n) /\ UNCHANGED eventVars
    <2>1. signalled' = signalled /\ magic' = magic /\ autounsignal' = autounsignal
      BY <1>11, ZenonT(60) DEF eventVars
    <2>2. signalled <=> head' # tail'
      <3>1. CASE n = 0
        <4>1. n = used(head) <=> head = tail
          BY <1>3, <1>5, <3>1 DEF Index
        <4> QED
          BY <1>7, <4>1, ZenonT(60) DEF CbufInv
      <3>2. CASE n # 0
        <4>1. n > 0 /\ head # tail
          BY <1>3, <1>5, <1>6, <3>2 DEF Index
        <4>2. head' # tail'
          BY <1>1, <1>9, <1>11, <4>1, ZenonT(60) DEF emptied
        <4> QED
          BY <4>1, <4>2, ZenonT(60) DEF CbufInv
      <3> QED
        BY <3>1, <3>2
    <2> QED
      BY <1>7, <1>8, <2>1, <2>2, ZenonT(60) DEF CbufInv
  <1> QED
    BY <1>10, <1>11, ZenonT(60) DEF cbuf_read_copy, n

\* Every step of a thread in a call.
LEMMA CbufStepInv ==
  ASSUME CbufInv, RoomAtTheEnd, NEW t \in Thread, CbufStep(t)
  PROVE  CbufInv'
  <1>1. CASE cbuf_write_fill(t)
    BY <1>1, CbufFill, ZenonT(60)
  <1>2. CASE cbuf_read_wait(t)
    <2>1. /\ event_wait_timeout(t, "INFINITE") /\ then(t, "copy", call[t].len)
          /\ UNCHANGED dataVars
      BY <1>2, ZenonT(60) DEF cbuf_read_wait
    <2>2. UNCHANGED <<magic, autounsignal, signalled>>
      BY <2>1, ZenonT(60) DEF event_wait_timeout, CbufInv
    <2>3. call[t].len \in Nat
      BY DEF CbufInv, CallOK
    <2>4. "copy" \in Doing
      BY DEF Doing
    <2>5. "copy" \notin {"fill", "fill_quiet"}
      OBVIOUS
    <2>6. CallOK'
      BY <2>1, <2>3, <2>4, <2>5, ThenOK, ZenonT(60) DEF CbufInv
    <2> QED
      BY <2>1, <2>2, <2>6, CbufKept, ZenonT(60)
  <1>3. CASE (event_wait_return(t) \/ event_wake(t)) /\ UNCHANGED cbufVars
    <2>1. UNCHANGED dataVars /\ call' = call
      BY <1>3, ZenonT(60) DEF cbufVars
    <2>2. UNCHANGED <<magic, autounsignal, signalled>>
      BY <1>3, ZenonT(60) DEF event_wait_return, event_wake, eventVars
    <2>3. CallOK'
      BY <2>1, ZenonT(60) DEF CallOK, CbufInv
    <2> QED
      BY <2>1, <2>2, <2>3, CbufKept, ZenonT(60)
  <1>4. CASE cbuf_read_copy(t)
    BY <1>4, CbufCopy, ZenonT(60)
  <1>5. CASE cbuf_exit(t)
    <2>1. then(t, "none", 0) /\ UNCHANGED dataVars /\ UNCHANGED eventVars
      BY <1>5, ZenonT(60) DEF cbuf_exit
    <2>2. UNCHANGED <<magic, autounsignal, signalled>>
      BY <2>1, ZenonT(60) DEF eventVars
    <2>3. 0 \in Nat
      OBVIOUS
    <2>4. "none" \in Doing
      BY DEF Doing
    <2>5. "none" \notin {"fill", "fill_quiet"}
      OBVIOUS
    <2>6. CallOK'
      BY <2>1, <2>3, <2>4, <2>5, ThenOK, ZenonT(60) DEF CbufInv
    <2> QED
      BY <2>1, <2>2, <2>6, CbufKept, ZenonT(60)
  <1> QED
    BY <1>1, <1>2, <1>3, <1>4, <1>5, ZenonT(60) DEF CbufStep

\* A call that begins.
LEMMA BeginInv ==
  ASSUME CbufInv, NEW t \in Thread, NEW does \in Doing, NEW len \in Nat,
         begin(t, does, len),
         does \in {"fill", "fill_quiet"} => len \in WriteLen
  PROVE  CbufInv'
  <1>1. then(t, does, len) /\ UNCHANGED dataVars /\ UNCHANGED eventVars
    BY ZenonT(60) DEF begin
  <1>2. UNCHANGED <<magic, autounsignal, signalled>>
    BY <1>1, ZenonT(60) DEF eventVars
  <1>3. CallOK'
    BY <1>1, ThenOK, ZenonT(60) DEF CbufInv
  <1> QED
    BY <1>1, <1>2, <1>3, CbufKept, ZenonT(60)

LEMMA CbufNextInv ==
  ASSUME CbufInv, RoomAtTheEnd, [CbufNext]_allVars
  PROVE  CbufInv'
  <1>1. ASSUME UNCHANGED <<eventVars, cbufVars>>
        PROVE  CbufInv'
    <2>1. UNCHANGED dataVars /\ call' = call
      BY <1>1, ZenonT(60) DEF cbufVars
    <2>2. UNCHANGED <<magic, autounsignal, signalled>>
      BY <1>1, ZenonT(60) DEF eventVars
    <2>3. CallOK'
      BY <2>1, ZenonT(60) DEF CallOK, CbufInv
    <2> QED
      BY <2>1, <2>2, <2>3, CbufKept, ZenonT(60)
  <1>2. CASE cbuf_write_char
    BY <1>2, CbufWriteChar, ZenonT(60)
  <1>3. CASE callback_wake /\ UNCHANGED cbufVars
    <2>1. UNCHANGED dataVars /\ call' = call
      BY <1>3, ZenonT(60) DEF cbufVars
    <2>2. UNCHANGED <<magic, autounsignal, signalled>>
      BY <1>3, ZenonT(60) DEF callback_wake
    <2>3. CallOK'
      BY <2>1, ZenonT(60) DEF CallOK, CbufInv
    <2> QED
      BY <2>1, <2>2, <2>3, CbufKept, ZenonT(60)
  <1>4. ASSUME NEW t \in Thread, NEW len \in WriteLen, NEW canreschedule \in BOOLEAN,
               cbuf_write(t, len, canreschedule)
        PROVE  CbufInv'
    <2>1. len \in Nat
      BY CbufAssumption
    <2>2. begin(t, "fill", len) \/ begin(t, "fill_quiet", len)
      BY <1>4 DEF cbuf_write
    <2>3. "fill" \in Doing /\ "fill_quiet" \in Doing
      BY DEF Doing
    <2> QED
      BY <2>1, <2>2, <2>3, BeginInv, ZenonT(60)
  <1>5. ASSUME NEW t \in Thread, NEW len \in ReadLen, NEW block \in BOOLEAN,
               cbuf_read(t, len, block)
        PROVE  CbufInv'
    <2>1. len \in Nat
      BY CbufAssumption
    <2>2. begin(t, "wait", len) \/ begin(t, "copy", len)
      BY <1>5 DEF cbuf_read
    <2>3. "wait" \in Doing /\ "copy" \in Doing
      BY DEF Doing
    <2>4. {"wait", "copy"} \cap {"fill", "fill_quiet"} = {}
      OBVIOUS
    <2> QED
      BY <2>1, <2>2, <2>3, <2>4, BeginInv, ZenonT(60)
  <1>6. ASSUME NEW t \in Thread, CbufStep(t)
        PROVE  CbufInv'
    BY <1>6, CbufStepInv, ZenonT(60)
  <1>7. CASE UNCHANGED allVars
    BY <1>1, <1>7, ZenonT(60) DEF allVars, vars
  <1> QED
    BY <1>1, <1>2, <1>3, <1>4, <1>5, <1>6, <1>7, ZenonT(60) DEF CbufNext

LEMMA CbufInitInv ==
  ASSUME CbufInit
  PROVE  CbufInv
  <1>1. LEN \in Nat \ {0, 1}
    BY CbufAssumption
  <1>2. /\ head = 0 /\ tail = 0 /\ sent = 0 /\ wanted = 0
        /\ call = [t \in Thread |-> [does |-> "none", len |-> 0]]
        /\ magic /\ ~signalled /\ ~autounsignal
    BY ZenonT(60) DEF CbufInit, Init
  <1>3. signalled \in BOOLEAN
    BY ZenonT(60) DEF CbufInit, Init
  <1>4. /\ head \in Index /\ tail \in Index
        /\ sent \in 0 .. (Serial - 1) /\ wanted \in 0 .. (Serial - 1)
    BY <1>1, <1>2 DEF Index, Serial
  <1>5. BytesInOrder
    <2>1. used(head) = 0
      <3>1. used(head) = IF head < tail THEN head - tail + LEN ELSE head - tail
        BY <1>1, <1>4, SpaceIs, ZenonT(60)
      <3> QED
        BY <1>2, <3>1
    <2>2. (sent - wanted + Serial) % Serial = 0
      BY <1>1, <1>2 DEF Serial
    <2>3. 0 .. (used(head) - 1) = {}
      BY <2>1
    <2> QED
      BY <2>1, <2>2, <2>3, ZenonT(60) DEF BytesInOrder
  <1>6. CallOK
    <2>1. call \in [Thread -> [does : Doing, len : Nat]]
      BY <1>2 DEF Doing
    <2>2. \A t \in Thread : call[t].does \notin {"fill", "fill_quiet"}
      BY <1>2
    <2> QED
      BY <2>1, <2>2, ZenonT(60) DEF CallOK
  <1> QED
    BY <1>2, <1>3, <1>4, <1>5, <1>6, ZenonT(60) DEF CbufInv, DataInv

\* Characters written one at a time always leave a place free.
LEMMA RoomForOne ==
  ASSUME CbufInv, WriteLen \subseteq {1}
  PROVE  RoomAtTheEnd
  <1>1. SUFFICES ASSUME NEW t \in Thread, call[t].does \in {"fill", "fill_quiet"},
                        tail = 0, head # LEN - 1
                 PROVE  head + call[t].len < LEN
    BY DEF RoomAtTheEnd
  <1>2. call[t].len = 1 /\ head \in Index /\ LEN \in Nat
    BY <1>1, CbufAssumption DEF CbufInv, CallOK, DataInv
  <1> QED
    BY <1>1, <1>2 DEF Index

-----------------------------------------------------------------------------
(* The event and the scheduler under it                                    *)

\* The labels inside the loop of wait_queue_wake_all().
Loops == {"wake_all", "wake_quiet"}

\* A blocked thread is in its wait.  The loop that wakes without a reschedule
\* is not interrupted, as the one with a reschedule, and neither of them is
\* for an auto-unsignal event in use.
WaiterOK(t) ==
  /\ state[t] = "BLOCKED" => pc[t] = "wait"
  /\ pc[t] = "wake_quiet" => t = current_thread /\ irq = "off" /\ t \notin preempted
  /\ pc[t] \in Loops /\ magic => ~autounsignal
  /\ pc[t] = "destroy" => ~magic

\* Callbacks run in the interrupt, and a destroyed event is not signalled.
SignalOK ==
  /\ callback => irq # "off" /\ ~autounsignal
  /\ ~magic => ~signalled

\* The ASSERTs on wait->magic hold of an event in use.
WaitQueueValid == magic => wait_magic

\* The inductive invariant of the event.
EventInv ==
  /\ WaitObjectInv
  /\ EventTypeOK
  /\ NoSignalMissed
  /\ OneWaitPerSignal
  /\ WaitQueueValid
  /\ SignalOK
  /\ \A t \in Thread : WaiterOK(t)

\* Nobody is in the middle of waking the waiters of the event.
Calm == ~callback /\ \A u \in Thread : pc[u] \notin Loops

-----------------------------------------------------------------------------
(* The scheduler underneath                                                *)

\* A signal without a reschedule enters the loop with one more section.
LEMMA QuietBeginSched ==
  ASSUME SchedInv(Frames), NEW t \in Thread, Calls(t),
         UNCHANGED <<current_thread, state, remaining_quantum, run_queue,
                     run_queue_bitmap, saved_critical_section_count>>,
         critical_section_count' = critical_section_count + 1,
         goto(t, "wake_quiet"), UNCHANGED <<waitVars, timeVars, ctlVars>>
  PROVE  SchedInv(Frames)'
  <1>1. Running(t) /\ pc[t] = "user" /\ current_thread = t /\ irq = "off"
        /\ t \notin preempted
    BY ZenonT(60) DEF Calls, InUser, Running
  <1>2. /\ state[t] = "RUNNING"
        /\ critical_section_count = OwedWith(Frames, depth[t], pc[t], FALSE)
    <2>1. pc[t] \notin {"exit_wake", "wake_all"}
      BY <1>1, ZenonT(60)
    <2> QED
      BY <1>1, <2>1, FramesFit, RunningFacts, ZenonT(60)
  <1>3. /\ OtherTypesOK /\ pc \in [Thread -> DOMAIN Frames]
        /\ critical_section_count \in Int /\ depth \in [Thread -> Nat]
        /\ remaining_quantum \in [Thread -> 0 .. QUANTUM]
    BY FramesFit, Before, ZenonT(60)
  <1>4. Frames["user"] = 0 /\ Frames["wake_quiet"] = 1 /\ "wake_quiet" \in DOMAIN Frames
    BY DEF Frames
  <1>5. pc' = [pc EXCEPT ![t] = "wake_quiet"] /\ pc' \in [Thread -> DOMAIN Frames]
    BY <1>3, <1>4 DEF goto
  <1>6. OtherTypesOK' /\ UNCHANGED <<wait_list, wait_count, blocking_wait_queue, timer>>
        /\ UNCHANGED <<priority, preempted, depth, irq>>
    BY <1>3, ZenonT(60) DEF OtherTypesOK, waitVars, timeVars, ctlVars
  <1>7. critical_section_count' = OwedWith(Frames, depth[t], "wake_quiet", FALSE)
        /\ critical_section_count' \in Int
    BY <1>1, <1>2, <1>3, <1>4 DEF OwedWith
  <1>8. pc'[t] = "wake_quiet" /\ \A u \in Thread : u # t => pc'[u] = pc[u]
    BY <1>3, <1>5, ZenonT(60)
  <1>9. critical_section_count' =
          OwedWith(Frames, depth'[t], pc'[t], t \in preempted') + (IF irq' = "off" THEN 0 ELSE 1)
    BY <1>1, <1>3, <1>6, <1>7, <1>8 DEF OwedWith
  <1>10. Stays(Frames)
    BY <1>1, <1>2, <1>3, <1>5, <1>6, <1>7, <1>8, <1>9 DEF Stays
  <1> QED
    BY <1>10, FramesFit, Stay

\* The end of that loop leaves the section again.
LEMMA QuietFinishSched ==
  ASSUME SchedInv(Frames), NEW t \in Thread, wake_quiet_finish(t)
  PROVE  SchedInv(Frames)'
  <1>1. /\ Running(t) /\ pc[t] \notin {"exit_wake", "wake_all"}
        /\ leave(t, Frames[pc[t]]) /\ UNCHANGED <<waitVars, timeVars, ctlVars>>
    <2>1. /\ Running(t) /\ pc[t] = "wake_quiet" /\ leave(t, 1)
          /\ UNCHANGED <<waitVars, timeVars, ctlVars>>
      BY ZenonT(60) DEF wake_quiet_finish
    <2>2. Frames["wake_quiet"] = 1 /\ "wake_quiet" \notin {"exit_wake", "wake_all"}
      BY DEF Frames
    <2> QED
      BY <2>1, <2>2, ZenonT(60)
  <1>2. OtherTypesOK' /\ UNCHANGED <<wait_list, wait_count, blocking_wait_queue, timer>>
    BY <1>1, Before DEF OtherTypesOK, waitVars, timeVars, ctlVars
  <1>3. UNCHANGED <<ctlVars, wait_list, wait_count, blocking_wait_queue>>
    BY <1>1, <1>2
  <1>4. \A u \in Thread : timer'[u] = "sleep" <=> timer[u] = "sleep"
    BY <1>2
  <1> QED
    BY <1>1, <1>2, <1>3, <1>4, FramesFit, LeaveStep

\* A handler that returns INT_RESCHEDULE and wakes nobody.
LEMMA RescheduleSched ==
  ASSUME SchedInv(Frames), irq # "off", irq' = "INT_RESCHEDULE",
         UNCHANGED <<runVars, waitVars, timeVars, priority, preempted, depth, pc>>
  PROVE  SchedInv(Frames)'
  <1>1. OtherTypesOK
    BY Before, ZenonT(60)
  <1>2. OtherTypesOK' /\ UNCHANGED <<wait_list, wait_count, blocking_wait_queue, timer>>
    BY <1>1 DEF OtherTypesOK, waitVars, timeVars
  <1>3. /\ state[current_thread] = "RUNNING" /\ current_thread \in Thread
        /\ pc[current_thread] \notin {"exit_wake", "wake_all"}
        /\ current_thread \notin preempted
    BY FramesFit, InterruptedRuns, Before, ZenonT(60)
  <1>4. critical_section_count = OwedWith(Frames, depth[current_thread],
          pc[current_thread], current_thread \in preempted) + 1
    BY DEF SchedInv, Balanced, Owed, OwedWith
  <1>5. pc \in [Thread -> DOMAIN Frames] /\ remaining_quantum \in [Thread -> 0 .. QUANTUM]
        /\ critical_section_count \in Int
    BY FramesFit, Before, ZenonT(60)
  <1>6. Stays(Frames)
    BY <1>2, <1>3, <1>4, <1>5 DEF Stays, runVars
  <1> QED
    BY <1>6, FramesFit, Stay

\* A callback changes what the handler returns, and may wake a thread.
LEMMA CallbackSched ==
  ASSUME SchedInv(Frames), event_signal_callback
  PROVE  SchedInv(Frames)'
  <1>1. /\ irq # "off" /\ irq' = "INT_RESCHEDULE" /\ OtherTypesOK
        /\ UNCHANGED <<current_thread, remaining_quantum, critical_section_count,
                       saved_critical_section_count, timeVars, priority, preempted,
                       depth, pc>>
    BY Before, ZenonT(60) DEF event_signal_callback
  <1>2. CASE wait_list[wait] # <<>> /\ wake_head(wait, "NO_ERROR")
    <2>1. wait \in WaitQueue
      BY WaitObjectAssumption
    <2>2. PICK h \in Thread : /\ h = Head(wait_list[wait]) /\ state[h] = "BLOCKED"
                              /\ blocking_wait_queue[h] = wait
      <3>1. /\ state \in StateType /\ blocking_wait_queue \in BlockingType
            /\ wait_list \in WaitListType /\ wait_count \in WaitCountType
            /\ WaitQueueOK(state, blocking_wait_queue, wait_list, wait_count)
        BY Before, ZenonT(60)
      <3>2. /\ Head(wait_list[wait]) \in Thread
            /\ state[Head(wait_list[wait])] = "BLOCKED"
            /\ blocking_wait_queue[Head(wait_list[wait])] = wait
        BY <1>2, <2>1, <3>1, WaitHead, ZenonT(60)
      <3> QED
        BY <3>2, ZenonT(60)
    <2>3. dequeue(wait, h, "NO_ERROR") /\ make_ready(h)
      BY <1>2, <2>2, ZenonT(60) DEF wake_head
    <2>4. Unblocks(h, wait, "NO_ERROR")
      BY <1>1, <2>2, <2>3 DEF Unblocks, timeVars, OtherTypesOK, Status
    <2> QED
      BY <2>4, FramesFit, UnblockStep, ZenonT(60)
  <1>3. CASE UNCHANGED <<state, run_queue, run_queue_bitmap, waitVars>>
    BY <1>1, <1>3, RescheduleSched, ZenonT(60) DEF runVars
  <1> QED
    BY <1>2, <1>3, ZenonT(60) DEF event_signal_callback

\* event_signal() of a thread keeps the invariant of the scheduler.
LEMMA SignalSched ==
  ASSUME SchedInv(Frames), NEW t \in Thread, NEW reschedule \in BOOLEAN,
         event_signal(t, reschedule)
  PROVE  SchedInv(Frames)'
  <1>1. wait \in WaitQueue /\ "NO_ERROR" \in Status /\ Calls(t)
    BY WaitObjectAssumption DEF Status, event_signal
  <1>2. CASE UNCHANGED schedVars
    BY <1>2, SchedVarsKept, ZenonT(60)
  <1>3. CASE /\ wait_list[wait] # <<>>
             /\ wake_one_resched(wait, "NO_ERROR", critical_section_count + 1)
             /\ goto(t, "wake") /\ UNCHANGED <<timeVars, ctlVars>>
    BY <1>1, <1>3, FramesFit, WakeOneStep, ZenonT(60)
  <1>4. CASE /\ wait_list[wait] # <<>> /\ wake_head(wait, "NO_ERROR")
             /\ UNCHANGED <<current_thread, remaining_quantum, critical_section_count,
                            saved_critical_section_count, timeVars, ctlVars, pc>>
    BY <1>1, <1>4, FramesFit, WakeHeadStep, ZenonT(60)
  <1>5. CASE /\ wake_all_begin
             /\ critical_section_count' = critical_section_count + 1
             /\ goto(t, "wake_all") /\ UNCHANGED <<waitVars, timeVars, ctlVars>>
    BY <1>1, <1>5, FramesFit, WakeAllBeginStep, ZenonT(60)
  <1>6. CASE /\ UNCHANGED <<current_thread, state, remaining_quantum, run_queue,
                            run_queue_bitmap, saved_critical_section_count>>
             /\ critical_section_count' = critical_section_count + 1
             /\ goto(t, "wake_quiet") /\ UNCHANGED <<waitVars, timeVars, ctlVars>>
    BY <1>1, <1>6, QuietBeginSched, ZenonT(60)
  <1> QED
    BY <1>2, <1>3, <1>4, <1>5, <1>6, ZenonT(60) DEF event_signal

\* So does a wait, whether it blocks or not.
LEMMA WaitSched ==
  ASSUME SchedInv(Frames), NEW t \in Thread, NEW timeout \in Timeouts,
         event_wait_timeout(t, timeout)
  PROVE  SchedInv(Frames)'
  <1>1. CASE UNCHANGED schedVars
    BY <1>1, SchedVarsKept, ZenonT(60)
  <1>2. CASE /\ wait_queue_block(wait, timeout, critical_section_count + 1)
             /\ goto(t, "wait") /\ UNCHANGED ctlVars
    <2>1. wait \in WaitQueue /\ timeout \in Timeout
      BY WaitObjectAssumption DEF Timeout
    <2>2. Calls(t)
      BY DEF event_wait_timeout
    <2> QED
      BY <1>2, <2>1, <2>2, FramesFit, BlockStep, ZenonT(60)
  <1> QED
    BY <1>1, <1>2, ZenonT(60) DEF event_wait_timeout

\* Every step of the event keeps the invariant of the scheduler.
LEMMA SchedStep ==
  ASSUME SchedInv(Frames), [Next]_vars
  PROVE  SchedInv(Frames)'
  <1>1. CASE UNCHANGED vars
    BY <1>1, SchedVarsKept DEF vars
  <1>2. CASE Irq
    BY <1>2, FramesFit, IrqStep, ZenonT(60)
  <1>3. CASE callback_wake
    <2>1. wait \in WaitQueue /\ "NO_ERROR" \in Status
      BY WaitObjectAssumption DEF Status
    <2>2. /\ wait_list[wait] # <<>> /\ wake_head(wait, "NO_ERROR")
          /\ UNCHANGED <<current_thread, remaining_quantum, critical_section_count,
                         saved_critical_section_count, timeVars, ctlVars, pc>>
      BY <1>3, ZenonT(60) DEF callback_wake
    <2> QED
      BY <2>1, <2>2, FramesFit, WakeHeadStep, ZenonT(60)
  <1>4. ASSUME NEW t \in Thread, thread_sleep(t) \/ Return(t) PROVE SchedInv(Frames)'
    BY <1>4, FramesFit, SleepStep, ReturnStep, ZenonT(60)
  <1>5. ASSUME NEW t \in Thread, NEW initial \in BOOLEAN,
               event_init(t, initial)
        PROVE  SchedInv(Frames)'
    BY <1>5, SchedVarsKept, ZenonT(60) DEF event_init, no_switch
  <1>6. ASSUME NEW t \in Thread, event_destroy(t) \/ event_destroy_return(t)
        PROVE  SchedInv(Frames)'
    BY <1>6, DestroySched, DestroyReturnSched, ZenonT(60)
       DEF event_destroy, event_destroy_return
  <1>7. ASSUME NEW t \in Thread, event_wait_return(t) PROVE SchedInv(Frames)'
    <2>1. UNCHANGED ctlVars
      BY <1>7, ZenonT(60) DEF event_wait_return
    <2> QED
      BY <1>7, <2>1, WaitReturnSched, ZenonT(60) DEF event_wait_return
  <1>8. ASSUME NEW t \in Thread, event_wake(t) PROVE SchedInv(Frames)'
    <2>1. {"NO_ERROR", "ERR_OBJECT_DESTROYED"} \subseteq Status
      BY DEF Status
    <2>2. (IF magic THEN "NO_ERROR" ELSE "ERR_OBJECT_DESTROYED") \in Status
          /\ (IF magic THEN "wake" ELSE "destroy") \in {"wake", "destroy"}
      BY <2>1, ZenonT(60)
    <2> QED
      BY <1>8, <2>2, WakeAllSched, QuietFinishSched, ZenonT(60) DEF event_wake
  <1>9. ASSUME NEW t \in Thread, event_unsignal(t) PROVE SchedInv(Frames)'
    BY <1>9, SchedVarsKept, ZenonT(60) DEF event_unsignal, no_switch
  <1> QED
    BY <1>1, <1>2, <1>3, <1>4, <1>5, <1>6, <1>7, <1>8, <1>9, SignalSched, WaitSched,
       CallbackSched, ZenonT(60) DEF Next

-----------------------------------------------------------------------------
(* Who is waiting, who is waking                                           *)

\* The queue is empty if and only if nobody is blocked.
LEMMA NobodyWaits ==
  /\ SchedInv(Frames) =>
       (wait_list[wait] = <<>> <=> \A u \in Thread : state[u] # "BLOCKED")
  /\ SchedInv(Frames)' =>
       (wait_list'[wait] = <<>> <=> \A u \in Thread : state'[u] # "BLOCKED")
  <1>1. ASSUME NEW s \in Seq(Thread)
        PROVE  s = <<>> <=> \A u \in Thread : u \notin Range(s)
    <2>1. s = <<>> => Range(s) = {}
      BY DEF Range
    <2>2. s # <<>> => s[1] \in Thread /\ s[1] \in Range(s)
      BY DEF Range
    <2> QED
      BY <2>1, <2>2, ZenonT(60)
  <1>2. /\ SchedInv(Frames) => wait_list[wait] \in Seq(Thread)
        /\ SchedInv(Frames)' => wait_list'[wait] \in Seq(Thread)
    BY WaitObjectAssumption DEF SchedInv, SchedTypeOK
  <1> QED
    BY <1>1, <1>2, BlockedThreads, ZenonT(60)

\* What the invariant of the event says of the scheduler's variables.
LEMMA Facts ==
  ASSUME EventInv
  PROVE  /\ SchedInv(Frames) /\ pc \in [Thread -> DOMAIN Frames]
         /\ wait_queue_block_ret \in [Thread -> Status] /\ current_thread \in Thread
         /\ magic \in BOOLEAN /\ signalled \in BOOLEAN /\ autounsignal \in BOOLEAN
         /\ callback \in BOOLEAN /\ credit \in Int /\ wait_magic \in BOOLEAN
  BY ZenonT(60) DEF EventInv, EventTypeOK, TypeOK, WaitObjectInv, SchedInv, SchedTypeOK

\* A thread that wakes the waiters is the current thread, and runs.
LEMMA WakerRuns ==
  ASSUME EventInv, NEW u \in Thread, pc[u] \in Loops
  PROVE  Running(u)
  BY ZenonT(60) DEF EventInv, WaitObjectInv, SchedInv, CurrentRuns, WaiterOK, Loops, Running

\* Nobody wakes the waiters when another thread runs ...
LEMMA RunningCalm ==
  ASSUME EventInv, NEW t \in Thread, Running(t), pc[t] \notin Loops
  PROVE  Calm
  BY WakerRuns, ZenonT(60) DEF EventInv, SignalOK, Running, Calm

\* ... or when an interrupt is taken.
LEMMA IrqCalm ==
  ASSUME EventInv, ~callback, Irq
  PROVE  Calm
  <1>1. SUFFICES ASSUME NEW u \in Thread, pc[u] \in Loops PROVE FALSE
    BY ZenonT(60) DEF Calm
  <1>2. current_thread = u /\ irq = "off" /\ u \notin preempted
    BY <1>1, WakerRuns, ZenonT(60) DEF Running
  <1>3. critical_section_count = 0
    BY <1>2, ZenonT(60) DEF Irq, irq_enter, irq_exit, irq_return, thread_sleep_handler,
                            wait_queue_timeout_handler
  <1>4. SchedInv(Frames) /\ depth[u] \in Nat
    BY Facts, Before, ZenonT(60)
  <1>5. Frames[pc[u]] = 1
    BY <1>1 DEF Frames, Loops
  <1>6. critical_section_count = depth[u] + 1
    BY <1>2, <1>4, <1>5 DEF SchedInv, Balanced, Owed
  <1> QED
    BY <1>3, <1>4, <1>6

\* While the event is signalled nobody waits, but for the one that wakes them.
LEMMA CalmSignal ==
  ASSUME EventInv, Calm, signalled
  PROVE  \A u \in Thread : state[u] # "BLOCKED"
  BY Facts, NobodyWaits, ZenonT(60) DEF EventInv, NoSignalMissed, Calm, Loops

\* wake_head() wakes the head of the queue.
LEMMA WakeHeadWakes ==
  ASSUME SchedInv(Frames), SchedInv(Frames)', wait_list[wait] # <<>>, NEW err,
         wake_head(wait, err), UNCHANGED <<pc, timeVars>>
  PROVE  \E h \in Thread : Woken(h, err)
  <1> DEFINE h == Head(wait_list[wait])
  <1>1. h \in Thread /\ state[h] = "BLOCKED"
    BY HeadBlocked
  <1>2. /\ wait_list' = [wait_list EXCEPT ![wait] = list_delete(@, h)]
        /\ wait_queue_block_ret' = [wait_queue_block_ret EXCEPT ![h] = err]
        /\ UNCHANGED <<pc, timer, block_timeout>>
    BY DEF wake_head, dequeue, timeVars
  <1>3. \A u \in Thread : state'[u] = "BLOCKED" <=> state[u] = "BLOCKED" /\ u # h
    BY <1>1, <1>2, DequeuedThread, ZenonT(60)
  <1> QED
    BY <1>1, <1>2, <1>3, ZenonT(60) DEF Woken

-----------------------------------------------------------------------------
(* The signals                                                             *)

\* The threads that a signal has let through and that have not run yet.
HandedSet == {t \in Thread : Handed(t)}

\* The set is finite.
LEMMA Counting ==
  ASSUME CountingLaws
  PROVE  IsFiniteSet(HandedSet) /\ Cardinality(HandedSet) \in Nat
  <1>1. HandedSet \subseteq Thread /\ IsFiniteSet(Thread)
    BY EventAssumption, ZenonT(60) DEF HandedSet
  <1>2. IsFiniteSet(HandedSet)
    BY <1>1, SubsetFinite, ZenonT(60)
  <1> QED
    BY <1>2, CardinalityIsNat, ZenonT(60)

\* The balance of an auto-unsignal event.
LEMMA Credit ==
  /\ OneWaitPerSignal <=> (autounsignal =>
       credit = Cardinality(HandedSet) + (IF signalled THEN 1 ELSE 0))
  /\ OneWaitPerSignal' <=> (autounsignal' =>
       credit' = Cardinality(HandedSet') + (IF signalled' THEN 1 ELSE 0))
  BY ZenonT(60) DEF OneWaitPerSignal, HandedSet

\* The parts of the invariant of the event, put together.
LEMMA InvOf ==
  ASSUME SchedInv(Frames)', magic' \in BOOLEAN, signalled' \in BOOLEAN,
         autounsignal' \in BOOLEAN, callback' \in BOOLEAN, credit' \in Int,
         wait_magic' \in BOOLEAN, NoSignalMissed', OneWaitPerSignal', WaitQueueValid',
         SignalOK', \A t \in Thread : WaiterOK(t)'
  PROVE  EventInv'
  BY ZenonT(60) DEF EventInv, EventTypeOK, TypeOK, WaitObjectInv, SchedInv

\* A step that leaves the event alone, and the threads it has let through.
LEMMA InvKept ==
  ASSUME EventInv, SchedInv(Frames)', UNCHANGED eventVars, NoSignalMissed',
         autounsignal => HandedSet' = HandedSet, SignalOK',
         \A t \in Thread : WaiterOK(t)'
  PROVE  EventInv'
  <1>1. UNCHANGED <<magic, signalled, autounsignal, callback, credit, wait_magic>>
    BY ZenonT(60) DEF eventVars
  <1>2. OneWaitPerSignal'
    BY <1>1, Credit, ZenonT(60) DEF EventInv
  <1>3. WaitQueueValid'
    BY <1>1, ZenonT(60) DEF EventInv, WaitQueueValid
  <1> QED
    BY <1>1, <1>2, <1>3, Facts, InvOf, ZenonT(60)

\* A step in which no thread starts or stops waiting or waking.
LEMMA InvQuiet ==
  ASSUME EventInv, SchedInv(Frames)', Quiet, Calm, UNCHANGED eventVars
  PROVE  EventInv'
  <1>1. UNCHANGED <<magic, signalled, autounsignal, callback>> /\ ~callback
    BY ZenonT(60) DEF eventVars, Calm
  <1>2. NoSignalMissed'
    BY <1>1, CalmSignal, NobodyWaits, ZenonT(60) DEF NoSignalMissed, Quiet
  <1>3. HandedSet' = HandedSet
    BY ZenonT(60) DEF Quiet, HandedSet, Handed
  <1>4. SignalOK'
    BY <1>1, ZenonT(60) DEF EventInv, SignalOK
  <1>5. \A t \in Thread : WaiterOK(t)'
    BY <1>1, ZenonT(60) DEF EventInv, WaiterOK, Quiet, Calm, Loops
  <1> QED
    BY <1>2, <1>3, <1>4, <1>5, InvKept, ZenonT(60)

\* A waiter times out.
LEMMA InvTimeout ==
  ASSUME EventInv, SchedInv(Frames)', Calm, UNCHANGED eventVars,
         NEW h \in Thread, Woken(h, "ERR_TIMED_OUT")
  PROVE  EventInv'
  <1>1. UNCHANGED <<magic, signalled, autounsignal, callback>> /\ ~callback
    BY ZenonT(60) DEF eventVars, Calm
  <1>2. NoSignalMissed'
    BY <1>1, CalmSignal, ZenonT(60) DEF NoSignalMissed, Woken
  <1>3. HandedSet' = HandedSet
    BY Facts, ZenonT(60) DEF Woken, HandedSet, Handed
  <1>4. SignalOK'
    BY <1>1, ZenonT(60) DEF EventInv, SignalOK
  <1>5. \A t \in Thread : WaiterOK(t)'
    BY <1>1, ZenonT(60) DEF EventInv, WaiterOK, Woken, Calm, Loops
  <1> QED
    BY <1>2, <1>3, <1>4, <1>5, InvKept, ZenonT(60)

\* A turn of the loop of wait_queue_wake_all(): an auto-unsignal event has it
\* only when it is destroyed, and then nobody is let through.
LEMMA InvWakeStep ==
  ASSUME EventInv, SchedInv(Frames)', NEW t \in Thread, UNCHANGED eventVars,
         wake_all_step(t, IF magic THEN "NO_ERROR" ELSE "ERR_OBJECT_DESTROYED")
  PROVE  EventInv'
  <1>1. UNCHANGED <<magic, signalled, autounsignal, callback>>
    BY ZenonT(60) DEF eventVars
  <1>2. /\ current_thread = t /\ pc[t] \in Loops
        /\ UNCHANGED <<current_thread, pc, irq, preempted>>
    BY ZenonT(60) DEF wake_all_step, Running, Loops, ctlVars
  <1>3. PICK h \in Thread : Woken(h, IF magic THEN "NO_ERROR" ELSE "ERR_OBJECT_DESTROYED")
    BY Facts, WakeAllWakes, ZenonT(60)
  <1>4. NoSignalMissed'
    BY <1>2, ZenonT(60) DEF NoSignalMissed, Loops
  <1>5. autounsignal => HandedSet' = HandedSet
    <2>1. autounsignal => ~magic
      BY <1>2, ZenonT(60) DEF EventInv, WaiterOK
    <2> QED
      BY <1>3, <2>1, Facts, ZenonT(60) DEF Woken, HandedSet, Handed
  <1>6. SignalOK'
    BY <1>1, <1>2, ZenonT(60) DEF EventInv, SignalOK
  <1>7. \A u \in Thread : WaiterOK(u)'
    BY <1>1, <1>2, <1>3, ZenonT(60) DEF EventInv, WaiterOK, Woken
  <1> QED
    BY <1>4, <1>5, <1>6, <1>7, InvKept, ZenonT(60)

\* The end of the loop with a reschedule: nobody is left on the queue.
LEMMA InvWakeFinish ==
  ASSUME EventInv, SchedInv(Frames)', NEW t \in Thread, UNCHANGED eventVars,
         wake_all_finish(t, IF magic THEN "wake" ELSE "destroy")
  PROVE  EventInv'
  <1>0. PICK label \in {"wake", "destroy"} : label = IF magic THEN "wake" ELSE "destroy"
    BY ZenonT(60)
  <1>1. UNCHANGED <<magic, signalled, autounsignal, callback>>
    BY ZenonT(60) DEF eventVars
  <1>2. /\ Running(t) /\ pc[t] = "wake_all" /\ wait_list'[wait] = <<>> /\ irq' = irq
        /\ pc' = [pc EXCEPT ![t] = label]
    BY <1>0, ZenonT(60) DEF wake_all_finish, woken_all, waitVars, ctlVars, goto
  <1>3. /\ UNCHANGED wait_queue_block_ret
        /\ \A u \in Thread :
             /\ pc'[u] = "wait" <=> pc[u] = "wait"
             /\ pc'[u] = "wake_all" <=> pc[u] = "wake_all" /\ u # t
             /\ pc'[u] = "wake_quiet" <=> pc[u] = "wake_quiet"
             /\ state'[u] = "BLOCKED" <=> state[u] = "BLOCKED"
    <2>1. wake_all_finish(t, label)
      BY <1>0, ZenonT(60)
    <2>2. SchedInv(Frames)
      BY Facts, ZenonT(60)
    <2> QED
      BY <2>1, <2>2, QuietCalls, ZenonT(60)
  <1>4. \A u \in Thread : pc'[u] = "destroy" => pc[u] = "destroy" \/ ~magic
    BY <1>0, <1>2, Facts, ZenonT(60)
  <1>5. \A u \in Thread : pc[u] \in Loops => u = t
    BY <1>2, WakerRuns, ZenonT(60) DEF Running
  <1>6. NoSignalMissed'
    BY <1>2, ZenonT(60) DEF NoSignalMissed
  <1>7. HandedSet' = HandedSet
    BY <1>3, ZenonT(60) DEF HandedSet, Handed
  <1>8. SignalOK'
    BY <1>1, <1>2, ZenonT(60) DEF EventInv, SignalOK
  <1>9. \A u \in Thread : WaiterOK(u)'
    BY <1>1, <1>2, <1>3, <1>4, <1>5, ZenonT(60) DEF EventInv, WaiterOK, Loops
  <1> QED
    BY <1>6, <1>7, <1>8, <1>9, InvKept, ZenonT(60)

\* The end of the loop without one.
LEMMA InvQuietFinish ==
  ASSUME EventInv, SchedInv(Frames)', NEW t \in Thread, UNCHANGED eventVars,
         wake_quiet_finish(t)
  PROVE  EventInv'
  <1>1. UNCHANGED <<magic, signalled, autounsignal, callback>>
    BY ZenonT(60) DEF eventVars
  <1>2. /\ Running(t) /\ pc[t] = "wake_quiet" /\ wait_list'[wait] = <<>>
        /\ pc' = [pc EXCEPT ![t] = "user"]
        /\ UNCHANGED <<wait_queue_block_ret, state, irq>>
    BY ZenonT(60) DEF wake_quiet_finish, woken_all, waitVars, ctlVars, goto, leave
  <1>3. pc'[t] = "user" /\ \A u \in Thread : u # t => pc'[u] = pc[u]
    BY <1>2, Facts, ZenonT(60)
  <1>4. \A u \in Thread : pc[u] \in Loops => u = t
    BY <1>2, WakerRuns, ZenonT(60) DEF Running
  <1>5. NoSignalMissed'
    BY <1>2, ZenonT(60) DEF NoSignalMissed
  <1>6. HandedSet' = HandedSet
    BY <1>2, <1>3, ZenonT(60) DEF HandedSet, Handed
  <1>7. SignalOK'
    BY <1>1, <1>2, ZenonT(60) DEF EventInv, SignalOK
  <1>8. \A u \in Thread : WaiterOK(u)'
    <2>1. state[t] # "BLOCKED"
      BY <1>2, ZenonT(60) DEF EventInv, WaiterOK
    <2> QED
      BY <1>1, <1>2, <1>3, <1>4, <2>1, ZenonT(60) DEF EventInv, WaiterOK, Loops
  <1> QED
    BY <1>5, <1>6, <1>7, <1>8, InvKept, ZenonT(60)

\* A step that neither wakes nor lets anybody wait: event_unsignal(), a wait
\* that finds the event signalled and a signal that finds nobody waiting.
LEMMA InvNoSwitch ==
  ASSUME CountingLaws,
         EventInv, SchedInv(Frames)', magic, NEW t \in Thread, Calls(t),
         UNCHANGED <<schedVars, magic, autounsignal, callback, wait_magic>>,
         \/ signalled' = FALSE /\ take_signal
         \/ signalled /\ signalled' = ~autounsignal /\ take_signal
         \/ /\ ~signalled /\ signalled' = TRUE /\ wait_list[wait] = <<>>
            /\ credit' = IF autounsignal THEN credit + 1 ELSE credit
  PROVE  EventInv'
  <1>1. UNCHANGED <<wait_list, wait_queue_block_ret, state, pc, irq, preempted, current_thread>>
    BY ZenonT(60) DEF schedVars, runVars, waitVars, ctlVars
  <1>2. HandedSet' = HandedSet
    BY <1>1, ZenonT(60) DEF HandedSet, Handed
  <1>3. Calm
    BY RunningCalm, ZenonT(60) DEF Calls, InUser, Loops
  <1>4. NoSignalMissed'
    BY <1>1, <1>3, CalmSignal, Facts, NobodyWaits, ZenonT(60) DEF NoSignalMissed
  <1>5. credit' \in Int /\ OneWaitPerSignal'
    <2>1. CASE ~autounsignal
      <3>1. credit' = credit
        BY <2>1, ZenonT(60) DEF take_signal
      <3> QED
        BY <2>1, <3>1, Facts, ZenonT(60) DEF OneWaitPerSignal
    <2>2. CASE autounsignal
      <3>1. credit = Cardinality(HandedSet) + (IF signalled THEN 1 ELSE 0)
        BY <2>2, Credit, ZenonT(60) DEF EventInv
      <3>2. \/ ~signalled' /\ credit' = IF signalled THEN credit - 1 ELSE credit
            \/ ~signalled /\ signalled' /\ credit' = credit + 1
        BY <2>2, ZenonT(60) DEF take_signal
      <3>3. credit' \in Int /\ credit' = Cardinality(HandedSet) + (IF signalled' THEN 1 ELSE 0)
        BY <3>1, <3>2, Counting
      <3> QED
        BY <1>2, <3>3, Credit, ZenonT(60)
    <2> QED
      BY <2>1, <2>2, ZenonT(60)
  <1>6. signalled' \in BOOLEAN
    BY Facts
  <1>7. SignalOK' /\ WaitQueueValid'
    BY <1>1, ZenonT(60) DEF EventInv, SignalOK, WaitQueueValid
  <1>8. \A u \in Thread : WaiterOK(u)'
    BY <1>1, ZenonT(60) DEF EventInv, WaiterOK
  <1> QED
    BY <1>4, <1>5, <1>6, <1>7, <1>8, Facts, InvOf, ZenonT(60)

\* A signal of an auto-unsignal event hands itself to the thread it wakes.
LEMMA InvSignalWakes ==
  ASSUME CountingLaws, EventInv, SchedInv(Frames)', signal, autounsignal, Calm,
         wait_list[wait] # <<>>, UNCHANGED callback,
         NEW h \in Thread, Woken(h, "NO_ERROR")
  PROVE  EventInv'
  <1>1. /\ magic /\ ~signalled /\ signalled' = FALSE /\ credit' = credit + 1
        /\ UNCHANGED <<magic, autounsignal, wait_magic>> /\ ~callback
    BY ZenonT(60) DEF signal, signalled_after, Calm
  <1>2. HandedSet' = HandedSet \union {h} /\ h \notin HandedSet
    BY Facts, ZenonT(60) DEF Woken, HandedSet, Handed, EventInv, WaiterOK
  <1>3. Cardinality(HandedSet') = Cardinality(HandedSet) + 1
    BY <1>2, Counting, AddedCounted, ZenonT(60)
  <1>4. credit' \in Int /\ OneWaitPerSignal'
    <2>1. credit = Cardinality(HandedSet) + (IF signalled THEN 1 ELSE 0)
      BY Credit, ZenonT(60) DEF EventInv
    <2>2. credit' = Cardinality(HandedSet') + (IF signalled' THEN 1 ELSE 0)
      BY <1>1, <1>3, <2>1, Counting
    <2>3. credit' \in Int
      BY <1>1, Facts
    <2> QED
      BY <2>2, <2>3, Credit, ZenonT(60)
  <1>5. NoSignalMissed' /\ SignalOK' /\ WaitQueueValid'
    BY <1>1, ZenonT(60) DEF EventInv, NoSignalMissed, SignalOK, WaitQueueValid
  <1>6. \A u \in Thread : WaiterOK(u)'
    BY <1>1, ZenonT(60) DEF EventInv, WaiterOK, Woken, Calm, Loops
  <1>7. signalled' \in BOOLEAN
    BY <1>1, Zenon
  <1> QED
    BY <1>1, <1>4, <1>5, <1>6, <1>7, Facts, InvOf, ZenonT(60)

\* A signal of any other event starts the loop that wakes all the waiters.
LEMMA InvSignalAll ==
  ASSUME EventInv, SchedInv(Frames)', NEW t \in Thread, Calls(t), signal, ~autounsignal,
         NEW label \in Loops, goto(t, label), UNCHANGED <<waitVars, ctlVars, callback>>,
         current_thread' = current_thread
  PROVE  EventInv'
  <1>1. /\ Running(t) /\ current_thread = t /\ irq = "off" /\ t \notin preempted
        /\ pc[t] = "user" /\ UNCHANGED <<magic, autounsignal, wait_magic>>
        /\ magic /\ signalled' \in BOOLEAN /\ credit' = credit
        /\ pc' = [pc EXCEPT ![t] = label] /\ UNCHANGED <<wait_list, irq, preempted>>
    BY ZenonT(60) DEF Calls, InUser, Running, signal, signalled_after, goto, waitVars, ctlVars
  <1>2. pc'[t] = label /\ \A u \in Thread : u # t => pc'[u] = pc[u]
    BY <1>1, Facts, ZenonT(60)
  <1>3. \A u \in Thread : state'[u] = "BLOCKED" <=> state[u] = "BLOCKED"
    BY <1>1, Facts, BlockedThreads, ZenonT(60)
  <1>4. Calm
    BY <1>1, RunningCalm, ZenonT(60) DEF Loops
  <1>5. NoSignalMissed'
    BY <1>1, <1>2, ZenonT(60) DEF NoSignalMissed, Loops
  <1>6. OneWaitPerSignal' /\ SignalOK' /\ WaitQueueValid'
    BY <1>1, ZenonT(60) DEF EventInv, OneWaitPerSignal, SignalOK, WaitQueueValid
  <1>7. \A u \in Thread : WaiterOK(u)'
    <2>1. ASSUME NEW u \in Thread, u # t PROVE WaiterOK(u)'
      BY <1>1, <1>2, <1>3, <1>4, <2>1, ZenonT(60) DEF EventInv, WaiterOK, Calm, Loops
    <2>2. WaiterOK(t)'
      <3>1. state'[t] # "BLOCKED"
        BY <1>1, <1>3, ZenonT(60) DEF EventInv, WaiterOK
      <3>2. pc'[t] # "destroy"
        BY <1>2, ZenonT(60) DEF Loops
      <3> QED
        BY <1>1, <3>1, <3>2, ZenonT(60) DEF WaiterOK
    <2> QED
      BY <2>1, <2>2, ZenonT(60)
  <1> QED
    BY <1>1, <1>5, <1>6, <1>7, Facts, InvOf, ZenonT(60)

\* event_signal() of a thread.
LEMMA InvSignal ==
  ASSUME CountingLaws,
         EventInv, SchedInv(Frames)', NEW t \in Thread, NEW reschedule \in BOOLEAN,
         event_signal(t, reschedule)
  PROVE  EventInv'
  <1>1. /\ Calls(t) /\ signal /\ magic /\ ~signalled /\ UNCHANGED callback
        /\ UNCHANGED <<magic, autounsignal, wait_magic>>
        /\ credit' = IF autounsignal THEN credit + 1 ELSE credit
        /\ signalled' = (~autounsignal \/ wait_list[wait] = <<>>)
    BY ZenonT(60) DEF event_signal, signal, signalled_after
  <1>2. SchedInv(Frames)
    BY Facts, ZenonT(60)
  <1>3. Calm
    BY <1>1, RunningCalm, ZenonT(60) DEF Calls, InUser, Loops
  <1>4. CASE wait_list[wait] = <<>> /\ UNCHANGED schedVars
    <2>1. signalled' = TRUE
      BY <1>1, <1>4, ZenonT(60)
    <2> QED
      BY <1>1, <1>4, <2>1, InvNoSwitch, ZenonT(60)
  <1>5. CASE /\ wait_list[wait] # <<>> /\ autounsignal
             /\ wake_one_resched(wait, "NO_ERROR", critical_section_count + 1)
             /\ goto(t, "wake") /\ UNCHANGED timeVars
    <2>1. \E h \in Thread : Woken(h, "NO_ERROR")
      BY <1>1, <1>2, <1>5, WakeOneWakes, ZenonT(60)
    <2> QED
      BY <1>1, <1>3, <1>5, <2>1, InvSignalWakes, ZenonT(60)
  <1>6. CASE /\ wait_list[wait] # <<>> /\ autounsignal
             /\ wake_head(wait, "NO_ERROR") /\ UNCHANGED <<pc, timeVars>>
    <2>1. \E h \in Thread : Woken(h, "NO_ERROR")
      BY <1>2, <1>6, WakeHeadWakes, ZenonT(60)
    <2> QED
      BY <1>1, <1>3, <1>6, <2>1, InvSignalWakes, ZenonT(60)
  <1>7. CASE /\ ~autounsignal /\ current_thread' = current_thread
             /\ goto(t, IF reschedule THEN "wake_all" ELSE "wake_quiet")
             /\ UNCHANGED <<waitVars, ctlVars>>
    <2>1. PICK label \in Loops : goto(t, label)
      BY <1>7, ZenonT(60) DEF Loops
    <2> QED
      BY <1>1, <1>7, <2>1, InvSignalAll, ZenonT(60)
  <1> QED
    BY <1>4, <1>5, <1>6, <1>7, ZenonT(60) DEF event_signal, wake_all_begin

\* The signal of a timer callback.
LEMMA InvCallback ==
  ASSUME CountingLaws, EventInv, SchedInv(Frames)', event_signal_callback
  PROVE  EventInv'
  <1>1. /\ irq # "off" /\ irq' # "off" /\ ~callback /\ signal /\ magic /\ ~signalled
        /\ UNCHANGED <<magic, autounsignal, wait_magic, pc, timeVars, current_thread>>
        /\ credit' = IF autounsignal THEN credit + 1 ELSE credit
        /\ signalled' = (~autounsignal \/ wait_list[wait] = <<>>)
    BY ZenonT(60) DEF event_signal_callback, signal, signalled_after
  <1>2. SchedInv(Frames)
    BY Facts, ZenonT(60)
  <1>3. Calm
    BY <1>1, WakerRuns, ZenonT(60) DEF Calm, Running
  <1>4. CASE /\ wait_list[wait] # <<>> /\ autounsignal
             /\ wake_head(wait, "NO_ERROR") /\ UNCHANGED callback
    <2>1. \E h \in Thread : Woken(h, "NO_ERROR")
      BY <1>1, <1>2, <1>4, WakeHeadWakes, ZenonT(60)
    <2> QED
      BY <1>1, <1>3, <1>4, <2>1, InvSignalWakes, ZenonT(60)
  <1>5. CASE /\ wait_list[wait] = <<>> \/ ~autounsignal
             /\ callback' = (wait_list[wait] # <<>>)
             /\ UNCHANGED <<state, waitVars>>
    <2>1. UNCHANGED <<wait_list, wait_queue_block_ret, state, pc>> /\ signalled' = TRUE
          /\ callback' \in BOOLEAN
      BY <1>1, <1>5, ZenonT(60) DEF waitVars
    <2>2. HandedSet' = HandedSet
      BY <2>1, ZenonT(60) DEF HandedSet, Handed
    <2>3. credit' \in Int /\ OneWaitPerSignal'
      <3>1. CASE ~autounsignal
        BY <1>1, <3>1, Facts, ZenonT(60) DEF OneWaitPerSignal
      <3>2. CASE autounsignal
        <4>1. credit = Cardinality(HandedSet) + 0 /\ credit' = credit + 1
          BY <1>1, <3>2, Credit, ZenonT(60) DEF EventInv
        <4>2. credit' \in Int /\ credit' = Cardinality(HandedSet) + 1
          BY <4>1, Counting
        <4> QED
          BY <2>1, <2>2, <4>2, Credit, ZenonT(60)
      <3> QED
        BY <3>1, <3>2, ZenonT(60)
    <2>4. NoSignalMissed'
      BY <1>5, <2>1, ZenonT(60) DEF NoSignalMissed
    <2>5. SignalOK' /\ WaitQueueValid'
      BY <1>1, <1>5, <2>1, ZenonT(60) DEF EventInv, SignalOK, WaitQueueValid
    <2>6. \A u \in Thread : WaiterOK(u)'
      BY <1>1, <1>3, <2>1, ZenonT(60) DEF EventInv, WaiterOK, Calm, Loops
    <2> QED
      BY <1>1, <2>1, <2>3, <2>4, <2>5, <2>6, Facts, InvOf, ZenonT(60)
  <1> QED
    BY <1>4, <1>5, ZenonT(60) DEF event_signal_callback

\* A turn of the loop of wait_queue_wake_all() in a callback.
LEMMA InvCallbackWake ==
  ASSUME EventInv, SchedInv(Frames)', callback_wake
  PROVE  EventInv'
  <1>1. /\ callback /\ wait_list[wait] # <<>> /\ wake_head(wait, "NO_ERROR")
        /\ callback' = (wait_list'[wait] # <<>>)
        /\ UNCHANGED <<pc, timeVars, irq, magic, signalled, autounsignal, credit, wait_magic>>
    BY ZenonT(60) DEF callback_wake, ctlVars
  <1>2. SchedInv(Frames) /\ irq # "off" /\ ~autounsignal
    BY <1>1, Facts, ZenonT(60) DEF EventInv, SignalOK
  <1>3. PICK h \in Thread : Woken(h, "NO_ERROR")
    BY <1>1, <1>2, WakeHeadWakes, ZenonT(60)
  <1>4. \A u \in Thread : pc[u] \notin Loops
    BY <1>2, WakerRuns, ZenonT(60) DEF Running
  <1>5. NoSignalMissed' /\ OneWaitPerSignal' /\ SignalOK' /\ WaitQueueValid'
    BY <1>1, <1>2, ZenonT(60)
       DEF EventInv, NoSignalMissed, OneWaitPerSignal, SignalOK, WaitQueueValid
  <1>6. \A u \in Thread : WaiterOK(u)'
    BY <1>1, <1>3, <1>4, ZenonT(60) DEF EventInv, WaiterOK, Woken, Loops
  <1>7. callback' \in BOOLEAN
    BY <1>1, ZenonT(60)
  <1> QED
    BY <1>1, <1>5, <1>6, <1>7, Facts, InvOf, ZenonT(60)

\* A wait takes the signal or blocks.
LEMMA InvWait ==
  ASSUME CountingLaws,
         EventInv, SchedInv(Frames)', NEW t \in Thread, NEW timeout \in Timeouts,
         event_wait_timeout(t, timeout)
  PROVE  EventInv'
  <1>1. Calls(t) /\ magic /\ UNCHANGED <<magic, autounsignal, callback, wait_magic>>
    BY ZenonT(60) DEF event_wait_timeout
  <1>2. CASE signalled /\ signalled' = ~autounsignal /\ take_signal /\ UNCHANGED schedVars
    BY <1>1, <1>2, InvNoSwitch, ZenonT(60)
  <1>3. CASE /\ ~signalled /\ wait_queue_block(wait, timeout, critical_section_count + 1)
             /\ goto(t, "wait") /\ UNCHANGED <<ctlVars, signalled, credit>>
    <2>1. SchedInv(Frames)
      BY Facts, ZenonT(60)
    <2>2. /\ wait_queue_block_ret' = [wait_queue_block_ret EXCEPT ![t] = "NO_ERROR"]
          /\ pc' = [pc EXCEPT ![t] = "wait"]
          /\ \A u \in Thread : state'[u] = "BLOCKED" <=> state[u] = "BLOCKED" \/ u = t
      BY <1>1, <1>3, <2>1, BlockedCaller, ZenonT(60)
    <2>3. Calm /\ pc[t] = "user"
      BY <1>1, RunningCalm, ZenonT(60) DEF Calls, InUser, Loops
    <2>4. NoSignalMissed'
      BY <1>3, ZenonT(60) DEF NoSignalMissed
    <2>5. HandedSet' = HandedSet
      BY <2>2, <2>3, Facts, ZenonT(60) DEF HandedSet, Handed
    <2>6. UNCHANGED eventVars
      BY <1>1, <1>3, ZenonT(60) DEF eventVars
    <2>7. SignalOK'
      BY <1>1, <1>3, <2>3, ZenonT(60) DEF EventInv, SignalOK, Calm
    <2>8. \A u \in Thread : WaiterOK(u)'
      BY <1>1, <2>2, <2>3, Facts, ZenonT(60) DEF EventInv, WaiterOK, Calm, Loops
    <2> QED
      BY <2>4, <2>5, <2>6, <2>7, <2>8, InvKept, ZenonT(60)
  <1> QED
    BY <1>2, <1>3, ZenonT(60) DEF event_wait_timeout

\* A waiter runs again: the signal that let it through is spent.
LEMMA InvReturn ==
  ASSUME CountingLaws,
         EventInv, SchedInv(Frames)', NEW t \in Thread, event_wait_return(t)
  PROVE  EventInv'
  <1>1. /\ Running(t) /\ pc[t] = "wait" /\ pc' = [pc EXCEPT ![t] = "user"]
        /\ UNCHANGED <<magic, signalled, autounsignal, callback, wait_magic, state,
                       wait_list, wait_queue_block_ret>>
        /\ credit' = IF autounsignal /\ wait_queue_block_ret[t] = "NO_ERROR"
                     THEN credit - 1 ELSE credit
    BY ZenonT(60) DEF event_wait_return, leave, goto, wait_queue_unblocked, waitVars
  <1>2. SchedInv(Frames) /\ pc \in [Thread -> DOMAIN Frames]
    BY Facts, ZenonT(60)
  <1>3. Calm
    BY <1>1, RunningCalm, ZenonT(60) DEF Loops
  <1>4. state[t] = "RUNNING"
    <2>1. pc[t] \notin {"exit_wake", "wake_all"} /\ Running(t)
      BY <1>1, ZenonT(60)
    <2> QED
      BY <1>2, <2>1, FramesFit, RunningFacts, ZenonT(60)
  <1>5. /\ HandedSet' = HandedSet \ {t}
        /\ wait_queue_block_ret[t] = "NO_ERROR" <=> t \in HandedSet
    BY <1>1, <1>2, <1>4, ZenonT(60) DEF HandedSet, Handed
  <1>6. credit' \in Int /\ OneWaitPerSignal'
    <2>1. CASE ~autounsignal
      BY <1>1, <2>1, Facts, ZenonT(60) DEF OneWaitPerSignal
    <2>2. CASE autounsignal /\ t \notin HandedSet
      <3>1. HandedSet' = HandedSet /\ credit' = credit
        BY <1>1, <1>5, <2>2, ZenonT(60)
      <3> QED
        BY <1>1, <3>1, Credit, Facts, ZenonT(60) DEF EventInv
    <2>3. CASE autounsignal /\ t \in HandedSet
      <3>1. Cardinality(HandedSet') = Cardinality(HandedSet) - 1
        BY <1>5, <2>3, Counting, RemovedCounted, ZenonT(60)
      <3>2. credit' = credit - 1
            /\ credit = Cardinality(HandedSet) + (IF signalled THEN 1 ELSE 0)
        BY <1>1, <1>5, <2>3, Credit, ZenonT(60) DEF EventInv
      <3>3. credit' \in Int /\ credit' = Cardinality(HandedSet') + (IF signalled THEN 1 ELSE 0)
        BY <3>1, <3>2, Counting
      <3> QED
        BY <1>1, <3>3, Credit, ZenonT(60)
    <2> QED
      BY <2>1, <2>2, <2>3, ZenonT(60)
  <1>7. NoSignalMissed'
    BY <1>1, <1>2, <1>3, CalmSignal, NobodyWaits, ZenonT(60) DEF NoSignalMissed
  <1>8. SignalOK' /\ WaitQueueValid'
    BY <1>1, <1>3, ZenonT(60) DEF EventInv, SignalOK, WaitQueueValid, Calm
  <1>9. \A u \in Thread : WaiterOK(u)'
    BY <1>1, <1>2, <1>3, <1>4, ZenonT(60) DEF EventInv, WaiterOK, Calm, Loops
  <1> QED
    BY <1>1, <1>6, <1>7, <1>8, <1>9, Facts, InvOf, ZenonT(60)

\* event_init() of a destroyed event: nobody waits for it any more.
LEMMA InvInit ==
  ASSUME CountingLaws,
         EventInv, SchedInv(Frames)', NEW t \in Thread, NEW initial \in BOOLEAN,
         event_init(t, initial)
  PROVE  EventInv'
  <1>1. /\ Running(t) /\ pc[t] = "user" /\ ~magic /\ magic' = TRUE
        /\ signalled' = initial /\ wait_magic' = TRUE /\ wait_list[wait] = <<>>
        /\ credit' = IF initial /\ autounsignal THEN credit + 1 ELSE credit
        /\ UNCHANGED <<autounsignal, callback>> /\ \A u \in Thread : pc[u] # "destroy"
    BY ZenonT(60) DEF event_init, no_switch, Calls, InUser, wait_queue_init, DestroyIsOver
  <1>2. UNCHANGED <<wait_list, wait_queue_block_ret, state, pc>>
    BY ZenonT(60) DEF event_init, no_switch, schedVars, runVars, waitVars
  <1>3. Calm /\ ~signalled
    BY <1>1, RunningCalm, ZenonT(60) DEF Loops, EventInv, SignalOK
  <1>4. HandedSet' = HandedSet
    BY <1>2, ZenonT(60) DEF HandedSet, Handed
  <1>5. credit' \in Int /\ OneWaitPerSignal'
    <2>1. CASE ~autounsignal
      BY <1>1, <2>1, Facts, ZenonT(60) DEF OneWaitPerSignal
    <2>2. CASE autounsignal
      <3>1. credit = Cardinality(HandedSet) + 0
            /\ credit' = IF initial THEN credit + 1 ELSE credit
        BY <1>1, <1>3, <2>2, Credit, ZenonT(60) DEF EventInv
      <3>2. credit' \in Int /\ credit' = Cardinality(HandedSet) + (IF initial THEN 1 ELSE 0)
        BY <3>1, Counting
      <3> QED
        BY <1>1, <1>4, <3>2, Credit, ZenonT(60)
    <2> QED
      BY <2>1, <2>2, ZenonT(60)
  <1>6. NoSignalMissed' /\ SignalOK' /\ WaitQueueValid'
    BY <1>1, <1>2, <1>3, ZenonT(60)
       DEF EventInv, NoSignalMissed, SignalOK, WaitQueueValid, Calm
  <1>7. \A u \in Thread : WaiterOK(u)'
    BY <1>1, <1>2, <1>3, ZenonT(60) DEF EventInv, WaiterOK, Calm, Loops
  <1>8. wait_magic' \in BOOLEAN /\ magic' \in BOOLEAN
    BY <1>1, Zenon
  <1> QED
    BY <1>1, <1>5, <1>6, <1>7, <1>8, Facts, InvOf, ZenonT(60)

\* event_destroy() takes the signal away and wakes all the waiters.
LEMMA InvDestroy ==
  ASSUME CountingLaws,
         EventInv, SchedInv(Frames)', NEW t \in Thread, event_destroy(t)
  PROVE  EventInv'
  <1>1. /\ Running(t) /\ pc[t] = "user" /\ magic /\ magic' = FALSE /\ signalled' = FALSE
        /\ take_signal /\ UNCHANGED <<autounsignal, callback>>
        /\ wait_queue_destroy(t)
    BY ZenonT(60) DEF event_destroy, Calls, InUser
  <1>2. /\ UNCHANGED <<wait_list, wait_queue_block_ret>>
        /\ pc' = [pc EXCEPT ![t] = "wake_all"] \/ pc' = pc
        /\ wait_magic' = wait_magic \/ wait_magic' = FALSE
    BY <1>1, ZenonT(60) DEF wait_queue_destroy, schedVars, waitVars, goto
  <1>3. SchedInv(Frames) /\ pc \in [Thread -> DOMAIN Frames]
    BY Facts, ZenonT(60)
  <1>4. \A u \in Thread : state'[u] = "BLOCKED" <=> state[u] = "BLOCKED"
    BY <1>2, <1>3, BlockedThreads, ZenonT(60)
  <1>5. \A u \in Thread : /\ pc'[u] = "wait" <=> pc[u] = "wait"
                          /\ pc'[u] = "wake_quiet" <=> pc[u] = "wake_quiet"
                          /\ pc'[u] = "destroy" => pc[u] = "destroy"
    BY <1>1, <1>2, <1>3, ZenonT(60)
  <1>6. Calm
    BY <1>1, RunningCalm, ZenonT(60) DEF Loops
  <1>7. HandedSet' = HandedSet
    BY <1>2, <1>4, <1>5, ZenonT(60) DEF HandedSet, Handed
  <1>8. credit' \in Int /\ OneWaitPerSignal'
    <2>1. CASE ~autounsignal
      BY <1>1, <2>1, Facts, ZenonT(60) DEF OneWaitPerSignal, take_signal
    <2>2. CASE autounsignal
      <3>1. credit = Cardinality(HandedSet) + (IF signalled THEN 1 ELSE 0)
            /\ credit' = IF signalled THEN credit - 1 ELSE credit
        BY <1>1, <2>2, Credit, ZenonT(60) DEF EventInv, take_signal
      <3>2. credit' \in Int /\ credit' = Cardinality(HandedSet) + 0
        BY <3>1, Counting
      <3> QED
        BY <1>1, <1>7, <3>2, Credit, ZenonT(60)
    <2> QED
      BY <2>1, <2>2, ZenonT(60)
  <1>9. NoSignalMissed' /\ SignalOK' /\ WaitQueueValid'
    BY <1>1, <1>6, ZenonT(60) DEF NoSignalMissed, SignalOK, WaitQueueValid, Calm
  <1>10. \A u \in Thread : WaiterOK(u)'
    BY <1>1, <1>4, <1>5, <1>6, ZenonT(60) DEF EventInv, WaiterOK, Calm, Loops
  <1>11. wait_magic' \in BOOLEAN /\ magic' \in BOOLEAN /\ signalled' \in BOOLEAN
    BY <1>1, <1>2, Facts, Zenon
  <1> QED
    BY <1>1, <1>8, <1>9, <1>10, <1>11, Facts, InvOf, ZenonT(60)

\* Its return clears the magic of the wait queue.
LEMMA InvDestroyReturn ==
  ASSUME EventInv, SchedInv(Frames)', NEW t \in Thread, event_destroy_return(t)
  PROVE  EventInv'
  <1>1. /\ Running(t) /\ pc[t] = "destroy" /\ wait_magic' = FALSE
        /\ wait_queue_destroy_return(t)
        /\ UNCHANGED <<magic, signalled, autounsignal, callback, credit>>
    BY ZenonT(60) DEF event_destroy_return, wait_queue_destroy_return
  <1>2. SchedInv(Frames) /\ pc[t] # "wake_all" /\ "destroy" \in {"wake", "destroy"}
    BY <1>1, Facts, ZenonT(60)
  <1>3. Quiet
    BY <1>1, <1>2, QuietCalls, ZenonT(60)
  <1>4. ~magic /\ ~signalled
    BY <1>1, ZenonT(60) DEF EventInv, WaiterOK, SignalOK
  <1>5. Calm
    BY <1>1, RunningCalm, ZenonT(60) DEF Loops
  <1>6. HandedSet' = HandedSet
    BY <1>3, ZenonT(60) DEF Quiet, HandedSet, Handed
  <1>7. OneWaitPerSignal'
    BY <1>1, <1>6, Credit, ZenonT(60) DEF EventInv
  <1>8. NoSignalMissed' /\ SignalOK' /\ WaitQueueValid'
    BY <1>1, <1>4, <1>5, ZenonT(60) DEF NoSignalMissed, SignalOK, WaitQueueValid, Calm
  <1>9. \A u \in Thread : WaiterOK(u)'
    BY <1>1, <1>3, <1>5, ZenonT(60) DEF EventInv, WaiterOK, Quiet, Calm, Loops
  <1>10. wait_magic' \in BOOLEAN
    BY <1>1, Zenon
  <1> QED
    BY <1>1, <1>7, <1>8, <1>9, <1>10, Facts, InvOf, ZenonT(60)

\* Every step keeps the invariant of the event.
LEMMA EventStep ==
  ASSUME CountingLaws, EventInv, [Next]_vars
  PROVE  EventInv'
  <1>1. SchedInv(Frames) /\ SchedInv(Frames)'
    BY SchedStep, ZenonT(60) DEF EventInv, WaitObjectInv
  <1>2. CASE UNCHANGED vars
    <2>1. UNCHANGED <<current_thread, state, pc, wait_list, wait_queue_block_ret, irq, preempted,
                      magic, signalled, autounsignal, callback>> /\ UNCHANGED eventVars
      BY <1>2, ZenonT(60) DEF vars, schedVars, runVars, waitVars, ctlVars, eventVars
    <2>2. NoSignalMissed' /\ SignalOK' /\ HandedSet' = HandedSet
      BY <2>1, ZenonT(60) DEF EventInv, NoSignalMissed, SignalOK, HandedSet, Handed
    <2>3. \A t \in Thread : WaiterOK(t)'
      BY <2>1, ZenonT(60) DEF EventInv, WaiterOK
    <2> QED
      BY <1>1, <2>1, <2>2, <2>3, InvKept, ZenonT(60)
  <1>3. CASE ~callback /\ Irq /\ UNCHANGED eventVars
    BY <1>1, <1>3, IrqCalm, IrqWakes, InvQuiet, InvTimeout, ZenonT(60)
  <1>4. ASSUME NEW t \in Thread, thread_sleep(t) \/ Return(t), UNCHANGED eventVars
        PROVE  EventInv'
    <2>1. Running(t) /\ pc[t] \notin Loops /\ pc[t] # "wake_all"
      BY <1>4, ZenonT(60) DEF thread_sleep, Return, Calls, InUser, Loops
    <2>2. Calm /\ "wake" \in {"wake", "destroy"}
      BY <2>1, RunningCalm, ZenonT(60)
    <2> QED
      BY <1>1, <1>4, <2>1, <2>2, QuietCalls, InvQuiet, ZenonT(60)
  <1>5. ASSUME NEW t \in Thread, event_unsignal(t) PROVE EventInv'
    BY <1>1, <1>5, InvNoSwitch, ZenonT(60) DEF event_unsignal, no_switch
  <1>6. ASSUME NEW t \in Thread, event_wake(t) PROVE EventInv'
    BY <1>1, <1>6, InvWakeStep, InvWakeFinish, InvQuietFinish, ZenonT(60) DEF event_wake
  <1> QED
    BY <1>1, <1>2, <1>3, <1>4, <1>5, <1>6, InvCallback, InvCallbackWake, InvInit,
       InvDestroy, InvDestroyReturn, InvWait, InvReturn, InvSignal, ZenonT(60) DEF Next

\* Init of module Event satisfies the invariant.
LEMMA EventInitInv ==
  ASSUME PrioritiesOrdered, CountingLaws, Init
  PROVE  EventInv
  <1>1. SchedInv(Frames)
    BY SchedInitInv, ZenonT(60) DEF Init
  <1>2. /\ magic = TRUE /\ signalled \in BOOLEAN /\ autounsignal \in BOOLEAN
        /\ callback = FALSE /\ credit = IF signalled /\ autounsignal THEN 1 ELSE 0
        /\ wait_magic = TRUE
        /\ \A t \in Thread : pc[t] \in {"user", "sleep"} /\ state[t] # "BLOCKED"
    BY ZenonT(60) DEF Init, SchedInit
  <1>3. HandedSet = {}
    BY <1>2, ZenonT(60) DEF HandedSet, Handed
  <1>4. credit \in Int /\ OneWaitPerSignal
    <2>1. Cardinality(HandedSet) = 0
      BY <1>3, EmptyCounted, ZenonT(60)
    <2>2. credit \in Int
      BY <1>2
    <2>3. autounsignal => credit = 0 + (IF signalled THEN 1 ELSE 0)
      BY <1>2
    <2> QED
      BY <2>1, <2>2, <2>3, Credit, ZenonT(60)
  <1>5. EventTypeOK
    <2>1. wait_magic \in BOOLEAN /\ magic \in BOOLEAN /\ callback \in BOOLEAN
      BY <1>2, Zenon
    <2> QED
      BY <1>1, <1>2, <1>4, <2>1, ZenonT(60) DEF EventTypeOK, TypeOK, SchedInv
  <1>6. NoSignalMissed
    BY <1>1, <1>2, NobodyWaits, ZenonT(60) DEF NoSignalMissed
  <1>7. WaitQueueValid /\ SignalOK
    BY <1>2, ZenonT(60) DEF WaitQueueValid, SignalOK
  <1>8. \A t \in Thread : WaiterOK(t)
    BY <1>2, ZenonT(60) DEF WaiterOK, Loops
  <1> QED
    BY <1>1, <1>4, <1>5, <1>6, <1>7, <1>8, ZenonT(60) DEF EventInv, WaitObjectInv

-----------------------------------------------------------------------------
(* The critical sections of a call                                         *)

\* A call opens its section around the calls of the event, and a read blocks
\* with it open.
LEMMA CbufSched ==
  ASSUME SchedInv(Frames), "INFINITE" \in Timeouts, [CbufNext]_allVars
  PROVE  SchedInv(Frames)'
  <1>1. ASSUME Next \/ UNCHANGED vars PROVE SchedInv(Frames)'
    BY <1>1, SchedStep, ZenonT(60)
  <1>2. ASSUME NEW t \in Thread, enter_critical_section(t) \/ exit_critical_section(t)
        PROVE  SchedInv(Frames)'
    BY <1>2, FramesFit, EnterStep, ZenonT(60)
  <1>3. ASSUME NEW t \in Thread, no_switch(t) PROVE SchedInv(Frames)'
    BY <1>3, SchedVarsKept, ZenonT(60) DEF no_switch
  <1>4. CASE cbuf_write_char
    <2>1. CASE event_signal_callback
      BY <2>1, CallbackSched, ZenonT(60)
    <2>2. CASE /\ irq # "off" /\ irq' = "INT_RESCHEDULE"
               /\ UNCHANGED <<runVars, waitVars, timeVars, priority, preempted, depth,
                              pc, eventVars>>
      BY <2>2, RescheduleSched, ZenonT(60)
    <2> QED
      BY <1>4, <2>1, <2>2, ZenonT(60) DEF cbuf_write_char
  <1>5. ASSUME NEW t \in Thread, cbuf_write_fill(t) PROVE SchedInv(Frames)'
    <2>1. (call[t].does = "fill") \in BOOLEAN
      BY ZenonT(60)
    <2> QED
      BY <1>3, <1>5, <2>1, SignalSched, ZenonT(60) DEF cbuf_write_fill
  <1>6. ASSUME NEW t \in Thread, cbuf_read_wait(t) PROVE SchedInv(Frames)'
    BY <1>6, WaitSched, ZenonT(60) DEF cbuf_read_wait
  <1>7. ASSUME NEW t \in Thread, cbuf_read_copy(t) PROVE SchedInv(Frames)'
    BY <1>3, <1>7, ZenonT(60) DEF cbuf_read_copy, event_unsignal
  <1>8. ASSUME NEW t \in Thread, cbuf_exit(t) PROVE SchedInv(Frames)'
    BY <1>2, <1>8, ZenonT(60) DEF cbuf_exit
  <1>9. ASSUME NEW t \in Thread, event_wait_return(t) \/ event_wake(t)
        PROVE  SchedInv(Frames)'
    BY <1>1, <1>9, ZenonT(60) DEF Next
  <1>10. ASSUME NEW t \in Thread, CbufStep(t) PROVE SchedInv(Frames)'
    BY <1>5, <1>6, <1>7, <1>8, <1>9, <1>10, ZenonT(60) DEF CbufStep
  <1>11. ASSUME NEW t \in Thread, (thread_sleep(t) \/ Return(t)) /\ UNCHANGED eventVars
         PROVE  SchedInv(Frames)'
    BY <1>1, <1>11, ZenonT(60) DEF Next
  <1>12. ASSUME NEW t \in Thread, NEW does, NEW len, begin(t, does, len)
         PROVE  SchedInv(Frames)'
    BY <1>2, <1>12, ZenonT(60) DEF begin
  <1>13. ASSUME (~callback /\ Irq /\ UNCHANGED eventVars) \/ callback_wake
         PROVE  SchedInv(Frames)'
    BY <1>1, <1>13, ZenonT(60) DEF Next
  <1>14. CASE UNCHANGED allVars
    BY <1>1, <1>14, ZenonT(60) DEF allVars
  <1>15. ASSUME UNCHANGED <<eventVars, cbufVars>> PROVE UNCHANGED eventVars
    BY <1>15, ZenonT(60)
  <1> QED
    BY <1>4, <1>10, <1>11, <1>12, <1>13, <1>14, <1>15, ZenonT(60)
       DEF CbufNext, cbuf_write, cbuf_read

-----------------------------------------------------------------------------
(* The theorems                                                            *)

LOCAL FST == INSTANCE FiniteSetTheorems

\* The library counts as the modules of the objects do.
LEMMA SameCounting ==
  ASSUME NEW S
  PROVE  /\ FST!IsFiniteSet(S) <=> IsFiniteSet(S)
         /\ FST!Cardinality(S) = Cardinality(S)
  BY ZenonT(60) DEF IsFiniteSet, Cardinality, FST!IsFiniteSet, FST!Cardinality

\* The facts about finite sets that the lemmas assume.
LEMMA CountingHolds == CountingLaws
  <1>1. \A S : \A T \in SUBSET S : IsFiniteSet(S) => IsFiniteSet(T)
    BY SameCounting, FST!FS_Subset, ZenonT(60)
  <1>2. \A S : IsFiniteSet(S) => Cardinality(S) \in Nat
    BY SameCounting, FST!FS_CardinalityType, ZenonT(60)
  <1>3. /\ IsFiniteSet({}) /\ Cardinality({}) = 0
        /\ \A S : IsFiniteSet(S) => (Cardinality(S) = 0 <=> S = {})
    BY SameCounting, FST!FS_EmptySet, ZenonT(60)
  <1>4. \A S, x : IsFiniteSet(S) =>
          Cardinality(S \cup {x}) = IF x \in S THEN Cardinality(S) ELSE Cardinality(S) + 1
    BY SameCounting, FST!FS_AddElement, ZenonT(60)
  <1>5. \A S, x : IsFiniteSet(S) =>
          Cardinality(S \ {x}) = IF x \in S THEN Cardinality(S) - 1 ELSE Cardinality(S)
    BY SameCounting, FST!FS_RemoveElement, ZenonT(60)
  <1>6. \A x : Cardinality({x}) = 1
    BY SameCounting, FST!FS_Singleton, ZenonT(60)
  <1> QED
    BY <1>1, <1>2, <1>3, <1>4, <1>5, <1>6, ZenonT(60) DEF CountingLaws

LOCAL WF == INSTANCE WellFoundedInduction

\* A set of natural numbers has a least one, and so a set of priorities a
\* highest one.
LEMMA OrderHolds == PrioritiesOrdered
  <1>1. ASSUME NEW T \in SUBSET Nat, T # {}
        PROVE  \E x \in T : \A y \in T : x <= y
    <2> DEFINE R == WF!OpToRel(<, Nat)
    <2>1. WF!IsWellFoundedOn(R, Nat)
      BY WF!NatLessThanWellFounded, ZenonT(60)
    <2> HIDE DEF R
    <2>2. PICK x \in T : \A y \in T : ~(<<y, x>> \in R)
      BY <1>1, <2>1, WF!WFMin, ZenonT(60)
    <2>3. \A y \in T : ~(y < x)
      BY <2>2, ZenonT(60) DEF R, WF!OpToRel
    <2> QED
      BY <2>2, <2>3
  <1> QED
    BY <1>1, Greatest, ZenonT(60)

\* Nobody sleeps through event_signal(), whether it comes from a thread, with
\* or without a reschedule, or from a timer callback.
THEOREM EventWakesItsWaiters == Spec => [](EventTypeOK /\ NoSignalMissed)
  <1>1. Init => EventInv
    BY CountingHolds, OrderHolds, EventInitInv
  <1>2. EventInv /\ [Next]_vars => EventInv'
    BY CountingHolds, EventStep
  <1>3. EventInv => EventTypeOK /\ NoSignalMissed
    BY DEF EventInv
  <1> QED
    BY <1>1, <1>2, <1>3, PTL DEF Spec

\* Each signal of an auto-unsignal event that takes effect lets exactly one
\* wait through, and the ASSERTs on the wait queue hold of an event in use.
THEOREM EventLetsOneThrough == Spec => [](OneWaitPerSignal /\ WaitQueueValid)
  <1>1. Init => EventInv
    BY CountingHolds, OrderHolds, EventInitInv
  <1>2. EventInv /\ [Next]_vars => EventInv'
    BY CountingHolds, EventStep
  <1>3. EventInv => OneWaitPerSignal /\ WaitQueueValid
    BY DEF EventInv
  <1> QED
    BY <1>1, <1>2, <1>3, PTL DEF Spec

\* The event and the scheduler under it keep their types through every signal
\* and wait, from threads and from callbacks.
THEOREM EventTypes == Spec => []EventTypeOK
  BY EventWakesItsWaiters, PTL

\* What cbuf_read() returns is what cbuf_write() and cbuf_write_char() accepted,
\* in that order and nothing lost, for any lengths and any size of the buffer,
\* as long as no write with the tail at the start of the array reaches its end.
THEOREM CbufKeepsOrder == CbufSpec /\ []RoomAtTheEnd => []BytesInOrder
  <1>1. CbufInit => CbufInv
    BY CbufInitInv
  <1>2. CbufInv /\ RoomAtTheEnd /\ [CbufNext]_allVars => CbufInv'
    BY CbufNextInv
  <1>3. CbufInv => BytesInOrder
    BY DEF CbufInv, DataInv
  <1> QED
    BY <1>1, <1>2, <1>3, PTL DEF CbufSpec

\* Under the same condition the event of the buffer is signalled exactly when
\* there is something to read, whoever wrote or read last.
THEOREM CbufSignalsReaders == CbufSpec /\ []RoomAtTheEnd => []SignalledIfReadable
  <1>1. CbufInit => CbufInv
    BY CbufInitInv
  <1>2. CbufInv /\ RoomAtTheEnd /\ [CbufNext]_allVars => CbufInv'
    BY CbufNextInv
  <1>3. CbufInv => SignalledIfReadable
    BY DEF CbufInv, SignalledIfReadable
  <1> QED
    BY <1>1, <1>2, <1>3, PTL DEF CbufSpec

\* With writes of single characters, as the serial drivers make them, nothing
\* has to be assumed.
THEOREM CbufOfCharacters ==
  ASSUME WriteLen \subseteq {1}
  PROVE  CbufSpec => [](BytesInOrder /\ SignalledIfReadable)
  <1>1. CbufInit => CbufInv
    BY CbufInitInv
  <1>2. CbufInv /\ [CbufNext]_allVars => CbufInv'
    BY RoomForOne, CbufNextInv
  <1>3. CbufInv => BytesInOrder /\ SignalledIfReadable
    BY DEF CbufInv, DataInv, SignalledIfReadable
  <1> QED
    BY <1>1, <1>2, <1>3, PTL DEF CbufSpec

\* The counter of critical sections stays what the calls in progress and their
\* waits have opened: nobody leaves cbuf_read() or cbuf_write() with interrupts
\* disabled, or re-enables them inside.
THEOREM CbufSections ==
  ASSUME "INFINITE" \in Timeouts
  PROVE  CbufSpec => []CriticalSectionsBalanced
  <1>1. CbufInit => SchedInv(Frames)
    BY OrderHolds, SchedInitInv, ZenonT(60) DEF CbufInit, Init
  <1>2. SchedInv(Frames) /\ [CbufNext]_allVars => SchedInv(Frames)'
    BY CbufSched
  <1>3. SchedInv(Frames) => CriticalSectionsBalanced
    BY ZenonT(60) DEF SchedInv, CriticalSectionsBalanced
  <1> QED
    BY <1>1, <1>2, <1>3, PTL DEF CbufSpec
=============================================================================
