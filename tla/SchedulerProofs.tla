--------------------------- MODULE SchedulerProofs ---------------------------
(* Facts about the operators of module Scheduler, and the proof that each  *)
(* of its steps keeps the invariant of the scheduler, whatever calls       *)
(* (frames) the module that extends it adds.                               *)
EXTENDS Scheduler, TLAPS


\* The default time limits are too tight for the size of the obligations.
USE SMTT(60), ZenonT(60)

RunQueueType == [list : [Priority -> Seq(Thread)], bitmap : SUBSET Priority]
StateType == [Thread -> ThreadState]

-----------------------------------------------------------------------------
(* Sequences                                                               *)

\* A list without repetitions stays one when a new element goes in front.
LEMMA HeadInsertSeq ==
  ASSUME NEW S, NEW s \in Seq(S), NEW t \in S, t \notin Range(s), IsInjective(s)
  PROVE  /\ list_add_head(s, t) \in Seq(S)
         /\ list_add_head(s, t) # <<>>
         /\ IsInjective(list_add_head(s, t))
         /\ Range(list_add_head(s, t)) = Range(s) \union {t}
         /\ Len(list_add_head(s, t)) = Len(s) + 1
  <1> DEFINE n == list_add_head(s, t)
  <1>1. /\ n \in Seq(S) /\ Len(n) = Len(s) + 1 /\ Len(s) \in Nat
        /\ n[1] = t
        /\ \A i \in 1 .. Len(s) : n[i + 1] = s[i]
        /\ DOMAIN n = 1 .. Len(n) /\ DOMAIN s = 1 .. Len(s)
    BY DEF list_add_head
  <1> HIDE DEF n
  <1>2. n # <<>>
    BY <1>1
  <1>3. \A i \in 2 .. Len(n) : i - 1 \in 1 .. Len(s) /\ n[i] = s[i - 1]
    <2> TAKE i \in 2 .. Len(n)
    <2>1. i - 1 \in 1 .. Len(s) /\ (i - 1) + 1 = i
      BY <1>1
    <2> QED
      BY <2>1, <1>1, ZenonT(60)
  <1>4. \A i \in 1 .. Len(s) : s[i] \in Range(s) /\ s[i] # t
    BY <1>1, ZenonT(60) DEF Range
  <1>5. \A i \in 2 .. Len(n) : n[i] # t
    BY <1>3, <1>4, ZenonT(60)
  <1>6. IsInjective(n)
    <2> SUFFICES ASSUME NEW i \in 1 .. Len(n), NEW j \in 1 .. Len(n), n[i] = n[j]
                 PROVE  i = j
      BY <1>1, ZenonT(60) DEF IsInjective
    <2>1. CASE i = 1
      BY <2>1, <1>1, <1>5
    <2>2. CASE j = 1
      BY <2>2, <1>1, <1>5
    <2>3. CASE i # 1 /\ j # 1
      <3>1. i \in 2 .. Len(n) /\ j \in 2 .. Len(n)
        BY <2>3, <1>1
      <3>2. i - 1 \in DOMAIN s /\ j - 1 \in DOMAIN s /\ s[i - 1] = s[j - 1]
        BY <3>1, <1>1, <1>3, ZenonT(60)
      <3>3. i - 1 = j - 1
        BY <3>2, ZenonT(60) DEF IsInjective
      <3> QED
        BY <3>1, <3>3
    <2> QED
      BY <2>1, <2>2, <2>3, ZenonT(60)
  <1>7. ASSUME NEW x \in Range(n) PROVE x \in Range(s) \union {t}
    <2>1. PICK i \in 1 .. Len(n) : n[i] = x
      BY <1>1, ZenonT(60) DEF Range
    <2>2. i = 1 \/ i \in 2 .. Len(n)
      BY <1>1
    <2> QED
      BY <2>1, <2>2, <1>1, <1>3, <1>4, ZenonT(60)
  <1>8. ASSUME NEW x \in Range(s) \union {t} PROVE x \in Range(n)
    <2>1. CASE x = t
      BY <2>1, <1>1 DEF Range
    <2>2. CASE x \in Range(s)
      <3>1. PICK i \in 1 .. Len(s) : s[i] = x
        BY <2>2, <1>1, ZenonT(60) DEF Range
      <3>2. i + 1 \in DOMAIN n /\ n[i + 1] = x
        BY <3>1, <1>1
      <3> QED
        BY <3>2, ZenonT(60) DEF Range
    <2> QED
      BY <2>1, <2>2, ZenonT(60)
  <1> QED
    BY <1>1, <1>2, <1>6, <1>7, <1>8, ZenonT(60) DEF n

\* A list without repetitions stays one when a new element goes at the end.
LEMMA TailInsertSeq ==
  ASSUME NEW S, NEW s \in Seq(S), NEW t \in S, t \notin Range(s), IsInjective(s)
  PROVE  /\ list_add_tail(s, t) \in Seq(S)
         /\ list_add_tail(s, t) # <<>>
         /\ IsInjective(list_add_tail(s, t))
         /\ Range(list_add_tail(s, t)) = Range(s) \union {t}
         /\ Len(list_add_tail(s, t)) = Len(s) + 1
  <1> DEFINE n == list_add_tail(s, t)
             m == Len(s) + 1
  <1>1. /\ n \in Seq(S) /\ Len(n) = m /\ Len(s) \in Nat
        /\ n[m] = t
        /\ \A i \in 1 .. Len(s) : n[i] = s[i]
        /\ DOMAIN n = 1 .. m /\ DOMAIN s = 1 .. Len(s)
    BY DEF list_add_tail
  <1> HIDE DEF n
  <1>2. n # <<>>
    BY <1>1
  <1>3. \A i \in 1 .. m : i = m \/ i \in 1 .. Len(s)
    BY <1>1
  <1>4. \A i \in 1 .. Len(s) : s[i] \in Range(s) /\ s[i] # t /\ i \in 1 .. m
    BY <1>1 DEF Range
  <1>5. m \in 1 .. m
    BY <1>1
  <1> HIDE DEF m
  <1>6. IsInjective(n)
    BY <1>1, <1>3, <1>4, ZenonT(60) DEF IsInjective
  <1>7. Range(n) \subseteq Range(s) \union {t}
    BY <1>1, <1>3, <1>4, ZenonT(60) DEF Range
  <1>8. Range(s) \union {t} \subseteq Range(n)
    BY <1>1, <1>3, <1>4, <1>5, ZenonT(60) DEF Range
  <1> QED
    BY <1>1, <1>2, <1>6, <1>7, <1>8, ZenonT(60) DEF n, m

\* Nothing is on a list of length zero.
LEMMA EmptyList ==
  ASSUME NEW S, NEW s \in Seq(S), Len(s) = 0
  PROVE  Range(s) = {}
  BY DEF Range

\* The head of a list without repetitions is not on the rest of it.
LEMMA TailSeq ==
  ASSUME NEW S, NEW s \in Seq(S), s # <<>>, IsInjective(s)
  PROVE  /\ Head(s) \in Range(s) /\ Head(s) \in S
         /\ Tail(s) \in Seq(S)
         /\ IsInjective(Tail(s))
         /\ Range(Tail(s)) = Range(s) \ {Head(s)}
  <1> DEFINE n == Tail(s)
             m == Len(s) - 1
  <1>1. /\ n \in Seq(S) /\ Len(n) = m /\ m \in Nat /\ Len(s) \in Nat
        /\ Head(s) = s[1] /\ s[1] \in S
        /\ \A i \in 1 .. m : n[i] = s[i + 1]
        /\ DOMAIN n = 1 .. m /\ DOMAIN s = 1 .. Len(s)
    <2>1. Len(s) \in Nat /\ Len(s) # 0
      OBVIOUS
    <2>2. /\ n \in Seq(S) /\ Len(n) = m /\ m \in Nat
          /\ Head(s) = s[1] /\ s[1] \in S
      BY <2>1
    <2>3. \A i \in 1 .. m : n[i] = s[i + 1]
      BY <2>1
    <2>4. DOMAIN n = 1 .. m /\ DOMAIN s = 1 .. Len(s)
      BY <2>2
    <2> QED
      BY <2>1, <2>2, <2>3, <2>4, ZenonT(60)
  <1>2. /\ \A i \in 1 .. m : i + 1 \in 1 .. Len(s) /\ i + 1 # 1
        /\ \A j \in 1 .. Len(s) : j = 1 \/ (j - 1 \in 1 .. m /\ (j - 1) + 1 = j)
        /\ 1 \in 1 .. Len(s)
    BY <1>1
  <1> HIDE DEF n, m
  <1>3. Head(s) \in Range(s)
    BY <1>1, <1>2, ZenonT(60) DEF Range
  <1>4. IsInjective(n)
    <2> SUFFICES ASSUME NEW i \in 1 .. m, NEW j \in 1 .. m, n[i] = n[j]
                 PROVE  i = j
      BY <1>1, ZenonT(60) DEF IsInjective
    <2>1. i + 1 \in DOMAIN s /\ j + 1 \in DOMAIN s /\ s[i + 1] = s[j + 1]
      BY <1>1, <1>2, ZenonT(60)
    <2>2. i + 1 = j + 1
      BY <2>1, ZenonT(60) DEF IsInjective
    <2> QED
      BY <2>2
  <1>5. ASSUME NEW x \in Range(n) PROVE x \in Range(s) \ {Head(s)}
    <2>1. PICK i \in 1 .. m : n[i] = x
      BY <1>1, ZenonT(60) DEF Range
    <2>2. i + 1 \in DOMAIN s /\ s[i + 1] = x /\ 1 \in DOMAIN s /\ i + 1 # 1
      BY <2>1, <1>1, <1>2, ZenonT(60)
    <2> QED
      BY <2>2, <1>1, ZenonT(60) DEF Range, IsInjective
  <1>6. ASSUME NEW x \in Range(s) \ {Head(s)} PROVE x \in Range(n)
    <2>1. PICK j \in 1 .. Len(s) : s[j] = x
      BY <1>1, ZenonT(60) DEF Range
    <2>2. j - 1 \in DOMAIN n /\ n[j - 1] = x
      BY <2>1, <1>1, <1>2, ZenonT(60)
    <2> QED
      BY <2>2, ZenonT(60) DEF Range
  <1> QED
    BY <1>1, <1>3, <1>4, <1>5, <1>6, ZenonT(60) DEF n

\* Deleting an element of a list without repetitions removes just it.
LEMMA DeleteSeq ==
  ASSUME NEW S, NEW s \in Seq(S), NEW t \in Range(s), IsInjective(s)
  PROVE  /\ list_delete(s, t) \in Seq(S)
         /\ IsInjective(list_delete(s, t))
         /\ Range(list_delete(s, t)) = Range(s) \ {t}
         /\ Len(list_delete(s, t)) = Len(s) - 1
  <1> DEFINE m == Len(s) - 1
  <1>0. Len(s) \in Nat /\ DOMAIN s = 1 .. Len(s) /\ \A i \in 1 .. Len(s) : s[i] \in S
    OBVIOUS
  <1>1. PICK k \in 1 .. Len(s) : s[k] = t
    BY <1>0, ZenonT(60) DEF Range
  <1>2. (CHOOSE i \in 1 .. Len(s) : s[i] = t) = k
    BY <1>0, <1>1, ZenonT(60) DEF IsInjective
  <1> DEFINE d == [j \in 1 .. m |-> IF j < k THEN s[j] ELSE s[j + 1]]
  <1>3. list_delete(s, t) = d
    BY <1>2, ZenonT(60) DEF list_delete
  <1>4. m \in Nat /\ \A j \in 1 .. m : j \in 1 .. Len(s) /\ j + 1 \in 1 .. Len(s)
    BY <1>0, <1>1
  <1>5. d \in Seq(S) /\ Len(d) = m /\ DOMAIN d = 1 .. m
    BY <1>0, <1>4
  <1> DEFINE old(j) == IF j < k THEN j ELSE j + 1
  <1>6. \A j \in 1 .. m : old(j) \in DOMAIN s /\ old(j) # k /\ d[j] = s[old(j)]
    BY <1>0, <1>1, <1>4
  <1>7. \A i, j \in 1 .. m : old(i) = old(j) => i = j
    BY <1>1
  <1>8. \A i \in DOMAIN s : i # k => \E j \in 1 .. m : old(j) = i
    <2> SUFFICES ASSUME NEW i \in DOMAIN s, i # k PROVE \E j \in 1 .. m : old(j) = i
      BY ZenonT(60)
    <2>1. CASE i < k
      BY <2>1, <1>0, <1>1
    <2>2. CASE i > k
      <3>1. i - 1 \in 1 .. m /\ old(i - 1) = i
        BY <2>2, <1>0, <1>1
      <3> QED
        BY <3>1, ZenonT(60)
    <2> QED
      BY <2>1, <2>2, <1>0, <1>1
  <1> HIDE DEF d, old, m
  <1>9. IsInjective(d)
    BY <1>5, <1>6, <1>7 DEF IsInjective
  <1>10. Range(d) \subseteq Range(s) \ {t}
    <2> SUFFICES ASSUME NEW j \in 1 .. m PROVE d[j] \in Range(s) \ {t}
      BY <1>5, ZenonT(60) DEF Range
    <2>1. old(j) \in DOMAIN s /\ k \in DOMAIN s /\ old(j) # k /\ d[j] = s[old(j)]
      BY <1>0, <1>1, <1>6, ZenonT(60)
    <2>2. s[old(j)] # s[k]
      BY <2>1, ZenonT(60) DEF IsInjective
    <2> QED
      BY <2>1, <2>2, <1>1, ZenonT(60) DEF Range
  <1>11. Range(s) \ {t} \subseteq Range(d)
    <2> SUFFICES ASSUME NEW i \in DOMAIN s, s[i] # t PROVE s[i] \in Range(d)
      BY ZenonT(60) DEF Range
    <2>1. PICK j \in 1 .. m : old(j) = i
      BY <1>1, <1>8, ZenonT(60)
    <2>2. j \in DOMAIN d /\ d[j] = s[i]
      BY <2>1, <1>5, <1>6, ZenonT(60)
    <2> QED
      BY <2>2, ZenonT(60) DEF Range
  <1> QED
    BY <1>3, <1>5, <1>9, <1>10, <1>11, ZenonT(60) DEF m

-----------------------------------------------------------------------------
(* Run queues                                                              *)

\* A run queue with the thread t added to the list of its priority.
LEMMA Insert ==
  ASSUME NEW st \in StateType, NEW pr \in [Thread -> Priority],
         NEW rq \in RunQueueType, RunQueueOK(st, pr, rq),
         NEW t \in Thread, st[t] # "READY",
         NEW new \in Seq(Thread), new # <<>>, IsInjective(new),
         Range(new) = Range(rq.list[pr[t]]) \union {t},
         NEW nq, nq = [list   |-> [rq.list EXCEPT ![pr[t]] = new],
                       bitmap |-> rq.bitmap \union {pr[t]}]
  PROVE  /\ nq \in RunQueueType
         /\ RunQueueOK([st EXCEPT ![t] = "READY"], pr, nq)
  <1> DEFINE nst == [st EXCEPT ![t] = "READY"]
  <1>1. /\ nq \in RunQueueType
        /\ nq.bitmap = rq.bitmap \union {pr[t]}
        /\ nq.list[pr[t]] = new
        /\ \A p \in Priority : p # pr[t] => nq.list[p] = rq.list[p]
    BY ZenonT(60) DEF RunQueueType
  <1>2. \A u \in Thread : nst[u] = IF u = t THEN "READY" ELSE st[u]
    BY ZenonT(60) DEF StateType
  <1> HIDE DEF nst
  <1> SUFFICES ASSUME NEW p \in Priority
               PROVE  /\ IsInjective(nq.list[p])
                      /\ Range(nq.list[p]) =
                           {u \in Thread : nst[u] = "READY" /\ pr[u] = p}
                      /\ p \in nq.bitmap <=> nq.list[p] # <<>>
    BY <1>1, ZenonT(60) DEF RunQueueOK, nst
  <1>3. /\ IsInjective(rq.list[p])
        /\ Range(rq.list[p]) = {u \in Thread : st[u] = "READY" /\ pr[u] = p}
        /\ p \in rq.bitmap <=> rq.list[p] # <<>>
    BY ZenonT(60) DEF RunQueueOK
  <1>4. CASE p = pr[t]
    BY <1>1, <1>2, <1>3, <1>4
  <1>5. CASE p # pr[t]
    BY <1>1, <1>2, <1>3, <1>5
  <1> QED
    BY <1>4, <1>5, ZenonT(60)

\* insert_in_run_queue_head() makes a thread ready.
LEMMA InsertHead ==
  ASSUME NEW st \in StateType, priority \in [Thread -> Priority],
         NEW rq \in RunQueueType, RunQueueOK(st, priority, rq),
         NEW t \in Thread, st[t] # "READY"
  PROVE  /\ insert_in_run_queue_head(rq, t) \in RunQueueType
         /\ RunQueueOK([st EXCEPT ![t] = "READY"], priority,
                       insert_in_run_queue_head(rq, t))
  <1> DEFINE s == rq.list[priority[t]]
  <1>1. /\ s \in Seq(Thread) /\ IsInjective(s) /\ t \notin Range(s)
        /\ priority[t] \in Priority
    BY DEF RunQueueOK, RunQueueType
  <1>2. /\ list_add_head(s, t) \in Seq(Thread) /\ list_add_head(s, t) # <<>>
        /\ IsInjective(list_add_head(s, t))
        /\ Range(list_add_head(s, t)) = Range(s) \union {t}
    BY <1>1, HeadInsertSeq
  <1>3. insert_in_run_queue_head(rq, t) =
          [list   |-> [rq.list EXCEPT ![priority[t]] = list_add_head(s, t)],
           bitmap |-> rq.bitmap \union {priority[t]}]
    BY <1>1, ZenonT(60) DEF insert_in_run_queue_head, RunQueueType
  <1> QED
    BY <1>1, <1>2, <1>3, Insert, ZenonT(60)

\* insert_in_run_queue_tail() makes a thread ready.
LEMMA InsertTail ==
  ASSUME NEW st \in StateType, priority \in [Thread -> Priority],
         NEW rq \in RunQueueType, RunQueueOK(st, priority, rq),
         NEW t \in Thread, st[t] # "READY"
  PROVE  /\ insert_in_run_queue_tail(rq, t) \in RunQueueType
         /\ RunQueueOK([st EXCEPT ![t] = "READY"], priority,
                       insert_in_run_queue_tail(rq, t))
  <1> DEFINE s == rq.list[priority[t]]
  <1>1. /\ s \in Seq(Thread) /\ IsInjective(s) /\ t \notin Range(s)
        /\ priority[t] \in Priority
    BY DEF RunQueueOK, RunQueueType
  <1>2. /\ list_add_tail(s, t) \in Seq(Thread) /\ list_add_tail(s, t) # <<>>
        /\ IsInjective(list_add_tail(s, t))
        /\ Range(list_add_tail(s, t)) = Range(s) \union {t}
    BY <1>1, TailInsertSeq
  <1>3. insert_in_run_queue_tail(rq, t) =
          [list   |-> [rq.list EXCEPT ![priority[t]] = list_add_tail(s, t)],
           bitmap |-> rq.bitmap \union {priority[t]}]
    BY <1>1, ZenonT(60) DEF insert_in_run_queue_tail, RunQueueType
  <1> QED
    BY <1>1, <1>2, <1>3, Insert, ZenonT(60)

\* A thread that is not ready, and does not become so, may change its state and
\* its priority.
LEMMA RunQueueFrame ==
  ASSUME NEW st \in StateType, NEW nst \in StateType,
         NEW pr \in [Thread -> Priority], NEW npr \in [Thread -> Priority],
         NEW rq \in RunQueueType, RunQueueOK(st, pr, rq),
         \A u \in Thread : \/ nst[u] = st[u] /\ npr[u] = pr[u]
                           \/ nst[u] # "READY" /\ st[u] # "READY"
  PROVE  RunQueueOK(nst, npr, rq)
  BY ZenonT(60) DEF RunQueueOK

\* The bitmap shows a thread that is ready.
LEMMA ReadyBit ==
  ASSUME NEW st \in StateType, NEW pr \in [Thread -> Priority],
         NEW rq \in RunQueueType, RunQueueOK(st, pr, rq),
         NEW t \in Thread, st[t] = "READY"
  PROVE  pr[t] \in rq.bitmap
  <1>1. pr[t] \in Priority /\ t \in Range(rq.list[pr[t]])
    BY ZenonT(60) DEF RunQueueOK
  <1>2. rq.list[pr[t]] # <<>>
    BY <1>1 DEF Range
  <1> QED
    BY <1>1, <1>2, ZenonT(60) DEF RunQueueOK

\* Priorities are natural numbers and bounded, so that a set of them has a
\* highest one if every set of natural numbers has a least one.
LEMMA Greatest ==
  ASSUME \A T \in SUBSET Nat : T # {} => \E x \in T : \A y \in T : x <= y
  PROVE  PrioritiesOrdered
  <1>1. SUFFICES ASSUME NEW B \in SUBSET Priority, B # {}
                 PROVE  \E p \in B : \A x \in B : x <= p
    BY ZenonT(60) DEF PrioritiesOrdered
  <1>2. PICK N \in Nat : B \in SUBSET (0 .. N)
    BY SchedulerAssumption, ZenonT(60) DEF Priority, LOWEST_PRIORITY
  <1> DEFINE T == {n \in 0 .. N : N - n \in B}
  <1>3. \A p \in B : N - p \in T
    BY <1>2
  <1>4. T \in SUBSET Nat /\ T # {}
    <2>1. T \subseteq Nat
      OBVIOUS
    <2>2. PICK p : p \in B
      BY <1>1, ZenonT(60)
    <2> QED
      BY <1>3, <2>1, <2>2, ZenonT(60)
  <1>5. PICK x \in T : \A y \in T : x <= y
    BY <1>4, ZenonT(60)
  <1>6. N - x \in B /\ x \in 0 .. N
    BY <1>5
  <1>7. ASSUME NEW p \in B PROVE p <= N - x
    <2>1. x <= N - p
      BY <1>3, <1>5, ZenonT(60)
    <2>2. p \in 0 .. N
      BY <1>2, ZenonT(60)
    <2> QED
      BY <1>6, <2>1, <2>2
  <1> QED
    BY <1>6, <1>7, ZenonT(60)

\* thread_resched() finds the highest priority whose bit is set.
LEMMA HighestBit ==
  ASSUME PrioritiesOrdered, NEW bitmap \in SUBSET Priority, bitmap # {}
  PROVE  /\ highest_bit(bitmap) \in bitmap
         /\ \A p \in bitmap : p <= highest_bit(bitmap)
  <1>1. \E p \in bitmap : \A x \in bitmap : x <= p
    BY ZenonT(60) DEF PrioritiesOrdered
  <1> QED
    BY <1>1, ZenonT(60) DEF highest_bit

\* thread_resched(), called with the current thread already queued or given up:
\* a ready thread of the highest priority is taken off its queue and runs.
LEMMA Resched ==
  ASSUME PrioritiesOrdered, current_thread \in Thread, priority \in [Thread -> Priority],
         saved_critical_section_count \in [Thread -> Int],
         NEW st \in StateType, NEW pr \in [Thread -> Priority],
         NEW quantum \in [Thread -> 0 .. QUANTUM],
         NEW rq \in RunQueueType, RunQueueOK(st, pr, rq),
         NEW t \in Thread, st[t] = "READY",
         NEW count \in Int,
         thread_resched(st, quantum, rq, count)
  PROVE  /\ current_thread' \in Thread
         /\ st[current_thread'] = "READY"
         /\ \A u \in Thread : st[u] = "READY" => pr[u] <= pr[current_thread']
         /\ state' = [st EXCEPT ![current_thread'] = "RUNNING"]
         /\ state' \in StateType
         /\ RunQueue' \in RunQueueType
         /\ RunQueueOK(state', pr, RunQueue')
         /\ remaining_quantum' \in [Thread -> 0 .. QUANTUM]
         /\ critical_section_count' \in Int
         /\ saved_critical_section_count' \in [Thread -> Int]
         /\ current_thread' = current_thread =>
              /\ critical_section_count' = count
              /\ saved_critical_section_count' = saved_critical_section_count
         /\ current_thread' # current_thread =>
              /\ critical_section_count' = saved_critical_section_count[current_thread']
              /\ saved_critical_section_count' =
                   [saved_critical_section_count EXCEPT ![current_thread] = count]
  <1> DEFINE h == highest_bit(rq.bitmap)
             s == rq.list[h]
             new == Head(s)
  <1>1. rq.bitmap \in SUBSET Priority /\ pr[t] \in rq.bitmap
    BY ReadyBit, ZenonT(60) DEF RunQueueType
  <1>2. /\ h \in rq.bitmap /\ h \in Priority
        /\ \A p \in rq.bitmap : p <= h
    BY <1>1, HighestBit, ZenonT(60)
  <1>3. s \in Seq(Thread) /\ s # <<>> /\ IsInjective(s)
        /\ Range(s) = {u \in Thread : st[u] = "READY" /\ pr[u] = h}
    BY <1>2, ZenonT(60) DEF RunQueueOK, RunQueueType
  <1> HIDE DEF h, s
  <1>4. /\ new \in Range(s) /\ new \in Thread
        /\ Tail(s) \in Seq(Thread) /\ IsInjective(Tail(s))
        /\ Range(Tail(s)) = Range(s) \ {new}
    BY <1>3, TailSeq, ZenonT(60)
  <1>5. st[new] = "READY" /\ pr[new] = h
    BY <1>3, <1>4, ZenonT(60)
  <1> HIDE DEF new
  <1>6. /\ current_thread' = new
        /\ state' = [st EXCEPT ![new] = "RUNNING"]
        /\ run_queue' = [rq.list EXCEPT ![h] = Tail(s)]
        /\ run_queue_bitmap' = clear_bit(rq.bitmap, h, Tail(s))
        /\ remaining_quantum' =
             IF new # current_thread /\ quantum[new] = 0
             THEN [quantum EXCEPT ![new] = QUANTUM] ELSE quantum
        /\ saved_critical_section_count' =
             IF new = current_thread THEN saved_critical_section_count
             ELSE [saved_critical_section_count EXCEPT ![current_thread] = count]
        /\ critical_section_count' =
             IF new = current_thread THEN count
             ELSE saved_critical_section_count[new]
    BY ZenonT(60) DEF thread_resched, fresh_quantum, h, s, new
  <1>7. state' \in StateType /\ \A u \in Thread :
          state'[u] = IF u = new THEN "RUNNING" ELSE st[u]
    BY <1>4, <1>6, ZenonT(60) DEF StateType, ThreadState
  <1>8. remaining_quantum' \in [Thread -> 0 .. QUANTUM]
    BY <1>4, <1>6, SchedulerAssumption
  <1>9. /\ critical_section_count' \in Int
        /\ saved_critical_section_count' \in [Thread -> Int]
    BY <1>4, <1>6, ZenonT(60)
  <1>10. /\ RunQueue' \in RunQueueType
         /\ RunQueue'.list[h] = Tail(s)
         /\ \A p \in Priority : p # h => RunQueue'.list[p] = rq.list[p]
         /\ RunQueue'.bitmap = clear_bit(rq.bitmap, h, Tail(s))
    BY <1>1, <1>2, <1>4, <1>6, ZenonT(60) DEF RunQueue, RunQueueType, clear_bit
  <1>11. RunQueueOK(state', pr, RunQueue')
    <2> SUFFICES ASSUME NEW p \in Priority
                 PROVE  /\ IsInjective(RunQueue'.list[p])
                        /\ Range(RunQueue'.list[p]) =
                             {u \in Thread : state'[u] = "READY" /\ pr[u] = p}
                        /\ p \in RunQueue'.bitmap <=> RunQueue'.list[p] # <<>>
      BY ZenonT(60) DEF RunQueueOK
    <2>1. /\ IsInjective(rq.list[p])
          /\ Range(rq.list[p]) = {u \in Thread : st[u] = "READY" /\ pr[u] = p}
          /\ p \in rq.bitmap <=> rq.list[p] # <<>>
      BY ZenonT(60) DEF RunQueueOK
    <2>2. CASE p = h
      <3>1. Range(Tail(s)) = {u \in Thread : state'[u] = "READY" /\ pr[u] = h}
        BY <1>3, <1>4, <1>7, ZenonT(60)
      <3>2. h \in RunQueue'.bitmap <=> Tail(s) # <<>>
        BY <1>2, <1>10, ZenonT(60) DEF clear_bit
      <3> QED
        BY <2>2, <3>1, <3>2, <1>4, <1>10, ZenonT(60)
    <2>3. CASE p # h
      BY <2>1, <2>3, <1>5, <1>7, <1>10, ZenonT(60) DEF clear_bit
    <2> QED
      BY <2>2, <2>3, ZenonT(60)
  <1>12. ASSUME NEW u \in Thread, st[u] = "READY" PROVE pr[u] <= pr[new]
    BY <1>12, <1>2, <1>5, ReadyBit, ZenonT(60)
  <1> QED
    BY <1>4, <1>5, <1>6, <1>7, <1>8, <1>9, <1>10, <1>11, <1>12, ZenonT(60)

-----------------------------------------------------------------------------
(* Wait queues                                                             *)

WaitListType == [WaitQueue -> Seq(Thread)]
WaitCountType == [WaitQueue -> Int]
BlockingType == [Thread -> WaitQueue \union {NULL}]

\* The head of a wait queue is blocked on it.
LEMMA WaitHead ==
  ASSUME NEW st \in StateType, NEW bq \in BlockingType, NEW wl \in WaitListType,
         NEW wc \in WaitCountType, WaitQueueOK(st, bq, wl, wc),
         NEW q \in WaitQueue, wl[q] # <<>>
  PROVE  /\ Head(wl[q]) \in Thread
         /\ st[Head(wl[q])] = "BLOCKED"
         /\ bq[Head(wl[q])] = q
  <1>1. wl[q] \in Seq(Thread) /\ IsInjective(wl[q])
        /\ Range(wl[q]) = {t \in Thread : st[t] = "BLOCKED" /\ bq[t] = q}
    BY ZenonT(60) DEF WaitQueueOK, WaitListType
  <1>2. Head(wl[q]) \in Range(wl[q])
    BY <1>1, TailSeq, ZenonT(60)
  <1> QED
    BY <1>1, <1>2, ZenonT(60)

\* A thread that is not blocked, and does not become so, may change.
LEMMA WaitQueueFrame ==
  ASSUME NEW st, NEW nst, NEW bq, NEW nbq, NEW wl, NEW wc,
         WaitQueueOK(st, bq, wl, wc),
         \A u \in Thread : \/ nst[u] = st[u] /\ nbq[u] = bq[u]
                           \/ nst[u] # "BLOCKED" /\ st[u] # "BLOCKED"
  PROVE  WaitQueueOK(nst, nbq, wl, wc)
  BY ZenonT(60) DEF WaitQueueOK

\* A thread joins the wait queue it blocks on.
LEMMA Enqueue ==
  ASSUME NEW st \in StateType, NEW bq \in BlockingType, NEW wl \in WaitListType,
         NEW wc \in WaitCountType, WaitQueueOK(st, bq, wl, wc),
         NEW t \in Thread, st[t] # "BLOCKED", NEW q \in WaitQueue
  PROVE  LET nwl == [wl EXCEPT ![q] = list_add_tail(@, t)]
             nwc == [wc EXCEPT ![q] = @ + 1]
             nbq == [bq EXCEPT ![t] = q]
         IN  /\ nwl \in WaitListType /\ nwc \in WaitCountType
             /\ nbq \in BlockingType
             /\ WaitQueueOK([st EXCEPT ![t] = "BLOCKED"], nbq, nwl, nwc)
  <1> DEFINE nwl == [wl EXCEPT ![q] = list_add_tail(@, t)]
             nwc == [wc EXCEPT ![q] = @ + 1]
             nbq == [bq EXCEPT ![t] = q]
             nst == [st EXCEPT ![t] = "BLOCKED"]
             s == wl[q]
             n == list_add_tail(s, t)
  <1>1. s \in Seq(Thread) /\ IsInjective(s) /\ t \notin Range(s) /\ wc[q] = Len(s)
        /\ Range(s) = {u \in Thread : st[u] = "BLOCKED" /\ bq[u] = q}
    BY ZenonT(60) DEF WaitQueueOK, WaitListType
  <1>2. /\ n \in Seq(Thread) /\ IsInjective(n)
        /\ Range(n) = Range(s) \union {t} /\ Len(n) = Len(s) + 1
    BY <1>1, TailInsertSeq, ZenonT(60)
  <1> HIDE DEF n
  <1>3. /\ nwl \in WaitListType /\ nwl[q] = n
        /\ \A x \in WaitQueue : x # q => nwl[x] = wl[x]
    BY <1>2, ZenonT(60) DEF WaitListType, n
  <1>4. /\ nwc \in WaitCountType /\ nwc[q] = Len(n)
        /\ \A x \in WaitQueue : x # q => nwc[x] = wc[x]
    BY <1>1, <1>2 DEF WaitCountType
  <1>5. /\ nbq \in BlockingType /\ nbq[t] = q /\ \A u \in Thread : u # t => nbq[u] = bq[u]
    BY ZenonT(60) DEF BlockingType
  <1>6. nst[t] = "BLOCKED" /\ \A u \in Thread : u # t => nst[u] = st[u]
    BY ZenonT(60) DEF StateType
  <1> HIDE DEF nwl, nwc, nbq, nst, s
  <1>7. ASSUME NEW x \in WaitQueue
        PROVE  /\ IsInjective(nwl[x])
               /\ Range(nwl[x]) = {u \in Thread : nst[u] = "BLOCKED" /\ nbq[u] = x}
               /\ nwc[x] = Len(nwl[x])
    <2>1. CASE x = q
      BY <2>1, <1>1, <1>2, <1>3, <1>4, <1>5, <1>6
    <2>2. CASE x # q
      <3>1. IsInjective(wl[x]) /\ wc[x] = Len(wl[x])
            /\ Range(wl[x]) = {u \in Thread : st[u] = "BLOCKED" /\ bq[u] = x}
        BY ZenonT(60) DEF WaitQueueOK
      <3> QED
        BY <3>1, <2>2, <1>3, <1>4, <1>5, <1>6, ZenonT(60)
    <2> QED
      BY <2>1, <2>2, ZenonT(60)
  <1>8. \A u \in Thread : nst[u] = "BLOCKED" => nbq[u] \in WaitQueue
    BY <1>5, <1>6, ZenonT(60) DEF WaitQueueOK
  <1>9. WaitQueueOK(nst, nbq, nwl, nwc)
    BY <1>7, <1>8, ZenonT(60) DEF WaitQueueOK
  <1> QED
    BY <1>3, <1>4, <1>5, <1>9, ZenonT(60) DEF nwl, nwc, nbq, nst

\* A blocked thread leaves the wait queue it blocks on.
LEMMA Dequeue ==
  ASSUME NEW st \in StateType, NEW bq \in BlockingType, NEW wl \in WaitListType,
         NEW wc \in WaitCountType, WaitQueueOK(st, bq, wl, wc),
         NEW t \in Thread, st[t] = "BLOCKED", NEW q \in WaitQueue, bq[t] = q,
         NEW nst \in StateType, nst[t] # "BLOCKED",
         \A u \in Thread : u # t => \/ nst[u] = st[u]
                                    \/ nst[u] # "BLOCKED" /\ st[u] # "BLOCKED"
  PROVE  LET nwl == [wl EXCEPT ![q] = list_delete(@, t)]
             nwc == [wc EXCEPT ![q] = @ - 1]
             nbq == [bq EXCEPT ![t] = NULL]
         IN  /\ nwl \in WaitListType /\ nwc \in WaitCountType
             /\ nbq \in BlockingType
             /\ WaitQueueOK(nst, nbq, nwl, nwc)
  <1> DEFINE nwl == [wl EXCEPT ![q] = list_delete(@, t)]
             nwc == [wc EXCEPT ![q] = @ - 1]
             nbq == [bq EXCEPT ![t] = NULL]
             s == wl[q]
             n == list_delete(s, t)
  <1>1. s \in Seq(Thread) /\ IsInjective(s) /\ t \in Range(s) /\ wc[q] = Len(s)
        /\ Range(s) = {u \in Thread : st[u] = "BLOCKED" /\ bq[u] = q}
    BY ZenonT(60) DEF WaitQueueOK, WaitListType
  <1>2. /\ n \in Seq(Thread) /\ IsInjective(n)
        /\ Range(n) = Range(s) \ {t} /\ Len(n) = Len(s) - 1
    BY <1>1, DeleteSeq
  <1> HIDE DEF n
  <1>3. /\ nwl \in WaitListType /\ nwl[q] = n
        /\ \A x \in WaitQueue : x # q => nwl[x] = wl[x]
    BY <1>2, ZenonT(60) DEF WaitListType, n
  <1>4. /\ nwc \in WaitCountType /\ nwc[q] = Len(n)
        /\ \A x \in WaitQueue : x # q => nwc[x] = wc[x]
    BY <1>1, <1>2 DEF WaitCountType
  <1>5. /\ nbq \in BlockingType /\ \A u \in Thread : u # t => nbq[u] = bq[u]
    BY ZenonT(60) DEF BlockingType
  <1> HIDE DEF nwl, nwc, nbq, s
  <1>7. ASSUME NEW x \in WaitQueue
        PROVE  /\ IsInjective(nwl[x])
               /\ Range(nwl[x]) = {u \in Thread : nst[u] = "BLOCKED" /\ nbq[u] = x}
               /\ nwc[x] = Len(nwl[x])
    <2>1. CASE x = q
      BY <2>1, <1>1, <1>2, <1>3, <1>4, <1>5
    <2>2. CASE x # q
      <3>1. IsInjective(wl[x]) /\ wc[x] = Len(wl[x])
            /\ Range(wl[x]) = {u \in Thread : st[u] = "BLOCKED" /\ bq[u] = x}
        BY ZenonT(60) DEF WaitQueueOK
      <3> QED
        BY <3>1, <2>2, <1>3, <1>4, <1>5
    <2> QED
      BY <2>1, <2>2, ZenonT(60)
  <1>8. \A u \in Thread : nst[u] = "BLOCKED" => nbq[u] \in WaitQueue
    BY <1>5, ZenonT(60) DEF WaitQueueOK
  <1>9. WaitQueueOK(nst, nbq, nwl, nwc)
    BY <1>7, <1>8, ZenonT(60) DEF WaitQueueOK
  <1> QED
    BY <1>3, <1>4, <1>5, <1>9, ZenonT(60) DEF nwl, nwc, nbq

\* The same with its conditions in one piece each.
WaitOK(st, bq, wl, wc) ==
  /\ st \in StateType /\ bq \in BlockingType /\ wl \in WaitListType
  /\ wc \in WaitCountType /\ WaitQueueOK(st, bq, wl, wc)

Unblocked(st, nst, t) ==
  /\ nst \in StateType /\ st[t] = "BLOCKED" /\ nst[t] # "BLOCKED"
  /\ \A u \in Thread : u # t => \/ nst[u] = st[u]
                                \/ nst[u] # "BLOCKED" /\ st[u] # "BLOCKED"

\* The same for dequeue(), in one predicate for each side.
LEMMA DequeueOK ==
  ASSUME NEW st, NEW bq, NEW wl, NEW wc, WaitOK(st, bq, wl, wc),
         NEW t \in Thread, NEW nst, Unblocked(st, nst, t), NEW q, q = bq[t]
  PROVE  WaitOK(nst, [bq EXCEPT ![t] = NULL],
                [wl EXCEPT ![q] = list_delete(@, t)], [wc EXCEPT ![q] = @ - 1])
  <1>1. /\ st \in StateType /\ bq \in BlockingType /\ wl \in WaitListType
        /\ wc \in WaitCountType /\ WaitQueueOK(st, bq, wl, wc)
    BY ZenonT(60) DEF WaitOK
  <1>2. q \in WaitQueue /\ bq[t] = q
    BY <1>1, ZenonT(60) DEF Unblocked, WaitQueueOK
  <1>3. /\ nst \in StateType /\ st[t] = "BLOCKED" /\ nst[t] # "BLOCKED"
        /\ \A u \in Thread : u # t => \/ nst[u] = st[u]
                                      \/ nst[u] # "BLOCKED" /\ st[u] # "BLOCKED"
    BY ZenonT(60) DEF Unblocked
  <1>4. /\ [wl EXCEPT ![q] = list_delete(@, t)] \in WaitListType
        /\ [wc EXCEPT ![q] = @ - 1] \in WaitCountType
        /\ [bq EXCEPT ![t] = NULL] \in BlockingType
        /\ WaitQueueOK(nst, [bq EXCEPT ![t] = NULL],
             [wl EXCEPT ![q] = list_delete(@, t)], [wc EXCEPT ![q] = @ - 1])
    BY <1>1, <1>2, <1>3, Dequeue
  <1> QED
    BY <1>3, <1>4, ZenonT(60) DEF WaitOK

-----------------------------------------------------------------------------
(* Steps                                                                   *)

\* What the labels of module Scheduler have to stand for.
FramesOK(frames) ==
  /\ frames \in [DOMAIN frames -> Nat]
  /\ {"user", "start", "yield", "sleep", "wake"} \subseteq DOMAIN frames
  /\ frames["user"] = 0
  /\ \A l \in {"start", "yield", "sleep", "wake"} : frames[l] = 1
  /\ \A l \in DOMAIN frames \intersect {"exit_wake", "wake_all"} : frames[l] = 1

\* The types of what thread_resched() does not touch.
OtherTypesOK ==
  /\ priority \in [Thread -> Priority]
  /\ wait_list \in WaitListType
  /\ wait_count \in WaitCountType
  /\ blocking_wait_queue \in BlockingType
  /\ wait_queue_block_ret \in [Thread -> Status]
  /\ block_timeout \in [Thread -> Timeout]
  /\ timer \in [Thread -> {"none", "sleep", "timeout"}]
  /\ preempted \in SUBSET Thread
  /\ depth \in [Thread -> Nat]
  /\ irq \in {"off", "INT_NO_RESCHEDULE", "INT_RESCHEDULE"}

\* What thread_resched() changes.
RunTypesOK ==
  /\ current_thread \in Thread
  /\ state \in StateType
  /\ RunQueue \in RunQueueType
  /\ remaining_quantum \in [Thread -> 0 .. QUANTUM]
  /\ critical_section_count \in Int
  /\ saved_critical_section_count \in [Thread -> Int]

\* The type invariant, split into what thread_resched() writes and the rest.
LEMMA Types == /\ SchedTypeOK <=> RunTypesOK /\ OtherTypesOK
               /\ SchedTypeOK' <=> RunTypesOK' /\ OtherTypesOK'
  BY ZenonT(60) DEF SchedTypeOK, RunTypesOK, OtherTypesOK, RunQueue, RunQueueType,
         StateType, WaitListType, WaitCountType, BlockingType

\* The processor only goes to a thread of the highest priority that is ready.
HandsOver ==
  current_thread' # current_thread =>
    \A t \in Thread : state'[t] = "READY" =>
      priority'[t] <= priority'[current_thread']

\* The step leaves each thread in its state in st, but for whose turn it is.
Alive == {"READY", "RUNNING", "SLEEPING"}

After(st) == \A u \in Thread :
  state'[u] = st[u] \/ (st[u] \in Alive /\ state'[u] \in Alive)

\* A thread's critical section count, with what determines it given.
OwedWith(frames, d, l, p) == d + frames[l] + (IF p THEN 2 ELSE 0)

\* The sums of a depth d and a frame f the steps below need.
LEMMA CountSums ==
  ASSUME NEW d \in Nat, NEW f \in Nat
  PROVE  /\ (d + f + 0 + 1) + 1 \in Int /\ (d + f + 0 + 1) + 1 = d + f + 2
         /\ (d + f + 0 + 1) - 1 \in Int /\ (d + f + 0 + 1) - 1 = (d + f + 0) + 0
         /\ (d + 0 + 0) + 1 = (d + 1 + 0) + 0
         /\ d + 1 + 0 + 0 = d + 1 + 0
  OBVIOUS

\* A step that ends in thread_resched() keeps the invariant, if the caller has
\* queued the current thread or given it up, and saves the count it owes.
LEMMA Switch ==
  ASSUME NEW frames, FramesOK(frames), SchedInv(frames),
         NEW st \in StateType, NEW quantum \in [Thread -> 0 .. QUANTUM],
         NEW rq \in RunQueueType, NEW count \in Int,
         thread_resched(st, quantum, rq, count),
         OtherTypesOK', pc' \in [Thread -> DOMAIN frames], irq' = "off",
         RunQueueOK(st, priority', rq),
         WaitQueueOK(st, blocking_wait_queue', wait_list', wait_count'),
         st[IdleThread] = "READY",
         \A u \in Thread : st[u] # "RUNNING",
         \A u \in Thread : timer'[u] = "sleep" <=> st[u] = "SLEEPING",
         \A u \in Thread : u # current_thread =>
           /\ st[u] # "FREE" => state[u] # "FREE"
           /\ pc'[u] = pc[u] /\ depth'[u] = depth[u]
           /\ u \in preempted' <=> u \in preempted,
         pc'[current_thread] \notin {"exit_wake", "wake_all"},
         count = OwedWith(frames, depth'[current_thread], pc'[current_thread],
                          current_thread \in preempted')
  PROVE  SchedInv(frames)' /\ HandsOver /\ After(st)
  <1>1. /\ RunTypesOK /\ OtherTypesOK /\ IdleThread \in Thread
        /\ Balanced(frames)
    BY Types, SchedulerAssumption, ZenonT(60) DEF SchedInv
  <1>2. /\ current_thread' \in Thread
        /\ st[current_thread'] = "READY"
        /\ \A u \in Thread : st[u] = "READY" => priority'[u] <= priority'[current_thread']
        /\ state' = [st EXCEPT ![current_thread'] = "RUNNING"]
        /\ state' \in StateType
        /\ RunQueue' \in RunQueueType
        /\ RunQueueOK(state', priority', RunQueue')
        /\ remaining_quantum' \in [Thread -> 0 .. QUANTUM]
        /\ critical_section_count' \in Int
        /\ saved_critical_section_count' \in [Thread -> Int]
        /\ current_thread' = current_thread =>
             /\ critical_section_count' = count
             /\ saved_critical_section_count' = saved_critical_section_count
        /\ current_thread' # current_thread =>
             /\ critical_section_count' = saved_critical_section_count[current_thread']
             /\ saved_critical_section_count' =
                  [saved_critical_section_count EXCEPT ![current_thread] = count]
    <2>1. /\ current_thread \in Thread /\ priority \in [Thread -> Priority]
          /\ priority' \in [Thread -> Priority]
          /\ saved_critical_section_count \in [Thread -> Int]
      BY <1>1, ZenonT(60) DEF RunTypesOK, OtherTypesOK
    <2>2. PrioritiesOrdered
      BY ZenonT(60) DEF SchedInv
    <2> QED
      BY <2>1, <2>2, <1>1, Resched
  <1>3. \A u \in Thread : state'[u] = IF u = current_thread' THEN "RUNNING" ELSE st[u]
    BY <1>2, ZenonT(60) DEF StateType
  <1>4. SchedTypeOK'
    BY <1>2, Types, ZenonT(60) DEF RunTypesOK
  <1>5. RunQueueCoherent'
    BY <1>2, ZenonT(60) DEF RunQueueCoherent
  <1>6. WaitQueueCoherent'
    <2>1. \A u \in Thread : \/ state'[u] = st[u]
                            \/ state'[u] # "BLOCKED" /\ st[u] # "BLOCKED"
      BY <1>2, <1>3
    <2>2. WaitQueueOK(state', blocking_wait_queue', wait_list', wait_count')
      BY <2>1, WaitQueueFrame, ZenonT(60)
    <2> QED
      BY <2>2, ZenonT(60) DEF WaitQueueCoherent
  <1>7. OneRunningThread'
    BY <1>1, <1>3, ZenonT(60) DEF OneRunningThread
  <1>8. CurrentRuns' /\ OneInterruptFrame'
    <2>1. state'[current_thread'] = "RUNNING"
      BY <1>2, <1>3, ZenonT(60)
    <2>2. \A u \in Thread : pc'[u] \notin {"exit_wake", "wake_all"}
      BY ZenonT(60) DEF SchedInv, CurrentRuns
    <2> QED
      BY <1>2, <2>1, <2>2, ZenonT(60) DEF CurrentRuns, OneInterruptFrame
  <1>9. SleepTimers'
    BY <1>2, <1>3 DEF SleepTimers
  <1>10. Balanced(frames)'
    <2> DEFINE owed(u) == OwedWith(frames, depth'[u], pc'[u], u \in preempted')
    <2>1. current_thread \in Thread /\ saved_critical_section_count \in [Thread -> Int]
      BY <1>1, ZenonT(60) DEF RunTypesOK
    <2>2. \A u \in Thread : u # current_thread /\ state[u] # "FREE" =>
            saved_critical_section_count[u] = owed(u)
      BY <1>1, ZenonT(60) DEF Balanced, Owed, OwedWith
    <2> HIDE DEF owed
    <2>3. count = owed(current_thread)
      BY ZenonT(60) DEF owed
    <2>4. \A u \in Thread : st[u] # "FREE" /\ u # current_thread => state[u] # "FREE"
      BY ZenonT(60)
    <2>5. critical_section_count' = owed(current_thread')
      BY <1>2, <2>2, <2>3, <2>4, ZenonT(60)
    <2>6. ASSUME NEW u \in Thread, state'[u] # "FREE", u # current_thread'
          PROVE  saved_critical_section_count'[u] = owed(u)
      <3>1. CASE u = current_thread
        BY <3>1, <2>6, <2>1, <2>3, <1>2, ZenonT(60)
      <3>2. CASE u # current_thread
        BY <3>2, <2>6, <2>1, <2>2, <2>4, <1>2, <1>3, ZenonT(60)
      <3> QED
        BY <3>1, <3>2, ZenonT(60)
    <2>7. critical_section_count' \in Int
      BY <1>2, ZenonT(60)
    <2>8. owed(current_thread') + 0 = owed(current_thread')
      BY <2>5, <2>7
    <2> QED
      BY <2>5, <2>6, <2>8, ZenonT(60) DEF Balanced, Owed, OwedWith, owed
  <1>11. HandsOver
    BY <1>2, <1>3, ZenonT(60) DEF HandsOver
  <1>12. After(st)
    BY <1>2, <1>3, ZenonT(60) DEF After, Alive
  <1> QED
    BY <1>4, <1>5, <1>6, <1>7, <1>8, <1>9, <1>10, <1>11, <1>12, ZenonT(60) DEF SchedInv

\* A step of the current thread that does not switch keeps the counts balanced.
LEMMA StayBalanced ==
  ASSUME NEW frames, FramesOK(frames), Balanced(frames), RunTypesOK,
         UNCHANGED <<current_thread, saved_critical_section_count>>,
         \A u \in Thread : u # current_thread =>
           /\ state'[u] # "FREE" => state[u] # "FREE"
           /\ pc'[u] = pc[u] /\ depth'[u] = depth[u]
           /\ u \in preempted' <=> u \in preempted,
         critical_section_count' =
           OwedWith(frames, depth'[current_thread], pc'[current_thread],
                    current_thread \in preempted')
           + (IF irq' = "off" THEN 0 ELSE 1)
  PROVE  Balanced(frames)'
  <1>1. current_thread \in Thread
    BY ZenonT(60) DEF RunTypesOK
  <1>2. \A u \in Thread : state'[u] # "FREE" /\ u # current_thread =>
          saved_critical_section_count[u] = OwedWith(frames, depth'[u], pc'[u],
                                                     u \in preempted')
    BY ZenonT(60) DEF Balanced, Owed, OwedWith
  <1> QED
    BY <1>1, <1>2, ZenonT(60) DEF Balanced, Owed, OwedWith

\* A step that touches neither the queues nor the states keeps the invariant.
Stays(frames) ==
  /\ OtherTypesOK' /\ pc' \in [Thread -> DOMAIN frames]
  /\ remaining_quantum' \in [Thread -> 0 .. QUANTUM]
  /\ critical_section_count' \in Int
  /\ UNCHANGED <<current_thread, state, run_queue, run_queue_bitmap,
                 saved_critical_section_count, wait_list, wait_count,
                 blocking_wait_queue>>
  /\ state[current_thread] = "RUNNING"
  /\ pc'[current_thread] \notin {"exit_wake", "wake_all"}
  /\ \A u \in Thread : state[u] = "READY" => priority'[u] = priority[u]
  /\ \A u \in Thread : timer'[u] = "sleep" <=> timer[u] = "sleep"
  /\ irq' # "off" => current_thread \notin preempted'
  /\ \A u \in Thread : u # current_thread =>
       /\ pc'[u] = pc[u] /\ depth'[u] = depth[u]
       /\ u \in preempted' <=> u \in preempted
  /\ critical_section_count' =
       OwedWith(frames, depth'[current_thread], pc'[current_thread],
                current_thread \in preempted')
       + (IF irq' = "off" THEN 0 ELSE 1)

\* Such a step keeps the invariant.
LEMMA Stay ==
  ASSUME NEW frames, FramesOK(frames), SchedInv(frames), Stays(frames)
  PROVE  SchedInv(frames)' /\ HandsOver /\ After(state)
  <1> USE DEF Stays
  <1>1. RunTypesOK /\ OtherTypesOK /\ Balanced(frames)
    BY Types, ZenonT(60) DEF SchedInv
  <1>2. SchedTypeOK'
    <2>1. RunTypesOK'
      BY <1>1, ZenonT(60) DEF RunTypesOK, RunQueue
    <2> QED
      BY <2>1, Types, ZenonT(60)
  <1>3. RunQueueCoherent'
    <2>1. /\ state \in StateType /\ priority \in [Thread -> Priority]
          /\ priority' \in [Thread -> Priority] /\ RunQueue \in RunQueueType
          /\ RunQueueOK(state, priority, RunQueue)
      BY <1>1, ZenonT(60) DEF RunTypesOK, OtherTypesOK, SchedInv, RunQueueCoherent
    <2>2. RunQueueOK(state, priority', RunQueue)
      BY <2>1, RunQueueFrame, ZenonT(60)
    <2> QED
      BY <2>2, ZenonT(60) DEF RunQueueCoherent, RunQueue
  <1>4. WaitQueueCoherent'
    BY ZenonT(60) DEF SchedInv, WaitQueueCoherent, WaitQueueOK
  <1>5. OneRunningThread'
    BY ZenonT(60) DEF SchedInv, OneRunningThread
  <1>6. CurrentRuns' /\ OneInterruptFrame'
    <2>1. \A u \in Thread : pc'[u] \notin {"exit_wake", "wake_all"}
      BY ZenonT(60) DEF SchedInv, CurrentRuns
    <2> QED
      BY <1>1, <2>1, ZenonT(60) DEF CurrentRuns, OneInterruptFrame, RunTypesOK
  <1>7. SleepTimers'
    BY ZenonT(60) DEF SchedInv, SleepTimers
  <1>8. Balanced(frames)'
    BY <1>1, StayBalanced, ZenonT(60)
  <1>9. HandsOver /\ After(state)
    BY ZenonT(60) DEF HandsOver, After
  <1> QED
    BY <1>2, <1>3, <1>4, <1>5, <1>6, <1>7, <1>8, <1>9, ZenonT(60) DEF SchedInv

\* A step that makes a sleeping or blocked thread ready and does not switch.
Readies(frames, t) ==
  /\ state[t] \in {"SLEEPING", "BLOCKED"} /\ make_ready(t)
  /\ OtherTypesOK' /\ WaitQueueCoherent' /\ SleepTimers'
  /\ UNCHANGED <<current_thread, remaining_quantum, critical_section_count,
                 saved_critical_section_count, priority, preempted, depth, pc>>
  /\ irq' = "off" <=> irq = "off"

\* Such a step keeps the invariant.
LEMMA ReadyStep ==
  ASSUME NEW frames, FramesOK(frames), SchedInv(frames), NEW t \in Thread,
         Readies(frames, t)
  PROVE  SchedInv(frames)' /\ HandsOver /\ After([state EXCEPT ![t] = "READY"])
  <1> USE DEF Readies
  <1>1. RunTypesOK /\ OtherTypesOK /\ Balanced(frames) /\ CurrentRuns
        /\ OneRunningThread
    BY Types, ZenonT(60) DEF SchedInv
  <1>2. t # current_thread
    BY <1>1, ZenonT(60) DEF CurrentRuns
  <1>3. /\ state \in StateType /\ priority \in [Thread -> Priority]
        /\ RunQueue \in RunQueueType /\ RunQueueOK(state, priority, RunQueue)
        /\ current_thread \in Thread
    BY <1>1, ZenonT(60) DEF RunTypesOK, OtherTypesOK, SchedInv, RunQueueCoherent
  <1>4. /\ state' = [state EXCEPT ![t] = "READY"]
        /\ RunQueue' = insert_in_run_queue_head(RunQueue, t)
    BY ZenonT(60) DEF make_ready, set_run_queue, RunQueue, insert_in_run_queue_head
  <1>5. RunQueue' \in RunQueueType /\ RunQueueOK(state', priority, RunQueue')
    BY <1>3, <1>4, InsertHead, ZenonT(60)
  <1>6. state' \in StateType
        /\ \A u \in Thread : state'[u] = IF u = t THEN "READY" ELSE state[u]
    BY <1>3, <1>4, ZenonT(60) DEF StateType, ThreadState
  <1>7. SchedTypeOK'
    <2>1. RunTypesOK'
      BY <1>1, <1>5, <1>6, ZenonT(60) DEF RunTypesOK
    <2> QED
      BY <2>1, Types, ZenonT(60)
  <1>8. RunQueueCoherent'
    BY <1>5, ZenonT(60) DEF RunQueueCoherent
  <1>9. OneRunningThread'
    BY <1>1, <1>6, SchedulerAssumption, ZenonT(60) DEF OneRunningThread
  <1>10. CurrentRuns'
    <2>1. state'[current_thread'] = state[current_thread]
      BY <1>2, <1>3, <1>6, ZenonT(60)
    <2>2. irq' = "off" <=> irq = "off"
      BY ZenonT(60)
    <2> QED
      BY <2>1, <2>2, <1>1, ZenonT(60) DEF CurrentRuns
  <1>11. OneInterruptFrame'
    BY ZenonT(60) DEF SchedInv, OneInterruptFrame
  <1>12. Balanced(frames)'
    <2>1. \A u \in Thread : state'[u] # "FREE" => state[u] # "FREE"
      BY <1>6, ZenonT(60)
    <2> QED
      BY <2>1, <1>1, <1>3, ZenonT(60) DEF Balanced, Owed
  <1>13. pc' \in [Thread -> DOMAIN frames]
    BY ZenonT(60) DEF SchedInv
  <1>14. HandsOver /\ After([state EXCEPT ![t] = "READY"])
    BY <1>4, ZenonT(60) DEF HandsOver, After
  <1> QED
    BY <1>7, <1>8, <1>9, <1>10, <1>11, <1>12, <1>13, <1>14, ZenonT(60) DEF SchedInv

-----------------------------------------------------------------------------
(* The current thread                                                      *)

\* What the invariant says of a thread that executes thread code.
LEMMA RunningFacts ==
  ASSUME NEW frames, FramesOK(frames), SchedInv(frames),
         NEW t \in Thread, Running(t), pc[t] \notin {"exit_wake", "wake_all"}
  PROVE  /\ state[t] = "RUNNING"
         /\ current_thread = t /\ irq = "off" /\ t \notin preempted
         /\ critical_section_count = OwedWith(frames, depth[t], pc[t], FALSE)
         /\ \A u \in Thread : u # t => state[u] # "RUNNING"
         /\ t # IdleThread => state[IdleThread] = "READY"
         /\ t = IdleThread \/ IdleThread \in Thread
  <1>1. current_thread = t /\ irq = "off" /\ t \notin preempted
    BY ZenonT(60) DEF Running
  <1>2. state[t] = "RUNNING"
    BY <1>1, ZenonT(60) DEF SchedInv, CurrentRuns
  <1>3. critical_section_count = Owed(frames, t) + 0
    BY <1>1, ZenonT(60) DEF SchedInv, Balanced
  <1>4. depth[t] \in Nat /\ pc[t] \in DOMAIN frames /\ frames[pc[t]] \in Nat
    BY ZenonT(60) DEF SchedInv, SchedTypeOK, FramesOK
  <1>5. critical_section_count = OwedWith(frames, depth[t], pc[t], FALSE)
    BY <1>1, <1>3, <1>4 DEF Owed, OwedWith
  <1> QED
    BY <1>1, <1>2, <1>5, SchedulerAssumption, ZenonT(60) DEF SchedInv, OneRunningThread

\* The facts the lemmas above ask for, about the state before the step.
LEMMA Before ==
  ASSUME NEW frames, SchedInv(frames)
  PROVE  /\ RunTypesOK /\ OtherTypesOK /\ IdleThread \in Thread
         /\ current_thread \in Thread
         /\ state \in StateType /\ priority \in [Thread -> Priority]
         /\ RunQueue \in RunQueueType /\ RunQueueOK(state, priority, RunQueue)
         /\ remaining_quantum \in [Thread -> 0 .. QUANTUM]
         /\ critical_section_count \in Int
         /\ pc \in [Thread -> DOMAIN frames] /\ depth \in [Thread -> Nat]
         /\ WaitQueueOK(state, blocking_wait_queue, wait_list, wait_count)
         /\ wait_list \in WaitListType /\ wait_count \in WaitCountType
         /\ blocking_wait_queue \in BlockingType
         /\ \A u \in Thread : timer[u] = "sleep" <=> state[u] = "SLEEPING"
  BY Types, SchedulerAssumption, ZenonT(60)
     DEF SchedInv, RunTypesOK, OtherTypesOK, RunQueueCoherent,
         WaitQueueCoherent, SleepTimers

\* The thread t, running thread code, calls thread_resched() with thread states
\* st and goes on at label, having entered n more critical sections.
SwitchesTo(frames, t, label, n, st, rq, quantum) ==
  /\ Running(t) /\ pc[t] \notin {"exit_wake", "wake_all"}
  /\ label \in DOMAIN frames \ {"exit_wake", "wake_all"}
  /\ pc' = [pc EXCEPT ![t] = label]
  /\ n \in Int /\ frames[label] = frames[pc[t]] + n
  /\ st \in StateType /\ rq \in RunQueueType
  /\ quantum \in [Thread -> 0 .. QUANTUM]
  /\ thread_resched(st, quantum, rq, critical_section_count + n)
  /\ OtherTypesOK' /\ UNCHANGED <<priority, depth, preempted, irq>>
  /\ RunQueueOK(st, priority, rq)
  /\ WaitQueueOK(st, blocking_wait_queue', wait_list', wait_count')
  /\ st[t] # "RUNNING" /\ (t = IdleThread => st[t] = "READY")
  /\ \A u \in Thread : u # t =>
       \/ st[u] = state[u]
       \/ st[u] = "READY" /\ state[u] \in {"BLOCKED", "SUSPENDED"}
  /\ \A u \in Thread : timer'[u] = "sleep" <=> st[u] = "SLEEPING"

\* Such a step keeps the invariant.
LEMMA SwitchFrom ==
  ASSUME NEW frames, FramesOK(frames), SchedInv(frames), NEW t \in Thread,
         NEW label, NEW n, NEW st, NEW rq, NEW quantum,
         SwitchesTo(frames, t, label, n, st, rq, quantum)
  PROVE  SchedInv(frames)' /\ HandsOver /\ After(st)
  <1> USE DEF SwitchesTo
  <1> DEFINE count == critical_section_count + n
  <1>1. /\ state[t] = "RUNNING" /\ current_thread = t /\ irq = "off" /\ t \notin preempted
        /\ critical_section_count = OwedWith(frames, depth[t], pc[t], FALSE)
        /\ \A u \in Thread : u # t => state[u] # "RUNNING"
        /\ t # IdleThread => state[IdleThread] = "READY"
    BY RunningFacts, ZenonT(60)
  <1>2. /\ IdleThread \in Thread /\ critical_section_count \in Int
        /\ pc \in [Thread -> DOMAIN frames] /\ depth \in [Thread -> Nat]
    BY Before, ZenonT(60)
  <1>3. /\ pc' \in [Thread -> DOMAIN frames] /\ pc'[t] = label
        /\ \A u \in Thread : u # t => pc'[u] = pc[u]
    BY <1>2, ZenonT(60)
  <1>4. count \in Int /\ count = OwedWith(frames, depth'[t], pc'[t], t \in preempted')
    BY <1>1, <1>2, <1>3 DEF OwedWith, FramesOK
  <1>5. st[IdleThread] = "READY"
    BY <1>1, <1>2, ZenonT(60)
  <1>6. \A u \in Thread : st[u] # "RUNNING" /\ (u # t /\ st[u] # "FREE" => state[u] # "FREE")
    BY <1>1, ZenonT(60)
  <1> HIDE DEF count
  <1>7. thread_resched(st, quantum, rq, count)
    BY ZenonT(60) DEF count
  <1>8. RunQueueOK(st, priority', rq) /\ irq' = "off"
    BY <1>1, ZenonT(60)
  <1>9. \A u \in Thread : u # current_thread =>
           /\ st[u] # "FREE" => state[u] # "FREE"
           /\ pc'[u] = pc[u] /\ depth'[u] = depth[u]
           /\ u \in preempted' <=> u \in preempted
    BY <1>1, <1>3, <1>6, ZenonT(60)
  <1>10. count = OwedWith(frames, depth'[current_thread], pc'[current_thread],
                          current_thread \in preempted')
    BY <1>1, <1>4, ZenonT(60)
  <1>11. pc'[current_thread] \notin {"exit_wake", "wake_all"}
    BY <1>1, <1>3, ZenonT(60)
  <1> QED
    BY <1>3, <1>4, <1>5, <1>6, <1>7, <1>8, <1>9, <1>10, <1>11, Switch, ZenonT(60)

\* The current thread gives itself up and does not become ready.
GivesUp(frames, t, label, n, x) ==
  /\ t # IdleThread
  /\ Running(t) /\ pc[t] \notin {"exit_wake", "wake_all"}
  /\ label \in DOMAIN frames \ {"exit_wake", "wake_all"}
  /\ pc' = [pc EXCEPT ![t] = label]
  /\ n \in Int /\ frames[label] = frames[pc[t]] + n
  /\ x \in {"BLOCKED", "SLEEPING", "FREE"}
  /\ thread_resched([state EXCEPT ![t] = x], remaining_quantum, RunQueue,
                    critical_section_count + n)
  /\ OtherTypesOK' /\ UNCHANGED <<priority, depth, preempted, irq>>
  /\ WaitQueueOK([state EXCEPT ![t] = x],
                 blocking_wait_queue', wait_list', wait_count')
  /\ timer'[t] = "sleep" <=> x = "SLEEPING"
  /\ \A u \in Thread : u # t => (timer'[u] = "sleep" <=> timer[u] = "sleep")

\* Such a step keeps the invariant.
LEMMA GiveUp ==
  ASSUME NEW frames, FramesOK(frames), SchedInv(frames), NEW t \in Thread,
         NEW label, NEW n, NEW x, GivesUp(frames, t, label, n, x)
  PROVE  SchedInv(frames)' /\ HandsOver /\ After([state EXCEPT ![t] = x])
  <1> DEFINE st == [state EXCEPT ![t] = x]
  <1>1. state[t] = "RUNNING"
    BY RunningFacts, ZenonT(60) DEF GivesUp
  <1>2. /\ state \in StateType /\ priority \in [Thread -> Priority]
        /\ RunQueue \in RunQueueType /\ RunQueueOK(state, priority, RunQueue)
        /\ remaining_quantum \in [Thread -> 0 .. QUANTUM]
        /\ \A u \in Thread : timer[u] = "sleep" <=> state[u] = "SLEEPING"
    BY Before, ZenonT(60)
  <1>3. st \in StateType /\ \A u \in Thread : st[u] = IF u = t THEN x ELSE state[u]
    BY <1>2, ZenonT(60) DEF StateType, ThreadState, GivesUp
  <1> HIDE DEF st
  <1>4. RunQueueOK(st, priority, RunQueue)
    <2>1. \A u \in Thread : st[u] = state[u] \/ (st[u] # "READY" /\ state[u] # "READY")
      BY <1>1, <1>3, ZenonT(60) DEF GivesUp
    <2> QED
      BY <2>1, <1>2, <1>3, RunQueueFrame, ZenonT(60)
  <1>5. st[t] # "RUNNING" /\ \A u \in Thread : timer'[u] = "sleep" <=> st[u] = "SLEEPING"
    BY <1>2, <1>3, ZenonT(60) DEF GivesUp
  <1>6. thread_resched(st, remaining_quantum, RunQueue, critical_section_count + n)
        /\ WaitQueueOK(st, blocking_wait_queue', wait_list', wait_count')
    BY ZenonT(60) DEF GivesUp, st
  <1>7. SwitchesTo(frames, t, label, n, st, RunQueue, remaining_quantum)
    BY <1>2, <1>3, <1>4, <1>5, <1>6, ZenonT(60) DEF GivesUp, SwitchesTo
  <1>8. SchedInv(frames)' /\ HandsOver /\ After(st)
    BY <1>7, SwitchFrom, ZenonT(60)
  <1> QED
    BY <1>8, ZenonT(60) DEF st

\* thread_sleep() keeps the invariant.
LEMMA SleepStep ==
  ASSUME NEW frames, FramesOK(frames), SchedInv(frames),
         NEW t \in Thread, thread_sleep(t)
  PROVE  SchedInv(frames)' /\ HandsOver /\ After(state)
  <1>1. t # IdleThread /\ Running(t) /\ pc[t] = "user"
    BY ZenonT(60) DEF thread_sleep, Calls, InUser
  <1>2. state[t] = "RUNNING"
    BY <1>1, RunningFacts, ZenonT(60)
  <1>3. /\ OtherTypesOK /\ state \in StateType
        /\ WaitQueueOK(state, blocking_wait_queue, wait_list, wait_count)
    BY Before, ZenonT(60)
  <1>4. /\ thread_resched([state EXCEPT ![t] = "SLEEPING"], remaining_quantum,
                          RunQueue, critical_section_count + 1)
        /\ pc' = [pc EXCEPT ![t] = "sleep"]
        /\ timer' = [timer EXCEPT ![t] = "sleep"]
        /\ UNCHANGED <<waitVars, block_timeout, ctlVars>>
    BY ZenonT(60) DEF thread_sleep, goto
  <1>5. OtherTypesOK' /\ UNCHANGED <<priority, depth, preempted, irq, wait_list,
                                     wait_count, blocking_wait_queue>>
    BY <1>3, <1>4, ZenonT(60) DEF OtherTypesOK, waitVars, ctlVars
  <1>6. WaitQueueOK([state EXCEPT ![t] = "SLEEPING"],
                    blocking_wait_queue', wait_list', wait_count')
    <2>1. \A u \in Thread :
            \/ [state EXCEPT ![t] = "SLEEPING"][u] = state[u]
            \/ [state EXCEPT ![t] = "SLEEPING"][u] # "BLOCKED" /\ state[u] # "BLOCKED"
      BY <1>2, <1>3, ZenonT(60) DEF StateType
    <2> QED
      BY <2>1, <1>3, <1>5, WaitQueueFrame, ZenonT(60)
  <1>7. /\ timer'[t] = "sleep"
        /\ \A u \in Thread : u # t => timer'[u] = timer[u]
    BY <1>3, <1>4, ZenonT(60) DEF OtherTypesOK
  <1>8. GivesUp(frames, t, "sleep", 1, "SLEEPING")
    BY <1>1, <1>4, <1>5, <1>6, <1>7 DEF GivesUp, FramesOK
  <1>9. SchedInv(frames)' /\ HandsOver /\ After([state EXCEPT ![t] = "SLEEPING"])
    BY <1>8, GiveUp, ZenonT(60)
  <1>10. After(state)
    BY <1>2, <1>3, <1>9, ZenonT(60) DEF After, Alive, StateType
  <1> QED
    BY <1>9, <1>10, ZenonT(60)

\* The thread t, running thread code, yields with thread states st0, in which
\* it may have made a suspended thread ready.
Yields(frames, t, label, n, st0, rq0) ==
  /\ Running(t) /\ pc[t] \notin {"exit_wake", "wake_all"}
  /\ label \in DOMAIN frames \ {"exit_wake", "wake_all"}
  /\ pc' = [pc EXCEPT ![t] = label]
  /\ n \in Int /\ frames[label] = frames[pc[t]] + n
  /\ yield(st0, rq0, critical_section_count + n)
  /\ st0 \in StateType /\ rq0 \in RunQueueType /\ RunQueueOK(st0, priority, rq0)
  /\ st0[t] = "RUNNING"
  /\ \A u \in Thread : \/ st0[u] = state[u]
                       \/ st0[u] = "READY" /\ state[u] = "SUSPENDED"
  /\ UNCHANGED <<waitVars, timeVars, ctlVars>>

\* Such a step keeps the invariant.
LEMMA YieldFrom ==
  ASSUME NEW frames, FramesOK(frames), SchedInv(frames), NEW t \in Thread,
         NEW label, NEW n, NEW st0, NEW rq0, Yields(frames, t, label, n, st0, rq0)
  PROVE  SchedInv(frames)' /\ HandsOver /\ After(st0)
  <1> DEFINE st == [st0 EXCEPT ![t] = "READY"]
             q == [remaining_quantum EXCEPT ![t] = 0]
             rq == insert_in_run_queue_tail(rq0, t)
  <1>1. /\ Running(t) /\ current_thread = t
        /\ st0 \in StateType /\ rq0 \in RunQueueType /\ RunQueueOK(st0, priority, rq0)
        /\ st0[t] = "RUNNING"
        /\ \A u \in Thread : \/ st0[u] = state[u]
                             \/ st0[u] = "READY" /\ state[u] = "SUSPENDED"
    BY ZenonT(60) DEF Yields, Running
  <1>2. /\ OtherTypesOK /\ priority \in [Thread -> Priority]
        /\ remaining_quantum \in [Thread -> 0 .. QUANTUM]
        /\ WaitQueueOK(state, blocking_wait_queue, wait_list, wait_count)
        /\ \A u \in Thread : timer[u] = "sleep" <=> state[u] = "SLEEPING"
    BY Before, ZenonT(60)
  <1>3. /\ thread_resched(st, q, rq, critical_section_count + n)
        /\ UNCHANGED <<waitVars, timeVars, ctlVars>>
    BY <1>1, ZenonT(60) DEF Yields, yield
  <1>4. st \in StateType /\ \A u \in Thread : st[u] = IF u = t THEN "READY" ELSE st0[u]
    BY <1>1, ZenonT(60) DEF StateType, ThreadState
  <1>5. rq \in RunQueueType /\ RunQueueOK(st, priority, rq)
    <2>1. st0[t] # "READY"
      BY <1>1, ZenonT(60)
    <2> QED
      BY <2>1, <1>1, <1>2, InsertTail, ZenonT(60)
  <1>6. q \in [Thread -> 0 .. QUANTUM]
    BY <1>2, SchedulerAssumption
  <1> HIDE DEF st, q, rq
  <1>7. OtherTypesOK' /\ UNCHANGED <<priority, depth, preempted, timer, irq,
                                     wait_list, wait_count, blocking_wait_queue>>
    BY <1>2, <1>3, ZenonT(60) DEF OtherTypesOK, waitVars, timeVars, ctlVars
  <1>8. \A u \in Thread : u # t =>
          st[u] = state[u] \/ (st[u] = "READY" /\ state[u] \in {"BLOCKED", "SUSPENDED"})
    BY <1>1, <1>4, ZenonT(60)
  <1>9. state[t] = "RUNNING" /\ st[t] = "READY"
    BY <1>1, <1>4, ZenonT(60)
  <1>10. WaitQueueOK(st, blocking_wait_queue', wait_list', wait_count')
    <2>1. \A u \in Thread : \/ st[u] = state[u]
                            \/ st[u] # "BLOCKED" /\ state[u] # "BLOCKED"
      BY <1>1, <1>4, <1>9, ZenonT(60)
    <2> QED
      BY <2>1, <1>2, <1>7, WaitQueueFrame, ZenonT(60)
  <1>11. \A u \in Thread : timer'[u] = "sleep" <=> st[u] = "SLEEPING"
    BY <1>1, <1>2, <1>4, <1>7, <1>9, ZenonT(60)
  <1>12. SwitchesTo(frames, t, label, n, st, rq, q)
    BY <1>3, <1>4, <1>5, <1>6, <1>7, <1>8, <1>9, <1>10, <1>11, ZenonT(60)
       DEF Yields, SwitchesTo
  <1>13. SchedInv(frames)' /\ HandsOver /\ After(st)
    BY <1>12, SwitchFrom, ZenonT(60)
  <1>14. After(st0)
    BY <1>1, <1>4, <1>13, ZenonT(60) DEF After, Alive
  <1> QED
    BY <1>13, <1>14, ZenonT(60)

\* thread_yield() keeps the invariant.
LEMMA YieldStep ==
  ASSUME NEW frames, FramesOK(frames), SchedInv(frames),
         NEW t \in Thread, thread_yield(t)
  PROVE  SchedInv(frames)' /\ HandsOver /\ After(state)
  <1>1. Running(t) /\ pc[t] = "user"
    BY ZenonT(60) DEF thread_yield, Calls, InUser
  <1>2. state[t] = "RUNNING"
    BY <1>1, RunningFacts, ZenonT(60)
  <1>3. /\ state \in StateType
        /\ RunQueue \in RunQueueType /\ RunQueueOK(state, priority, RunQueue)
    BY Before, ZenonT(60)
  <1>4. /\ yield(state, RunQueue, critical_section_count + 1)
        /\ pc' = [pc EXCEPT ![t] = "yield"]
        /\ UNCHANGED <<waitVars, timeVars, ctlVars>>
    BY ZenonT(60) DEF thread_yield, goto
  <1>5. Yields(frames, t, "yield", 1, state, RunQueue)
    BY <1>1, <1>2, <1>3, <1>4 DEF Yields, FramesOK
  <1> QED
    BY <1>5, YieldFrom, ZenonT(60)

\* The end of a call, which leaves the critical sections it entered.
LEMMA LeaveStep ==
  ASSUME NEW frames, FramesOK(frames), SchedInv(frames), NEW t \in Thread,
         Running(t), pc[t] \notin {"exit_wake", "wake_all"},
         leave(t, frames[pc[t]]),
         UNCHANGED <<ctlVars, wait_list, wait_count, blocking_wait_queue>>,
         OtherTypesOK',
         \A u \in Thread : timer'[u] = "sleep" <=> timer[u] = "sleep"
  PROVE  SchedInv(frames)' /\ HandsOver /\ After(state)
  <1>1. /\ state[t] = "RUNNING" /\ current_thread = t /\ irq = "off" /\ t \notin preempted
        /\ critical_section_count = OwedWith(frames, depth[t], pc[t], FALSE)
    BY RunningFacts, ZenonT(60)
  <1>2. /\ remaining_quantum \in [Thread -> 0 .. QUANTUM]
        /\ critical_section_count \in Int
        /\ pc \in [Thread -> DOMAIN frames] /\ depth \in [Thread -> Nat]
    BY Before, ZenonT(60)
  <1>3. /\ pc' = [pc EXCEPT ![t] = "user"]
        /\ critical_section_count' = critical_section_count - frames[pc[t]]
        /\ UNCHANGED <<current_thread, state, remaining_quantum, run_queue,
                       run_queue_bitmap, saved_critical_section_count>>
        /\ UNCHANGED <<priority, preempted, depth, irq>>
    BY ZenonT(60) DEF leave, goto, ctlVars
  <1>4. /\ pc' \in [Thread -> DOMAIN frames] /\ pc'[t] = "user"
        /\ \A u \in Thread : u # t => pc'[u] = pc[u]
    BY <1>2, <1>3, ZenonT(60) DEF FramesOK
  <1>5. /\ critical_section_count' \in Int
        /\ critical_section_count' = OwedWith(frames, depth'[t], pc'[t], t \in preempted') + 0
    BY <1>1, <1>2, <1>3, <1>4 DEF OwedWith, FramesOK
  <1>6. Stays(frames)
    BY <1>1, <1>2, <1>3, <1>4, <1>5, ZenonT(60) DEF Stays, OwedWith
  <1> QED
    BY <1>6, Stay, ZenonT(60)

\* The return of a call that was switched out keeps the invariant.
LEMMA ReturnStep ==
  ASSUME NEW frames, FramesOK(frames), SchedInv(frames),
         NEW t \in Thread, Return(t)
  PROVE  SchedInv(frames)' /\ HandsOver /\ After(state)
  <1>1. /\ Running(t) /\ pc[t] \notin {"exit_wake", "wake_all"}
        /\ frames[pc[t]] = 1 /\ leave(t, 1)
        /\ UNCHANGED <<waitVars, timeVars, ctlVars>>
    BY ZenonT(60) DEF Return, FramesOK
  <1>2. OtherTypesOK' /\ UNCHANGED <<wait_list, wait_count, blocking_wait_queue, timer>>
    BY <1>1, Before, ZenonT(60) DEF OtherTypesOK, waitVars, timeVars, ctlVars
  <1>3. leave(t, frames[pc[t]])
    BY <1>1, ZenonT(60)
  <1>4. UNCHANGED <<ctlVars, wait_list, wait_count, blocking_wait_queue>>
    BY <1>1, <1>2, ZenonT(60)
  <1>5. \A u \in Thread : timer'[u] = "sleep" <=> timer[u] = "sleep"
    BY <1>2, ZenonT(60)
  <1> QED
    BY <1>1, <1>2, <1>3, <1>4, <1>5, LeaveStep, ZenonT(60)

\* thread_set_priority() of any argument keeps the invariant: the caller runs, so it
\* is on no run queue.
LEMMA SetPriorityStep ==
  ASSUME NEW frames, FramesOK(frames), SchedInv(frames),
         NEW t \in Thread, NEW p \in Int, thread_set_priority(t, p)
  PROVE  SchedInv(frames)' /\ HandsOver /\ After(state)
  <1>1. Running(t) /\ pc[t] = "user"
    BY ZenonT(60) DEF thread_set_priority, Calls, InUser
  <1>2. /\ state[t] = "RUNNING" /\ current_thread = t /\ irq = "off" /\ t \notin preempted
        /\ critical_section_count = OwedWith(frames, depth[t], pc[t], FALSE)
    BY <1>1, RunningFacts, ZenonT(60)
  <1>3. /\ OtherTypesOK /\ priority \in [Thread -> Priority]
        /\ remaining_quantum \in [Thread -> 0 .. QUANTUM]
        /\ critical_section_count \in Int /\ pc \in [Thread -> DOMAIN frames]
    BY Before, ZenonT(60)
  <1>4. clamp(p) \in Priority
    BY SchedulerAssumption DEF clamp, Priority, LOWEST_PRIORITY
  <1>5. /\ priority' = [priority EXCEPT ![t] = clamp(p)]
        /\ UNCHANGED <<runVars, waitVars, timeVars, preempted, depth, irq, pc>>
    BY ZenonT(60) DEF thread_set_priority
  <1> HIDE DEF clamp
  <1>6. /\ priority' \in [Thread -> Priority]
        /\ \A u \in Thread : u # t => priority'[u] = priority[u]
    BY <1>3, <1>4, <1>5, ZenonT(60)
  <1>7. OtherTypesOK'
    BY <1>3, <1>5, <1>6, ZenonT(60) DEF OtherTypesOK, waitVars, timeVars
  <1>8. critical_section_count + 0 = critical_section_count
    BY <1>3
  <1>9. Stays(frames)
    BY <1>1, <1>2, <1>3, <1>5, <1>6, <1>7, <1>8, ZenonT(60)
       DEF Stays, runVars, waitVars, timeVars, OwedWith
  <1> QED
    BY <1>9, Stay, ZenonT(60)

\* enter_critical_section() and exit_critical_section() keep the invariant.
LEMMA EnterStep ==
  ASSUME NEW frames, FramesOK(frames), SchedInv(frames),
         NEW t \in Thread, enter_critical_section(t) \/ exit_critical_section(t)
  PROVE  SchedInv(frames)' /\ HandsOver /\ After(state)
  <1>1. Running(t) /\ pc[t] = "user"
    BY ZenonT(60) DEF enter_critical_section, exit_critical_section, Calls, InUser
  <1>2. /\ state[t] = "RUNNING" /\ current_thread = t /\ irq = "off" /\ t \notin preempted
        /\ critical_section_count = OwedWith(frames, depth[t], pc[t], FALSE)
    BY <1>1, RunningFacts, ZenonT(60)
  <1>3. /\ OtherTypesOK /\ remaining_quantum \in [Thread -> 0 .. QUANTUM]
        /\ critical_section_count \in Int /\ depth \in [Thread -> Nat]
        /\ pc \in [Thread -> DOMAIN frames]
    BY Before, ZenonT(60)
  <1>4. PICK d \in Int :
          /\ depth[t] + d \in Nat
          /\ critical_section_count' = critical_section_count + d
          /\ depth' = [depth EXCEPT ![t] = depth[t] + d]
    <2>1. CASE enter_critical_section(t)
      <3> WITNESS 1 \in Int
      <3> QED
        BY <2>1, <1>3 DEF enter_critical_section
    <2>2. CASE exit_critical_section(t)
      <3>1. /\ depth[t] \in Nat /\ depth[t] > 0
            /\ critical_section_count' = critical_section_count - 1
            /\ depth' = [depth EXCEPT ![t] = depth[t] - 1]
        BY <2>2, <1>3, ZenonT(60) DEF exit_critical_section
      <3>2. /\ depth[t] - 1 = depth[t] + (-1) /\ depth[t] + (-1) \in Nat
            /\ critical_section_count - 1 = critical_section_count + (-1)
        BY <3>1, <1>3
      <3> WITNESS (-1) \in Int
      <3> QED
        BY <3>1, <3>2, ZenonT(60)
    <2> QED
      BY <2>1, <2>2, ZenonT(60)
  <1>5. UNCHANGED <<current_thread, state, remaining_quantum, run_queue,
                    run_queue_bitmap, saved_critical_section_count, waitVars,
                    timeVars, priority, preempted, irq, pc>>
    BY ZenonT(60) DEF enter_critical_section, exit_critical_section
  <1>6. /\ depth' \in [Thread -> Nat] /\ depth'[t] = depth[t] + d
        /\ \A u \in Thread : u # t => depth'[u] = depth[u]
    BY <1>3, <1>4, ZenonT(60)
  <1>7. OtherTypesOK'
    BY <1>3, <1>5, <1>6, ZenonT(60) DEF OtherTypesOK, waitVars, timeVars
  <1>8. /\ critical_section_count' \in Int
        /\ critical_section_count' = OwedWith(frames, depth'[t], pc'[t], t \in preempted') + 0
    BY <1>1, <1>2, <1>3, <1>4, <1>5, <1>6 DEF OwedWith, FramesOK
  <1>9. Stays(frames)
    BY <1>1, <1>2, <1>3, <1>5, <1>6, <1>7, <1>8, ZenonT(60)
       DEF Stays, waitVars, timeVars, OwedWith
  <1> QED
    BY <1>9, Stay, ZenonT(60)

-----------------------------------------------------------------------------
(* The interrupt                                                           *)

\* The thread an interrupt comes in on is RUNNING.
LEMMA InterruptedRuns ==
  ASSUME NEW frames, SchedInv(frames),
         \/ irq # "off"
         \/ current_thread \in preempted
         \/ pc[current_thread] \notin {"exit_wake", "wake_all"}
  PROVE  /\ state[current_thread] = "RUNNING"
         /\ pc[current_thread] \notin {"exit_wake", "wake_all"}
         /\ irq # "off" => current_thread \notin preempted
  <1>1. current_thread \in Thread
    BY Before, ZenonT(60)
  <1>2. pc[current_thread] \notin {"exit_wake", "wake_all"}
    BY <1>1, ZenonT(60) DEF SchedInv, CurrentRuns
  <1>3. state[current_thread] = "RUNNING"
    BY <1>2, ZenonT(60) DEF SchedInv, CurrentRuns
  <1> QED
    BY <1>2, <1>3, ZenonT(60) DEF SchedInv, OneInterruptFrame

\* platform_irq() up to the handler keeps the invariant.
LEMMA IrqEnterStep ==
  ASSUME NEW frames, FramesOK(frames), SchedInv(frames), irq_enter
  PROVE  SchedInv(frames)' /\ HandsOver /\ After(state)
  <1> DEFINE c == current_thread
  <1>1. /\ OtherTypesOK /\ remaining_quantum \in [Thread -> 0 .. QUANTUM]
        /\ c \in Thread /\ depth \in [Thread -> Nat]
        /\ pc \in [Thread -> DOMAIN frames]
    BY Before, ZenonT(60)
  <1>2. critical_section_count = 0 /\ irq = "off"
    BY ZenonT(60) DEF irq_enter
  <1>3. 0 = depth[c] + frames[pc[c]] + (IF c \in preempted THEN 2 ELSE 0) + 0
    BY <1>2, ZenonT(60) DEF SchedInv, Balanced, Owed
  <1>4. depth[c] = 0 /\ frames[pc[c]] = 0 /\ c \notin preempted
    BY <1>1, <1>3 DEF FramesOK
  <1>5. state[c] = "RUNNING" /\ pc[c] \notin {"exit_wake", "wake_all"}
    <2>1. pc[c] \notin {"exit_wake", "wake_all"}
      BY <1>1, <1>4 DEF FramesOK
    <2> QED
      BY <2>1, InterruptedRuns, ZenonT(60)
  <1>6. /\ critical_section_count' = 1 /\ irq' = "INT_NO_RESCHEDULE"
        /\ UNCHANGED <<current_thread, state, remaining_quantum, run_queue,
                       run_queue_bitmap, saved_critical_section_count, waitVars,
                       timeVars, priority, preempted, depth, pc>>
    BY <1>2 DEF irq_enter
  <1>7. OtherTypesOK'
    BY <1>1, <1>6, ZenonT(60) DEF OtherTypesOK, waitVars, timeVars
  <1>8. critical_section_count' = OwedWith(frames, depth'[c], pc'[c], c \in preempted') + 1
    BY <1>4, <1>6 DEF OwedWith
  <1>9. Stays(frames)
    BY <1>1, <1>4, <1>5, <1>6, <1>7, <1>8 DEF Stays, waitVars, timeVars
  <1> QED
    BY <1>9, Stay, ZenonT(60)

\* The callback of the timer of thread_sleep() keeps the invariant.
LEMMA SleepHandlerStep ==
  ASSUME NEW frames, FramesOK(frames), SchedInv(frames),
         NEW t \in Thread, thread_sleep_handler(t)
  PROVE  SchedInv(frames)' /\ HandsOver /\ After(state)
  <1>1. /\ OtherTypesOK /\ state \in StateType
        /\ WaitQueueOK(state, blocking_wait_queue, wait_list, wait_count)
        /\ \A u \in Thread : timer[u] = "sleep" <=> state[u] = "SLEEPING"
    BY Before, ZenonT(60)
  <1>2. /\ irq # "off" /\ timer[t] = "sleep" /\ make_ready(t)
        /\ timer' = [timer EXCEPT ![t] = "none"] /\ irq' = "INT_RESCHEDULE"
        /\ UNCHANGED <<current_thread, remaining_quantum, critical_section_count,
                       saved_critical_section_count, waitVars, block_timeout,
                       priority, preempted, depth, pc>>
    BY ZenonT(60) DEF thread_sleep_handler
  <1>3. \A u \in Thread : state'[u] = IF u = t THEN "READY" ELSE state[u]
    BY <1>1, <1>2, ZenonT(60) DEF make_ready, StateType
  <1>4. OtherTypesOK'
    BY <1>1, <1>2, ZenonT(60) DEF OtherTypesOK, waitVars
  <1>5. WaitQueueCoherent'
    <2>1. \A u \in Thread : \/ state'[u] = state[u]
                            \/ state'[u] # "BLOCKED" /\ state[u] # "BLOCKED"
      BY <1>1, <1>2, <1>3, ZenonT(60)
    <2>2. WaitQueueOK(state', blocking_wait_queue, wait_list, wait_count)
      BY <2>1, <1>1, WaitQueueFrame, ZenonT(60)
    <2> QED
      BY <2>2, <1>2, ZenonT(60) DEF WaitQueueCoherent, waitVars
  <1>6. SleepTimers'
    BY <1>1, <1>2, <1>3, ZenonT(60) DEF SleepTimers, OtherTypesOK
  <1>7. Readies(frames, t)
    BY <1>1, <1>2, <1>4, <1>5, <1>6, ZenonT(60) DEF Readies
  <1>8. SchedInv(frames)' /\ HandsOver
    BY <1>7, ReadyStep, ZenonT(60)
  <1>9. After(state)
    BY <1>1, <1>2, <1>3, ZenonT(60) DEF After, Alive
  <1> QED
    BY <1>8, <1>9, ZenonT(60)

\* thread_unblock_from_wait_queue() and one turn of a waking loop: a blocked
\* thread leaves its queue and becomes ready.
Unblocks(t, q, err) ==
  /\ state[t] = "BLOCKED" /\ blocking_wait_queue[t] = q /\ err \in Status
  /\ dequeue(q, t, err) /\ make_ready(t)
  /\ UNCHANGED <<current_thread, remaining_quantum, critical_section_count,
                 saved_critical_section_count, priority, preempted, depth, pc,
                 block_timeout>>
  /\ irq' \in {"off", "INT_NO_RESCHEDULE", "INT_RESCHEDULE"}
  /\ irq' = "off" <=> irq = "off"
  /\ timer' \in [Thread -> {"none", "sleep", "timeout"}]
  /\ \A u \in Thread : timer'[u] = "sleep" <=> timer[u] = "sleep"

\* Such a step keeps the invariant.
LEMMA UnblockStep ==
  ASSUME NEW frames, FramesOK(frames), SchedInv(frames), NEW t \in Thread,
         NEW q, NEW err, Unblocks(t, q, err)
  PROVE  SchedInv(frames)' /\ HandsOver /\ After([state EXCEPT ![t] = "READY"])
  <1>1. /\ OtherTypesOK /\ state \in StateType
        /\ WaitQueueOK(state, blocking_wait_queue, wait_list, wait_count)
        /\ wait_list \in WaitListType /\ wait_count \in WaitCountType
        /\ blocking_wait_queue \in BlockingType
        /\ \A u \in Thread : timer[u] = "sleep" <=> state[u] = "SLEEPING"
    BY Before, ZenonT(60)
  <1>2. state[t] = "BLOCKED" /\ blocking_wait_queue[t] = q /\ q \in WaitQueue
    BY <1>1, ZenonT(60) DEF Unblocks, WaitQueueOK
  <1>3. /\ wait_list' = [wait_list EXCEPT ![q] = list_delete(@, t)]
        /\ wait_count' = [wait_count EXCEPT ![q] = @ - 1]
        /\ blocking_wait_queue' = [blocking_wait_queue EXCEPT ![t] = NULL]
        /\ wait_queue_block_ret' = [wait_queue_block_ret EXCEPT ![t] = err]
    BY ZenonT(60) DEF Unblocks, dequeue
  <1>4. /\ state' \in StateType
        /\ \A u \in Thread : state'[u] = IF u = t THEN "READY" ELSE state[u]
    BY <1>1, ZenonT(60) DEF Unblocks, make_ready, StateType, ThreadState
  <1>5. /\ wait_list' \in WaitListType /\ wait_count' \in WaitCountType
        /\ blocking_wait_queue' \in BlockingType
        /\ WaitQueueOK(state', blocking_wait_queue', wait_list', wait_count')
    <2>1. state'[t] # "BLOCKED" /\ \A u \in Thread : u # t =>
            \/ state'[u] = state[u]
            \/ state'[u] # "BLOCKED" /\ state[u] # "BLOCKED"
      BY <1>4, ZenonT(60)
    <2> DEFINE nwl == [wait_list EXCEPT ![q] = list_delete(@, t)]
               nwc == [wait_count EXCEPT ![q] = @ - 1]
               nbq == [blocking_wait_queue EXCEPT ![t] = NULL]
    <2>2. /\ nwl \in WaitListType /\ nwc \in WaitCountType /\ nbq \in BlockingType
          /\ WaitQueueOK(state', nbq, nwl, nwc)
      <3>1. WaitOK(state, blocking_wait_queue, wait_list, wait_count)
        BY <1>1, ZenonT(60) DEF WaitOK
      <3>2. Unblocked(state, state', t)
        BY <2>1, <1>2, <1>4, ZenonT(60) DEF Unblocked
      <3>3. WaitOK(state', nbq, nwl, nwc)
        BY <3>1, <3>2, <1>2, DequeueOK, ZenonT(60)
      <3> QED
        BY <3>3, ZenonT(60) DEF WaitOK
    <2> QED
      BY <2>2, <1>3, ZenonT(60)
  <1>6. OtherTypesOK'
    BY <1>1, <1>3, <1>5, ZenonT(60) DEF OtherTypesOK, Unblocks
  <1>7. WaitQueueCoherent'
    BY <1>5, ZenonT(60) DEF WaitQueueCoherent
  <1>8. SleepTimers'
    BY <1>1, <1>2, <1>4, ZenonT(60) DEF SleepTimers, Unblocks
  <1>9. Readies(frames, t)
    BY <1>2, <1>6, <1>7, <1>8, ZenonT(60) DEF Readies, Unblocks
  <1> QED
    BY <1>9, ReadyStep, ZenonT(60)

\* The callback of a wait timeout keeps the invariant, whether the thread still
\* waits or was woken before the timer fired.
LEMMA TimeoutHandlerStep ==
  ASSUME NEW frames, FramesOK(frames), SchedInv(frames),
         NEW t \in Thread, wait_queue_timeout_handler(t)
  PROVE  SchedInv(frames)' /\ HandsOver
  <1>1. /\ OtherTypesOK /\ current_thread \in Thread
        /\ remaining_quantum \in [Thread -> 0 .. QUANTUM]
        /\ critical_section_count \in Int /\ pc \in [Thread -> DOMAIN frames]
        /\ \A u \in Thread : timer[u] = "sleep" <=> state[u] = "SLEEPING"
    BY Before, ZenonT(60)
  <1>2. /\ irq # "off" /\ timer[t] = "timeout"
        /\ timer' = [timer EXCEPT ![t] = "none"]
        /\ UNCHANGED <<current_thread, remaining_quantum, critical_section_count,
                       saved_critical_section_count, block_timeout, priority,
                       preempted, depth, pc>>
    BY ZenonT(60) DEF wait_queue_timeout_handler
  <1>3. /\ timer' \in [Thread -> {"none", "sleep", "timeout"}]
        /\ \A u \in Thread : timer'[u] = "sleep" <=> timer[u] = "sleep"
    BY <1>1, <1>2, ZenonT(60) DEF OtherTypesOK
  <1>4. CASE state[t] = "BLOCKED" /\ irq' = "INT_RESCHEDULE"
             /\ thread_unblock_from_wait_queue(t, "ERR_TIMED_OUT")
    <2>1. Unblocks(t, blocking_wait_queue[t], "ERR_TIMED_OUT")
      BY <1>2, <1>3, <1>4, ZenonT(60)
         DEF Unblocks, thread_unblock_from_wait_queue, Status
    <2> QED
      BY <2>1, UnblockStep, ZenonT(60)
  <1>5. CASE UNCHANGED <<state, run_queue, run_queue_bitmap, waitVars, irq>>
    <2>1. OtherTypesOK'
      BY <1>1, <1>2, <1>3, <1>5, ZenonT(60) DEF OtherTypesOK, waitVars
    <2>2. /\ state[current_thread] = "RUNNING" /\ current_thread \notin preempted
          /\ pc[current_thread] \notin {"exit_wake", "wake_all"}
      BY <1>2, InterruptedRuns, ZenonT(60)
    <2>3. critical_section_count' =
            OwedWith(frames, depth'[current_thread], pc'[current_thread],
                     current_thread \in preempted') + (IF irq' = "off" THEN 0 ELSE 1)
      BY <1>2, <1>5, ZenonT(60) DEF SchedInv, Balanced, Owed, OwedWith
    <2>4. Stays(frames)
      BY <1>1, <1>2, <1>3, <1>5, <2>1, <2>2, <2>3, ZenonT(60) DEF Stays, waitVars
    <2> QED
      BY <2>4, Stay, ZenonT(60)
  <1> QED
    BY <1>4, <1>5, ZenonT(60) DEF wait_queue_timeout_handler

\* The return of a preempted thread from its interrupt keeps the invariant.
LEMMA IrqReturnStep ==
  ASSUME NEW frames, FramesOK(frames), SchedInv(frames),
         NEW t \in Thread, irq_return(t)
  PROVE  SchedInv(frames)' /\ HandsOver /\ After(state)
  <1>1. /\ OtherTypesOK /\ remaining_quantum \in [Thread -> 0 .. QUANTUM]
        /\ critical_section_count \in Int /\ depth \in [Thread -> Nat]
        /\ pc \in [Thread -> DOMAIN frames]
    BY Before, ZenonT(60)
  <1>2. current_thread = t /\ t \in preempted /\ irq = "off"
    BY ZenonT(60) DEF irq_return
  <1>3. state[t] = "RUNNING" /\ pc[t] \notin {"exit_wake", "wake_all"}
    BY <1>2, InterruptedRuns, ZenonT(60)
  <1>4. critical_section_count = depth[t] + frames[pc[t]] + 2 + 0
    BY <1>2, ZenonT(60) DEF SchedInv, Balanced, Owed
  <1>5. /\ preempted' = preempted \ {t}
        /\ critical_section_count' = critical_section_count - 2
        /\ UNCHANGED <<current_thread, state, remaining_quantum, run_queue,
                       run_queue_bitmap, saved_critical_section_count, waitVars,
                       timeVars, priority, depth, irq, pc>>
    BY ZenonT(60) DEF irq_return
  <1>6. OtherTypesOK'
    BY <1>1, <1>5, ZenonT(60) DEF OtherTypesOK, waitVars, timeVars
  <1>7. /\ critical_section_count' \in Int
        /\ critical_section_count' = OwedWith(frames, depth'[t], pc'[t], t \in preempted') + 0
    BY <1>1, <1>4, <1>5 DEF OwedWith, FramesOK
  <1>8. \A u \in Thread : u # t => (u \in preempted' <=> u \in preempted)
    BY <1>5, ZenonT(60)
  <1>9. Stays(frames)
    BY <1>1, <1>2, <1>3, <1>5, <1>6, <1>7, <1>8, ZenonT(60) DEF Stays, waitVars, timeVars, OwedWith
  <1> QED
    BY <1>9, Stay, ZenonT(60)

\* The end of timer_tick(), with or without a preemption, keeps the invariant.
LEMMA IrqExitStep ==
  ASSUME NEW frames, FramesOK(frames), SchedInv(frames), irq_exit
  PROVE  SchedInv(frames)' /\ HandsOver /\ After(state)
  <1> DEFINE me == current_thread
             q == ticked_quantum
             st == [state EXCEPT ![me] = "READY"]
             rq == preempt(RunQueue, me, q[me])
  <1>1. /\ OtherTypesOK /\ me \in Thread /\ IdleThread \in Thread
        /\ state \in StateType /\ priority \in [Thread -> Priority]
        /\ RunQueue \in RunQueueType /\ RunQueueOK(state, priority, RunQueue)
        /\ remaining_quantum \in [Thread -> 0 .. QUANTUM]
        /\ critical_section_count \in Int /\ depth \in [Thread -> Nat]
        /\ pc \in [Thread -> DOMAIN frames]
        /\ WaitQueueOK(state, blocking_wait_queue, wait_list, wait_count)
        /\ \A u \in Thread : timer[u] = "sleep" <=> state[u] = "SLEEPING"
    BY Before, ZenonT(60)
  <1>2. irq # "off" /\ irq' = "off" /\ UNCHANGED <<waitVars, timeVars, priority, depth, pc>>
    BY ZenonT(60) DEF irq_exit
  <1>3. /\ state[me] = "RUNNING" /\ me \notin preempted
        /\ pc[me] \notin {"exit_wake", "wake_all"}
    BY <1>2, InterruptedRuns, ZenonT(60)
  <1>4. critical_section_count = depth[me] + frames[pc[me]] + 0 + 1
    BY <1>2, <1>3, ZenonT(60) DEF SchedInv, Balanced, Owed
  <1>5. q \in [Thread -> 0 .. QUANTUM]
    BY <1>1, SchedulerAssumption DEF ticked_quantum
  <1>6. depth[me] \in Nat /\ frames[pc[me]] \in Nat
    BY <1>1, ZenonT(60) DEF FramesOK
  <1> HIDE DEF q
  <1>7. CASE /\ thread_resched(st, q, rq, critical_section_count + 1)
             /\ preempted' = preempted \union {me}
    <2>1. st \in StateType /\ \A u \in Thread : st[u] = IF u = me THEN "READY" ELSE state[u]
      BY <1>1, ZenonT(60) DEF StateType, ThreadState
    <2>2. rq \in RunQueueType /\ RunQueueOK(st, priority, rq)
      BY <1>1, <1>3, InsertHead, InsertTail, ZenonT(60) DEF preempt
    <2> HIDE DEF st, rq
    <2>3. OtherTypesOK' /\ UNCHANGED <<priority, depth, pc, timer, wait_list,
                                       wait_count, blocking_wait_queue>>
      BY <1>1, <1>2, <1>7, ZenonT(60) DEF OtherTypesOK, waitVars, timeVars
    <2>4. WaitQueueOK(st, blocking_wait_queue', wait_list', wait_count')
      <3>1. \A u \in Thread : \/ st[u] = state[u]
                              \/ st[u] # "BLOCKED" /\ state[u] # "BLOCKED"
        BY <1>3, <2>1, ZenonT(60)
      <3> QED
        BY <3>1, <1>1, <2>3, WaitQueueFrame, ZenonT(60)
    <2>5. \A u \in Thread : timer'[u] = "sleep" <=> st[u] = "SLEEPING"
      BY <1>1, <1>3, <2>1, <2>3, ZenonT(60)
    <2>6. st[IdleThread] = "READY" /\ \A u \in Thread : st[u] # "RUNNING"
      BY <1>1, <2>1, ZenonT(60) DEF SchedInv, OneRunningThread
    <2>7. \A u \in Thread : u # current_thread =>
             /\ st[u] # "FREE" => state[u] # "FREE"
             /\ pc'[u] = pc[u] /\ depth'[u] = depth[u]
             /\ u \in preempted' <=> u \in preempted
      BY <1>7, <2>1, <2>3, ZenonT(60)
    <2>8. /\ critical_section_count + 1 \in Int
          /\ critical_section_count + 1 =
               OwedWith(frames, depth'[me], pc'[me], me \in preempted')
      <3> DEFINE owed == OwedWith(frames, depth'[me], pc'[me], me \in preempted')
      <3>1. depth' = depth /\ pc' = pc /\ me \in preempted'
        BY <1>7, <2>3, ZenonT(60)
      <3>2. owed = depth[me] + frames[pc[me]] + 2
        BY <3>1, ZenonT(60) DEF OwedWith
      <3> HIDE DEF owed, me
      <3>3. critical_section_count + 1 \in Int /\ critical_section_count + 1 = owed
        BY <1>4, <1>6, <3>2, CountSums, ZenonT(60)
      <3> QED
        BY <3>3, ZenonT(60) DEF owed
    <2>9. /\ RunQueueOK(st, priority', rq) /\ pc' \in [Thread -> DOMAIN frames]
          /\ pc'[me] \notin {"exit_wake", "wake_all"}
      BY <1>1, <1>3, <2>2, <2>3, ZenonT(60)
    <2>10. SchedInv(frames)' /\ HandsOver /\ After(st)
      BY <1>2, <1>5, <1>7, <2>1, <2>2, <2>3, <2>4, <2>5, <2>6, <2>7, <2>8, <2>9, Switch, ZenonT(60)
    <2>11. After(state)
      BY <1>3, <2>1, <2>10, ZenonT(60) DEF After, Alive
    <2> QED
      BY <2>10, <2>11, ZenonT(60)
  <1>8. CASE /\ remaining_quantum' = q
             /\ critical_section_count' = critical_section_count - 1
             /\ UNCHANGED <<current_thread, state, run_queue, run_queue_bitmap,
                            saved_critical_section_count, preempted>>
    <2>1. OtherTypesOK'
      BY <1>1, <1>2, <1>8, ZenonT(60) DEF OtherTypesOK, waitVars, timeVars
    <2>2. /\ critical_section_count' \in Int
          /\ critical_section_count' = OwedWith(frames, depth'[me], pc'[me], me \in preempted') + 0
      <3>1. depth' = depth /\ pc' = pc /\ me \notin preempted'
        BY <1>2, <1>3, <1>8, ZenonT(60)
      <3> DEFINE owed == OwedWith(frames, depth'[me], pc'[me], me \in preempted')
      <3>2. owed = depth[me] + frames[pc[me]] + 0
        BY <3>1, ZenonT(60) DEF OwedWith
      <3>3. critical_section_count' = critical_section_count - 1
        BY <1>8, ZenonT(60)
      <3> HIDE DEF owed, me
      <3>4. critical_section_count' \in Int /\ critical_section_count' = owed + 0
        BY <1>4, <1>6, <3>2, <3>3, CountSums, ZenonT(60)
      <3> QED
        BY <3>4, ZenonT(60) DEF owed
    <2>3. Stays(frames)
      BY <1>1, <1>2, <1>3, <1>5, <1>8, <2>1, <2>2, ZenonT(60) DEF Stays, waitVars, timeVars
    <2> QED
      BY <2>3, Stay, ZenonT(60)
  <1> QED
    BY <1>7, <1>8, ZenonT(60) DEF irq_exit, q

\* The interrupt keeps the invariant.
LEMMA IrqStep ==
  ASSUME NEW frames, FramesOK(frames), SchedInv(frames), Irq
  PROVE  SchedInv(frames)' /\ HandsOver
  BY IrqEnterStep, IrqExitStep, SleepHandlerStep, TimeoutHandlerStep, IrqReturnStep, ZenonT(60)
     DEF Irq

-----------------------------------------------------------------------------
(* Calls on wait queues                                                    *)

\* A caller of wait_queue_block() in its own critical section.
LEMMA BlockStep ==
  ASSUME NEW frames, FramesOK(frames), SchedInv(frames),
         NEW t \in Thread, Calls(t), NEW q \in WaitQueue, NEW timeout \in Timeout,
         wait_queue_block(q, timeout, critical_section_count + 1),
         NEW label \in DOMAIN frames \ {"exit_wake", "wake_all"},
         frames[label] = 2, goto(t, label),
         UNCHANGED ctlVars
  PROVE  SchedInv(frames)' /\ HandsOver /\ After([state EXCEPT ![t] = "BLOCKED"])
  <1>1. t # IdleThread /\ Running(t) /\ pc[t] = "user" /\ current_thread = t
    BY ZenonT(60) DEF Calls, InUser, Running
  <1>2. state[t] = "RUNNING"
    BY <1>1, RunningFacts, ZenonT(60)
  <1>3. /\ OtherTypesOK /\ state \in StateType /\ critical_section_count \in Int
        /\ WaitQueueOK(state, blocking_wait_queue, wait_list, wait_count)
        /\ wait_list \in WaitListType /\ wait_count \in WaitCountType
        /\ blocking_wait_queue \in BlockingType
        /\ \A u \in Thread : timer[u] = "sleep" <=> state[u] = "SLEEPING"
    BY Before, ZenonT(60)
  <1>4. /\ wait_list' = [wait_list EXCEPT ![q] = list_add_tail(@, t)]
        /\ wait_count' = [wait_count EXCEPT ![q] = @ + 1]
        /\ blocking_wait_queue' = [blocking_wait_queue EXCEPT ![t] = q]
        /\ wait_queue_block_ret' = [wait_queue_block_ret EXCEPT ![t] = "NO_ERROR"]
        /\ block_timeout' = [block_timeout EXCEPT ![t] = timeout]
        /\ timer' = IF timeout # "INFINITE" THEN [timer EXCEPT ![t] = "timeout"]
                    ELSE timer
        /\ thread_resched([state EXCEPT ![t] = "BLOCKED"], remaining_quantum,
                          RunQueue, (critical_section_count + 1) + 1)
    BY <1>1, ZenonT(60) DEF wait_queue_block
  <1>5. (critical_section_count + 1) + 1 = critical_section_count + 2
    BY <1>3
  <1>6. /\ wait_list' \in WaitListType /\ wait_count' \in WaitCountType
        /\ blocking_wait_queue' \in BlockingType
        /\ WaitQueueOK([state EXCEPT ![t] = "BLOCKED"],
                       blocking_wait_queue', wait_list', wait_count')
    <2> DEFINE nwl == [wait_list EXCEPT ![q] = list_add_tail(@, t)]
               nwc == [wait_count EXCEPT ![q] = @ + 1]
               nbq == [blocking_wait_queue EXCEPT ![t] = q]
    <2>1. /\ nwl \in WaitListType /\ nwc \in WaitCountType /\ nbq \in BlockingType
          /\ WaitQueueOK([state EXCEPT ![t] = "BLOCKED"], nbq, nwl, nwc)
      BY <1>2, <1>3, Enqueue, ZenonT(60)
    <2> QED
      BY <2>1, <1>4, ZenonT(60)
  <1>7. /\ timer' \in [Thread -> {"none", "sleep", "timeout"}]
        /\ timer'[t] # "sleep"
        /\ \A u \in Thread : u # t => timer'[u] = timer[u]
    BY <1>2, <1>3, <1>4, ZenonT(60) DEF OtherTypesOK
  <1>8. OtherTypesOK' /\ UNCHANGED <<priority, depth, preempted, irq>>
    BY <1>3, <1>4, <1>6, <1>7, ZenonT(60) DEF OtherTypesOK, ctlVars, Status
  <1>9. GivesUp(frames, t, label, 2, "BLOCKED")
    BY <1>1, <1>4, <1>5, <1>6, <1>7, <1>8 DEF GivesUp, goto, FramesOK
  <1> QED
    BY <1>9, GiveUp, ZenonT(60)

\* One turn of a loop that wakes the threads of a queue.
LEMMA WakeHeadStep ==
  ASSUME NEW frames, FramesOK(frames), SchedInv(frames), NEW q \in WaitQueue,
         NEW err \in Status, wait_list[q] # <<>>, wake_head(q, err),
         UNCHANGED <<current_thread, remaining_quantum, critical_section_count,
                     saved_critical_section_count, timeVars, ctlVars, pc>>
  PROVE  SchedInv(frames)' /\ HandsOver /\ After([state EXCEPT ![Head(wait_list[q])] = "READY"])
  <1> DEFINE t == Head(wait_list[q])
  <1>1. t \in Thread /\ state[t] = "BLOCKED" /\ blocking_wait_queue[t] = q
    <2>1. /\ state \in StateType /\ blocking_wait_queue \in BlockingType
          /\ wait_list \in WaitListType /\ wait_count \in WaitCountType
          /\ WaitQueueOK(state, blocking_wait_queue, wait_list, wait_count)
      BY Before, ZenonT(60)
    <2> QED
      BY <2>1, WaitHead, ZenonT(60)
  <1>2. dequeue(q, t, err) /\ make_ready(t)
    BY ZenonT(60) DEF wake_head
  <1> HIDE DEF t
  <1>3. OtherTypesOK
    BY Before, ZenonT(60)
  <1>4. Unblocks(t, q, err)
    BY <1>1, <1>2, <1>3, ZenonT(60) DEF Unblocks, timeVars, ctlVars, OtherTypesOK
  <1>5. SchedInv(frames)' /\ HandsOver /\ After([state EXCEPT ![t] = "READY"])
    BY <1>1, <1>4, UnblockStep, ZenonT(60)
  <1> QED
    BY <1>5, ZenonT(60) DEF t

\* wait_queue_wake_one() with a reschedule.
LEMMA WakeOneStep ==
  ASSUME NEW frames, FramesOK(frames), SchedInv(frames),
         NEW me \in Thread, Calls(me), NEW q \in WaitQueue, NEW err \in Status,
         wait_list[q] # <<>>,
         wake_one_resched(q, err, critical_section_count + 1),
         goto(me, "wake"), UNCHANGED <<timeVars, ctlVars>>
  PROVE  SchedInv(frames)' /\ HandsOver
  <1> DEFINE t == Head(wait_list[q])
             st1 == [state EXCEPT ![me] = "READY"]
             st == [st1 EXCEPT ![t] = "READY"]
             rq1 == insert_in_run_queue_head(RunQueue, me)
             rq == insert_in_run_queue_head(rq1, t)
  <1>1. Running(me) /\ pc[me] = "user" /\ current_thread = me
    BY ZenonT(60) DEF Calls, InUser, Running
  <1>2. state[me] = "RUNNING"
    BY <1>1, RunningFacts, ZenonT(60)
  <1>3. /\ OtherTypesOK
        /\ state \in StateType /\ priority \in [Thread -> Priority]
        /\ RunQueue \in RunQueueType /\ RunQueueOK(state, priority, RunQueue)
        /\ remaining_quantum \in [Thread -> 0 .. QUANTUM]
        /\ WaitQueueOK(state, blocking_wait_queue, wait_list, wait_count)
        /\ wait_list \in WaitListType /\ wait_count \in WaitCountType
        /\ blocking_wait_queue \in BlockingType
        /\ \A u \in Thread : timer[u] = "sleep" <=> state[u] = "SLEEPING"
    BY Before, ZenonT(60)
  <1>4. t \in Thread /\ state[t] = "BLOCKED" /\ blocking_wait_queue[t] = q
    <2>1. /\ state \in StateType /\ blocking_wait_queue \in BlockingType
          /\ wait_list \in WaitListType /\ wait_count \in WaitCountType
          /\ WaitQueueOK(state, blocking_wait_queue, wait_list, wait_count)
      BY <1>3, ZenonT(60)
    <2> QED
      BY <2>1, WaitHead, ZenonT(60)
  <1>5. /\ dequeue(q, t, err)
        /\ thread_resched(st, remaining_quantum, rq, critical_section_count + 1)
    BY <1>1, ZenonT(60) DEF wake_one_resched
  <1> HIDE DEF t
  <1>6. /\ st1 \in StateType
        /\ \A u \in Thread : st1[u] = IF u = me THEN "READY" ELSE state[u]
    BY <1>3, ZenonT(60) DEF StateType, ThreadState
  <1>7. rq1 \in RunQueueType /\ RunQueueOK(st1, priority, rq1)
    BY <1>2, <1>3, InsertHead, ZenonT(60)
  <1> HIDE DEF st1, rq1
  <1>8. /\ st \in StateType
        /\ \A u \in Thread : st[u] = IF u = t \/ u = me THEN "READY" ELSE state[u]
    BY <1>4, <1>6, ZenonT(60) DEF StateType, ThreadState
  <1>9. rq \in RunQueueType /\ RunQueueOK(st, priority, rq)
    <2>1. st1[t] # "READY"
      BY <1>2, <1>4, <1>6, ZenonT(60)
    <2> QED
      BY <2>1, <1>3, <1>4, <1>6, <1>7, InsertHead, ZenonT(60)
  <1> HIDE DEF st, rq
  <1>10. /\ wait_list' = [wait_list EXCEPT ![q] = list_delete(@, t)]
         /\ wait_count' = [wait_count EXCEPT ![q] = @ - 1]
         /\ blocking_wait_queue' = [blocking_wait_queue EXCEPT ![t] = NULL]
         /\ wait_queue_block_ret' = [wait_queue_block_ret EXCEPT ![t] = err]
    BY <1>5, ZenonT(60) DEF dequeue
  <1>11. /\ wait_list' \in WaitListType /\ wait_count' \in WaitCountType
         /\ blocking_wait_queue' \in BlockingType
         /\ WaitQueueOK(st, blocking_wait_queue', wait_list', wait_count')
    <2>1. st[t] # "BLOCKED" /\ \A u \in Thread : u # t =>
            \/ st[u] = state[u]
            \/ st[u] # "BLOCKED" /\ state[u] # "BLOCKED"
      BY <1>2, <1>4, <1>8, ZenonT(60)
    <2> DEFINE nwl == [wait_list EXCEPT ![q] = list_delete(@, t)]
               nwc == [wait_count EXCEPT ![q] = @ - 1]
               nbq == [blocking_wait_queue EXCEPT ![t] = NULL]
    <2>2. /\ nwl \in WaitListType /\ nwc \in WaitCountType /\ nbq \in BlockingType
          /\ WaitQueueOK(st, nbq, nwl, nwc)
      <3>1. WaitOK(state, blocking_wait_queue, wait_list, wait_count)
        BY <1>3, ZenonT(60) DEF WaitOK
      <3>2. Unblocked(state, st, t)
        BY <2>1, <1>4, <1>8, ZenonT(60) DEF Unblocked
      <3>3. WaitOK(st, nbq, nwl, nwc)
        BY <3>1, <3>2, <1>4, DequeueOK, ZenonT(60)
      <3> QED
        BY <3>3, ZenonT(60) DEF WaitOK
    <2> QED
      BY <2>2, <1>10, ZenonT(60)
  <1>12. OtherTypesOK' /\ UNCHANGED <<priority, depth, preempted, irq, timer>>
    BY <1>3, <1>10, <1>11, ZenonT(60) DEF OtherTypesOK, timeVars, ctlVars
  <1>13. \A u \in Thread : timer'[u] = "sleep" <=> st[u] = "SLEEPING"
    BY <1>2, <1>3, <1>4, <1>8, <1>12, ZenonT(60)
  <1>14. SwitchesTo(frames, me, "wake", 1, st, rq, remaining_quantum)
    <2>1. st[me] = "READY" /\ \A u \in Thread : u # me =>
            \/ st[u] = state[u]
            \/ st[u] = "READY" /\ state[u] \in {"BLOCKED", "SUSPENDED"}
      BY <1>4, <1>8, ZenonT(60)
    <2> QED
      BY <2>1, <1>1, <1>3, <1>5, <1>8, <1>9, <1>11, <1>12, <1>13
         DEF SwitchesTo, FramesOK, goto
  <1> QED
    BY <1>14, SwitchFrom, ZenonT(60)

\* The start of wait_queue_wake_all() with a reschedule.
LEMMA WakeAllBeginStep ==
  ASSUME NEW frames, FramesOK(frames), SchedInv(frames),
         "wake_all" \in DOMAIN frames,
         NEW me \in Thread, Calls(me), wake_all_begin,
         critical_section_count' = critical_section_count + 1,
         goto(me, "wake_all"), UNCHANGED <<waitVars, timeVars, ctlVars>>
  PROVE  SchedInv(frames)' /\ HandsOver
  <1>1. Running(me) /\ pc[me] = "user" /\ current_thread = me
        /\ irq = "off" /\ me \notin preempted
    BY ZenonT(60) DEF Calls, InUser, Running
  <1>2. /\ state[me] = "RUNNING"
        /\ critical_section_count = OwedWith(frames, depth[me], pc[me], FALSE)
    BY <1>1, RunningFacts, ZenonT(60)
  <1>3. /\ RunTypesOK /\ OtherTypesOK
        /\ state \in StateType /\ priority \in [Thread -> Priority]
        /\ RunQueue \in RunQueueType /\ RunQueueOK(state, priority, RunQueue)
        /\ critical_section_count \in Int
        /\ pc \in [Thread -> DOMAIN frames] /\ depth \in [Thread -> Nat]
        /\ WaitQueueOK(state, blocking_wait_queue, wait_list, wait_count)
        /\ \A u \in Thread : timer[u] = "sleep" <=> state[u] = "SLEEPING"
    BY Before, ZenonT(60)
  <1>4. /\ state' = [state EXCEPT ![me] = "READY"]
        /\ RunQueue' = insert_in_run_queue_head(RunQueue, me)
        /\ UNCHANGED <<current_thread, remaining_quantum, saved_critical_section_count>>
    BY <1>1, ZenonT(60) DEF wake_all_begin, make_ready, set_run_queue, RunQueue,
                insert_in_run_queue_head
  <1>5. /\ state' \in StateType
        /\ \A u \in Thread : state'[u] = IF u = me THEN "READY" ELSE state[u]
    BY <1>3, <1>4, ZenonT(60) DEF StateType, ThreadState
  <1>6. RunQueue' \in RunQueueType /\ RunQueueOK(state', priority, RunQueue')
    BY <1>2, <1>3, <1>4, InsertHead, ZenonT(60)
  <1>7. OtherTypesOK' /\ UNCHANGED <<priority, depth, preempted, irq, timer,
                                     wait_list, wait_count, blocking_wait_queue>>
    BY <1>3, ZenonT(60) DEF OtherTypesOK, waitVars, timeVars, ctlVars
  <1>8. /\ pc' \in [Thread -> DOMAIN frames] /\ pc'[me] = "wake_all"
        /\ \A u \in Thread : u # me => pc'[u] = pc[u]
    BY <1>3, ZenonT(60) DEF goto
  <1>9. RunTypesOK'
    BY <1>3, <1>4, <1>5, <1>6 DEF RunTypesOK
  <1>10. RunQueueCoherent'
    BY <1>6, <1>7, ZenonT(60) DEF RunQueueCoherent
  <1>11. WaitQueueCoherent'
    <2>1. \A u \in Thread : \/ state'[u] = state[u]
                            \/ state'[u] # "BLOCKED" /\ state[u] # "BLOCKED"
      BY <1>2, <1>5, ZenonT(60)
    <2>2. WaitQueueOK(state', blocking_wait_queue, wait_list, wait_count)
      BY <2>1, <1>3, WaitQueueFrame, ZenonT(60)
    <2> QED
      BY <2>2, <1>7, ZenonT(60) DEF WaitQueueCoherent
  <1>12. OneRunningThread'
    BY <1>1, <1>4, <1>5, SchedulerAssumption, ZenonT(60) DEF SchedInv, OneRunningThread
  <1>13. CurrentRuns' /\ OneInterruptFrame'
    <2>1. /\ current_thread' = me /\ state'[me] = "READY" /\ pc'[me] = "wake_all"
          /\ irq' = "off" /\ me \notin preempted'
      BY <1>1, <1>4, <1>5, <1>7, <1>8, ZenonT(60)
    <2>2. \A u \in Thread : u # me => pc'[u] \notin {"exit_wake", "wake_all"}
      BY <1>1, <1>8, ZenonT(60) DEF SchedInv, CurrentRuns
    <2> QED
      BY <2>1, <2>2, ZenonT(60) DEF CurrentRuns, OneInterruptFrame
  <1>14. SleepTimers'
    BY <1>2, <1>3, <1>5, <1>7, ZenonT(60) DEF SleepTimers
  <1>15. Balanced(frames)'
    <2>1. critical_section_count' =
            OwedWith(frames, depth'[current_thread], pc'[current_thread],
                     current_thread \in preempted') + (IF irq' = "off" THEN 0 ELSE 1)
      <3> DEFINE owed == OwedWith(frames, depth'[me], pc'[me], me \in preempted')
      <3>1. depth[me] \in Nat /\ frames["user"] = 0 /\ frames["wake_all"] = 1
        BY <1>3, ZenonT(60) DEF FramesOK
      <3>2. owed = depth[me] + frames["wake_all"] + 0
        BY <1>1, <1>7, <1>8, ZenonT(60) DEF OwedWith
      <3>3. critical_section_count = depth[me] + frames["user"] + 0
        BY <1>1, <1>2, ZenonT(60) DEF OwedWith
      <3>4. irq' = "off" /\ critical_section_count' = critical_section_count + 1
        BY <1>1, <1>7, ZenonT(60)
      <3> HIDE DEF owed
      <3>5. critical_section_count' = owed + (IF irq' = "off" THEN 0 ELSE 1)
        BY <3>1, <3>2, <3>3, <3>4, CountSums, ZenonT(60)
      <3> QED
        BY <3>5, <1>1, ZenonT(60) DEF owed
    <2>2. \A u \in Thread : u # current_thread =>
            /\ state'[u] # "FREE" => state[u] # "FREE"
            /\ pc'[u] = pc[u] /\ depth'[u] = depth[u]
            /\ u \in preempted' <=> u \in preempted
      BY <1>1, <1>5, <1>7, <1>8, ZenonT(60)
    <2>3. Balanced(frames) /\ UNCHANGED <<current_thread, saved_critical_section_count>>
      BY <1>4, ZenonT(60) DEF SchedInv
    <2> QED
      BY <2>1, <2>2, <2>3, <1>3, StayBalanced, ZenonT(60)
  <1>16. HandsOver
    BY <1>4, ZenonT(60) DEF HandsOver
  <1> QED
    BY <1>7, <1>8, <1>9, <1>10, <1>11, <1>12, <1>13, <1>14, <1>15, <1>16, Types, ZenonT(60) DEF SchedInv

\* The switch at the end of wait_queue_wake_all() and of thread_exit().
LEMMA WakeAllEndStep ==
  ASSUME NEW frames, FramesOK(frames), SchedInv(frames),
         NEW me \in Thread, Running(me), pc[me] \in {"exit_wake", "wake_all"}, wake_all_end,
         NEW label \in DOMAIN frames \ {"exit_wake", "wake_all"},
         frames[label] = 1, goto(me, label),
         UNCHANGED <<waitVars, timeVars, ctlVars>>
  PROVE  SchedInv(frames)' /\ HandsOver /\ After(state)
  <1>1. current_thread = me /\ irq = "off" /\ me \notin preempted
    BY ZenonT(60) DEF Running
  <1>2. /\ OtherTypesOK /\ IdleThread \in Thread
        /\ state \in StateType
        /\ RunQueue \in RunQueueType /\ RunQueueOK(state, priority, RunQueue)
        /\ remaining_quantum \in [Thread -> 0 .. QUANTUM]
        /\ critical_section_count \in Int
        /\ pc \in [Thread -> DOMAIN frames] /\ depth \in [Thread -> Nat]
        /\ WaitQueueOK(state, blocking_wait_queue, wait_list, wait_count)
        /\ \A u \in Thread : timer[u] = "sleep" <=> state[u] = "SLEEPING"
    BY Before, ZenonT(60)
  <1>3. state[me] # "FREE" /\ \A u \in Thread : state[u] # "RUNNING"
    <2>1. \A u \in Thread : state[u] = "RUNNING" => u = me
      BY <1>1, ZenonT(60) DEF SchedInv, OneRunningThread
    <2>2. state[me] \in {"READY", "DEATH"}
      BY <1>1, ZenonT(60) DEF SchedInv, CurrentRuns
    <2> QED
      BY <2>1, <2>2, ZenonT(60)
  <1>4. /\ pc' \in [Thread -> DOMAIN frames] /\ pc'[me] = label
        /\ \A u \in Thread : u # me => pc'[u] = pc[u]
    BY <1>2, ZenonT(60) DEF goto, FramesOK
  <1>5. OtherTypesOK' /\ UNCHANGED <<priority, depth, preempted, irq, timer,
                                     wait_list, wait_count, blocking_wait_queue>>
    BY <1>2, ZenonT(60) DEF OtherTypesOK, waitVars, timeVars, ctlVars
  <1>6. critical_section_count = OwedWith(frames, depth'[me], pc'[me], me \in preempted')
    <2>1. critical_section_count = depth[me] + frames[pc[me]] + 0 + 0
      BY <1>1, ZenonT(60) DEF SchedInv, Balanced, Owed
    <2>2. frames[pc[me]] = 1 /\ frames[pc'[me]] = 1 /\ depth[me] \in Nat
      BY <1>2, <1>4, ZenonT(60) DEF FramesOK
    <2> DEFINE owed == OwedWith(frames, depth'[me], pc'[me], me \in preempted')
    <2>3. owed = depth[me] + 1 + 0
      BY <2>2, <1>1, <1>5, ZenonT(60) DEF OwedWith
    <2> HIDE DEF owed
    <2>4. critical_section_count = owed
      BY <2>1, <2>2, <2>3, CountSums, ZenonT(60)
    <2> QED
      BY <2>4, ZenonT(60) DEF owed
  <1>7. state[IdleThread] = "READY"
    BY <1>2, <1>3, ZenonT(60) DEF SchedInv, OneRunningThread
  <1>8. thread_resched(state, remaining_quantum, RunQueue, critical_section_count)
    BY ZenonT(60) DEF wake_all_end
  <1>9. /\ RunQueueOK(state, priority', RunQueue)
        /\ WaitQueueOK(state, blocking_wait_queue', wait_list', wait_count')
        /\ irq' = "off" /\ pc'[current_thread] \notin {"exit_wake", "wake_all"}
        /\ \A u \in Thread : timer'[u] = "sleep" <=> state[u] = "SLEEPING"
        /\ \A u \in Thread : u # current_thread =>
             /\ state[u] # "FREE" => state[u] # "FREE"
             /\ pc'[u] = pc[u] /\ depth'[u] = depth[u]
             /\ u \in preempted' <=> u \in preempted
        /\ critical_section_count =
             OwedWith(frames, depth'[current_thread], pc'[current_thread],
                      current_thread \in preempted')
    BY <1>1, <1>2, <1>4, <1>5, <1>6, ZenonT(60)
  <1> QED
    BY <1>2, <1>3, <1>4, <1>5, <1>7, <1>8, <1>9, Switch, ZenonT(60)

-----------------------------------------------------------------------------
(* Threads that begin and end                                              *)

\* thread_exit() of a thread that is joined, up to the loop that wakes.
LEMMA ExitStep ==
  ASSUME NEW frames, FramesOK(frames), SchedInv(frames),
         "exit_wake" \in DOMAIN frames,
         NEW me \in Thread, Calls(me), state' = [state EXCEPT ![me] = "DEATH"],
         critical_section_count' = critical_section_count + 1,
         goto(me, "exit_wake"),
         UNCHANGED <<current_thread, remaining_quantum, run_queue, run_queue_bitmap,
                     saved_critical_section_count, waitVars, timeVars, ctlVars>>
  PROVE  SchedInv(frames)' /\ HandsOver
  <1>1. /\ Running(me) /\ pc[me] = "user" /\ current_thread = me /\ me # IdleThread
        /\ irq = "off" /\ me \notin preempted
    BY ZenonT(60) DEF Calls, InUser, Running
  <1>2. /\ state[me] = "RUNNING"
        /\ critical_section_count = OwedWith(frames, depth[me], pc[me], FALSE)
    BY <1>1, RunningFacts, ZenonT(60)
  <1>3. /\ RunTypesOK /\ OtherTypesOK
        /\ state \in StateType /\ priority \in [Thread -> Priority]
        /\ RunQueue \in RunQueueType /\ RunQueueOK(state, priority, RunQueue)
        /\ critical_section_count \in Int
        /\ pc \in [Thread -> DOMAIN frames] /\ depth \in [Thread -> Nat]
        /\ WaitQueueOK(state, blocking_wait_queue, wait_list, wait_count)
        /\ \A u \in Thread : timer[u] = "sleep" <=> state[u] = "SLEEPING"
    BY Before, ZenonT(60)
  <1>4. /\ state' \in StateType
        /\ \A u \in Thread : state'[u] = IF u = me THEN "DEATH" ELSE state[u]
    BY <1>3, ZenonT(60) DEF StateType, ThreadState
  <1>5. OtherTypesOK' /\ UNCHANGED <<priority, depth, preempted, irq, timer,
                                     wait_list, wait_count, blocking_wait_queue>>
    BY <1>3, ZenonT(60) DEF OtherTypesOK, waitVars, timeVars, ctlVars
  <1>6. /\ pc' \in [Thread -> DOMAIN frames] /\ pc'[me] = "exit_wake"
        /\ \A u \in Thread : u # me => pc'[u] = pc[u]
    BY <1>3, ZenonT(60) DEF goto
  <1>7. RunTypesOK'
    BY <1>3, <1>4 DEF RunTypesOK, RunQueue
  <1>8. RunQueueCoherent'
    <2>1. \A u \in Thread : \/ state'[u] = state[u] /\ priority[u] = priority[u]
                            \/ state'[u] # "READY" /\ state[u] # "READY"
      BY <1>2, <1>4
    <2>2. RunQueueOK(state', priority, RunQueue)
      BY <2>1, <1>3, <1>4, RunQueueFrame, ZenonT(60)
    <2> QED
      BY <2>2, <1>5, ZenonT(60) DEF RunQueueCoherent, RunQueue
  <1>9. WaitQueueCoherent'
    <2>1. \A u \in Thread : \/ state'[u] = state[u]
                            \/ state'[u] # "BLOCKED" /\ state[u] # "BLOCKED"
      BY <1>2, <1>4
    <2>2. WaitQueueOK(state', blocking_wait_queue, wait_list, wait_count)
      BY <2>1, <1>3, WaitQueueFrame, ZenonT(60)
    <2> QED
      BY <2>2, <1>5, ZenonT(60) DEF WaitQueueCoherent
  <1>10. OneRunningThread'
    BY <1>1, <1>4, SchedulerAssumption, ZenonT(60) DEF SchedInv, OneRunningThread
  <1>11. CurrentRuns' /\ OneInterruptFrame'
    <2>1. /\ current_thread' = me /\ state'[me] = "DEATH" /\ pc'[me] = "exit_wake"
          /\ irq' = "off" /\ me \notin preempted'
      BY <1>1, <1>4, <1>5, <1>6, ZenonT(60)
    <2>2. \A u \in Thread : u # me => pc'[u] \notin {"exit_wake", "wake_all"}
      BY <1>1, <1>6, ZenonT(60) DEF SchedInv, CurrentRuns
    <2> QED
      BY <2>1, <2>2, ZenonT(60) DEF CurrentRuns, OneInterruptFrame
  <1>12. SleepTimers'
    BY <1>2, <1>3, <1>4, <1>5 DEF SleepTimers
  <1>13. Balanced(frames)'
    <2>1. critical_section_count' =
            OwedWith(frames, depth'[current_thread], pc'[current_thread],
                     current_thread \in preempted') + (IF irq' = "off" THEN 0 ELSE 1)
      <3> DEFINE owed == OwedWith(frames, depth'[me], pc'[me], me \in preempted')
      <3>1. depth[me] \in Nat /\ frames["user"] = 0 /\ frames["exit_wake"] = 1
        BY <1>3, ZenonT(60) DEF FramesOK
      <3>2. owed = depth[me] + frames["exit_wake"] + 0
        BY <1>1, <1>5, <1>6, ZenonT(60) DEF OwedWith
      <3>3. critical_section_count = depth[me] + frames["user"] + 0
        BY <1>1, <1>2, ZenonT(60) DEF OwedWith
      <3>4. irq' = "off" /\ critical_section_count' = critical_section_count + 1
        BY <1>1, <1>5, ZenonT(60)
      <3> HIDE DEF owed
      <3>5. critical_section_count' = owed + (IF irq' = "off" THEN 0 ELSE 1)
        BY <3>1, <3>2, <3>3, <3>4, CountSums, ZenonT(60)
      <3> QED
        BY <3>5, <1>1, ZenonT(60) DEF owed
    <2>2. \A u \in Thread : u # current_thread =>
            /\ state'[u] # "FREE" => state[u] # "FREE"
            /\ pc'[u] = pc[u] /\ depth'[u] = depth[u]
            /\ u \in preempted' <=> u \in preempted
      BY <1>1, <1>4, <1>5, <1>6, ZenonT(60)
    <2>3. Balanced(frames) /\ UNCHANGED <<current_thread, saved_critical_section_count>>
      BY ZenonT(60) DEF SchedInv
    <2> QED
      BY <2>1, <2>2, <2>3, <1>3, StayBalanced, ZenonT(60)
  <1>14. HandsOver
    BY ZenonT(60) DEF HandsOver
  <1> QED
    BY <1>5, <1>6, <1>7, <1>8, <1>9, <1>10, <1>11, <1>12, <1>13, <1>14, Types, ZenonT(60) DEF SchedInv

\* The current thread creates or frees a thread t that does not run: it is in
\* none of the queues before or after, and what it will find saved is right.
Parks(frames, t, x) ==
  /\ Running(current_thread) /\ pc[current_thread] \notin {"exit_wake", "wake_all"}
  /\ t # current_thread /\ state[t] \in {"FREE", "SUSPENDED", "DEATH"}
  /\ x \in {"FREE", "SUSPENDED", "DEATH"} /\ state' = [state EXCEPT ![t] = x]
  /\ OtherTypesOK' /\ pc' \in [Thread -> DOMAIN frames]
  /\ remaining_quantum' \in [Thread -> 0 .. QUANTUM]
  /\ critical_section_count' \in Int
  /\ saved_critical_section_count' \in [Thread -> Int]
  /\ UNCHANGED <<current_thread, run_queue, run_queue_bitmap, wait_list, wait_count,
                 preempted, depth, irq>>
  /\ pc'[current_thread] \notin {"exit_wake", "wake_all"}
  /\ pc'[t] \notin {"exit_wake", "wake_all"}
  /\ \A u \in Thread : timer'[u] = "sleep" <=> timer[u] = "sleep"
  /\ \A u \in Thread : u # t =>
       /\ priority'[u] = priority[u]
       /\ blocking_wait_queue'[u] = blocking_wait_queue[u]
       /\ saved_critical_section_count'[u] = saved_critical_section_count[u]
  /\ \A u \in Thread : u \notin {t, current_thread} => pc'[u] = pc[u]
  /\ x # "FREE" => saved_critical_section_count'[t] =
                     OwedWith(frames, depth[t], pc'[t], t \in preempted)
  /\ critical_section_count' =
       OwedWith(frames, depth[current_thread], pc'[current_thread], FALSE)

\* Such a step keeps the invariant.
LEMMA ParkStep ==
  ASSUME NEW frames, FramesOK(frames), SchedInv(frames), NEW t \in Thread, NEW x,
         Parks(frames, t, x)
  PROVE  SchedInv(frames)' /\ HandsOver
  <1> DEFINE c == current_thread
  <1>1. /\ RunTypesOK /\ OtherTypesOK /\ c \in Thread /\ IdleThread \in Thread
        /\ state \in StateType /\ priority \in [Thread -> Priority]
        /\ RunQueue \in RunQueueType /\ RunQueueOK(state, priority, RunQueue)
        /\ WaitQueueOK(state, blocking_wait_queue, wait_list, wait_count)
        /\ pc \in [Thread -> DOMAIN frames] /\ depth \in [Thread -> Nat]
        /\ \A u \in Thread : timer[u] = "sleep" <=> state[u] = "SLEEPING"
    BY Before, ZenonT(60)
  <1>2. state[c] = "RUNNING" /\ irq = "off" /\ c \notin preempted
    BY <1>1, RunningFacts, ZenonT(60) DEF Parks
  <1>3. /\ state' \in StateType
        /\ \A u \in Thread : state'[u] = IF u = t THEN x ELSE state[u]
    BY <1>1, ZenonT(60) DEF Parks, StateType, ThreadState
  <1>4. RunTypesOK'
    BY <1>1, <1>3, ZenonT(60) DEF Parks, RunTypesOK, RunQueue
  <1>5. RunQueueCoherent'
    <2>1. priority' \in [Thread -> Priority]
      BY ZenonT(60) DEF Parks, OtherTypesOK
    <2>2. \A u \in Thread : \/ state'[u] = state[u] /\ priority'[u] = priority[u]
                            \/ state'[u] # "READY" /\ state[u] # "READY"
      BY <1>3, ZenonT(60) DEF Parks
    <2>3. RunQueueOK(state', priority', RunQueue)
      BY <2>1, <2>2, <1>1, <1>3, RunQueueFrame, ZenonT(60)
    <2> QED
      BY <2>3, ZenonT(60) DEF Parks, RunQueueCoherent, RunQueue
  <1>6. WaitQueueCoherent'
    <2>1. \A u \in Thread :
            \/ state'[u] = state[u] /\ blocking_wait_queue'[u] = blocking_wait_queue[u]
            \/ state'[u] # "BLOCKED" /\ state[u] # "BLOCKED"
      BY <1>3, ZenonT(60) DEF Parks
    <2>2. WaitQueueOK(state', blocking_wait_queue', wait_list, wait_count)
      BY <2>1, <1>1, WaitQueueFrame
    <2> QED
      BY <2>2, ZenonT(60) DEF Parks, WaitQueueCoherent
  <1>7. OneRunningThread'
    BY <1>1, <1>3 DEF Parks, SchedInv, OneRunningThread
  <1>8. CurrentRuns' /\ OneInterruptFrame'
    <2>1. state'[current_thread'] = "RUNNING"
      BY <1>1, <1>2, <1>3, ZenonT(60) DEF Parks
    <2>2. \A u \in Thread : pc'[u] \notin {"exit_wake", "wake_all"}
      BY <1>1, ZenonT(60) DEF Parks, SchedInv, CurrentRuns
    <2> QED
      BY <1>2, <2>1, <2>2, ZenonT(60) DEF Parks, CurrentRuns, OneInterruptFrame
  <1>9. SleepTimers'
    BY <1>1, <1>3 DEF Parks, SleepTimers
  <1>10. Balanced(frames)'
    <2> DEFINE owed(u) == OwedWith(frames, depth'[u], pc'[u], u \in preempted')
    <2>1. Balanced(frames)
      BY ZenonT(60) DEF SchedInv
    <2>2. ASSUME NEW u \in Thread, state'[u] # "FREE", u # c
          PROVE  saved_critical_section_count'[u] = owed(u)
      <3>1. CASE u = t
        BY <2>2, <3>1, <1>3, ZenonT(60) DEF Parks
      <3>2. CASE u # t
        BY <2>1, <2>2, <3>2, <1>3, ZenonT(60) DEF Parks, Balanced, Owed, OwedWith
      <3> QED
        BY <3>1, <3>2, ZenonT(60)
    <2>3. critical_section_count' = owed(c) /\ critical_section_count' \in Int
      BY <1>1, <1>2, ZenonT(60) DEF Parks, OwedWith
    <2> HIDE DEF owed
    <2>4. c = current_thread' /\ irq' = "off"
      BY <1>2, ZenonT(60) DEF Parks
    <2>5. critical_section_count' = owed(c) + (IF irq' = "off" THEN 0 ELSE 1)
      BY <2>3, <2>4
    <2> QED
      BY <2>2, <2>4, <2>5, ZenonT(60) DEF Balanced, Owed, OwedWith, owed
  <1>11. HandsOver
    BY ZenonT(60) DEF Parks, HandsOver
  <1> QED
    BY <1>4, <1>5, <1>6, <1>7, <1>8, <1>9, <1>10, <1>11, Types, ZenonT(60) DEF Parks, SchedInv
=============================================================================
