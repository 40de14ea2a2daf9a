----------------------------- MODULE TimerProofs -----------------------------
(***************************************************************************)
(* What Timer promises, proved for every set of timers, every tick and     *)
(* every latency: the queue stays sorted, a cancelled timer stays          *)
(* cancelled, and, as long as the tick counter does not wrap, a timer      *)
(* fires neither late nor more than a tick and the latency early.          *)
(***************************************************************************)
EXTENDS Timer, TLAPS, NaturalsInduction, WellFoundedInduction, SequenceTheorems

USE SMTT(60), ZenonT(60)

Fields == [scheduled_time : Nat, periodic_time : Nat, delay : Nat, age : Nat,
           waited : Nat, cancelled : BOOLEAN]

\* The queue holds no timer twice, in the order of their times, and no timer
\* that is cancelled; a cancelled timer has no period to be queued again with.
QueueOK(s) ==
  /\ s \in [queue : Seq(Timer), timer : [Timer -> Fields]]
  /\ \A i, j \in 1 .. Len(s.queue) : i < j =>
       /\ s.queue[i] # s.queue[j]
       /\ s.timer[s.queue[i]].scheduled_time <= s.timer[s.queue[j]].scheduled_time
  /\ \A t \in Timer : s.timer[t].cancelled =>
       ~list_in_list(s, t) /\ s.timer[t].periodic_time = 0

\* A timer whose fields are filled in is not queued nor cancelled until its
\* timer_set() goes on.
SettingOK == \A t \in setting :
  ~list_in_list(Timers, t) /\ ~timer[t].cancelled

\* A timer's period is its delay, and no delay is longer than the longest.
DelaysOK(s) == \A t \in Timer :
  s.timer[t].delay <= MaxDelay /\ s.timer[t].periodic_time \in {0, s.timer[t].delay}

QueueInv == TypeOK /\ QueueOK(Timers) /\ SettingOK /\ DelaysOK(Timers)

-----------------------------------------------------------------------------
\* Real time, as the tick counter would show it without granularity.
Now == ticks + phase + (IF pending THEN TICK ELSE 0)

\* The interrupt is late by Latency at most, and the counter has not wrapped.
ClockOK ==
  /\ in_tick => ~pending
  /\ pending => phase <= Latency /\ ticks < Horizon
  /\ ticks < Horizon + TICK

\* The fields of a timer timer_set() is at work on, or is done with: the
\* deadline is not later than the delay asks for, and earlier only by what the
\* tick counter was behind.
DeadlineOK(f) ==
  /\ f.delay > 0
  /\ f.scheduled_time <= Now + f.delay
  /\ f.waited < AgeCap =>
       f.waited + f.scheduled_time + TICK + Latency >= Now + f.delay

\* The fields of a queued timer: it has been queued no longer than since its
\* timer_set() read the clock.
ArmedOK(f) ==
  /\ DeadlineOK(f)
  /\ f.age + f.scheduled_time <= Now + f.delay
  /\ f.age < f.delay + TICK + Latency

\* A timer that is past its deadline has been queued since the last tick.
PastDeadlineOK(f) == f.scheduled_time > ticks \/ f.age <= Now - ticks

TimesOK ==
  /\ \A t \in setting : DeadlineOK(timer[t])
  /\ \A t \in Timer : list_in_list(Timers, t) =>
       /\ ArmedOK(timer[t])
       /\ ~in_tick => PastDeadlineOK(timer[t])

TimerInv == QueueInv /\ ClockOK /\ TimesOK
-----------------------------------------------------------------------------
(* The queue                                                               *)

\* A nonempty set of naturals has a least element.
LEMMA Least ==
  ASSUME NEW S \in SUBSET Nat, S # {}
  PROVE  \E m \in S : \A k \in S : m <= k
  <1> DEFINE R == OpToRel(<, Nat)
  <1>1. IsWellFoundedOn(R, Nat)
    BY NatLessThanWellFounded
  <1> HIDE DEF R
  <1>2. PICK m \in S : \A y \in S : ~(<<y, m>> \in R)
    BY <1>1, WFMin, ZenonT(60)
  <1>3. \A y \in S : ~(y < m)
    BY <1>2, ZenonT(60) DEF R, OpToRel
  <1> QED
    BY <1>2, <1>3

\* A function on 1 .. n is a sequence of length n.
LEMMA QueueSeq ==
  ASSUME NEW S, NEW n \in Nat, NEW f \in [1 .. n -> S]
  PROVE  f \in Seq(S) /\ Len(f) = n /\ \A i \in 1 .. n : f[i] \in S
  OBVIOUS

\* What QueueOK says of a queue and the deadlines in it.
LEMMA QueueFacts ==
  ASSUME NEW s, QueueOK(s)
  PROVE  /\ Len(s.queue) \in Nat /\ s.queue \in Seq(Timer)
         /\ s.timer \in [Timer -> Fields]
         /\ s = [queue |-> s.queue, timer |-> s.timer]
         /\ \A i \in 1 .. Len(s.queue) : s.queue[i] \in Timer
         /\ \A t \in Timer : s.timer[t] \in Fields /\ s.timer[t].scheduled_time \in Nat
  BY DEF QueueOK, Fields

\* The walk over the queue ends where the new timer keeps the queue sorted.
LEMMA FirstLater ==
  ASSUME NEW s, QueueOK(s), NEW t \in Timer
  PROVE  \E c \in 1 .. (Len(s.queue) + 1) :
           /\ c = first_later(s, t)
           /\ \A j \in 1 .. Len(s.queue) : j < c =>
                s.timer[s.queue[j]].scheduled_time <= s.timer[t].scheduled_time
           /\ \A j \in 1 .. Len(s.queue) : j >= c =>
                s.timer[s.queue[j]].scheduled_time >= s.timer[t].scheduled_time
  <1> DEFINE n == Len(s.queue)
             time(i) == s.timer[s.queue[i]].scheduled_time
             new == s.timer[t].scheduled_time
             ends(i) == (i <= n => TIME_GT(time(i), new)) /\
                        \A j \in 1 .. (i - 1) : ~TIME_GT(time(j), new)
  <1>1. n \in Nat /\ new \in Nat /\ \A i \in 1 .. n : time(i) \in Nat
    BY QueueFacts
  <1>2. \A i, j \in 1 .. n : i < j => time(i) <= time(j)
    BY DEF QueueOK
  <1>3. \E i \in 1 .. (n + 1) : ends(i)
    <2> DEFINE L == {i \in 1 .. (n + 1) : i <= n => TIME_GT(time(i), new)}
    <2>1. L \in SUBSET Nat /\ n + 1 \in L
      BY <1>1
    <2>2. PICK i \in L : \A j \in L : i <= j
      BY <2>1, Least, ZenonT(60)
    <2>3. i \in 1 .. (n + 1)
      OBVIOUS
    <2>4. \A j \in 1 .. (i - 1) : ~TIME_GT(time(j), new)
      BY <1>1, <2>2, <2>3
    <2> QED
      BY <2>3, <2>4
  <1>4. first_later(s, t) \in 1 .. (n + 1) /\ ends(first_later(s, t))
    <2>1. first_later(s, t) = CHOOSE i \in 1 .. (n + 1) : ends(i)
      BY DEF first_later
    <2> HIDE DEF ends, n
    <2> QED
      BY <1>3, <2>1
  <1>5. PICK c \in 1 .. (n + 1) : c = first_later(s, t) /\ ends(c)
    BY <1>4, Zenon
  <1>6. \A j \in 1 .. n : j < c => time(j) <= new
    BY <1>1, <1>5 DEF TIME_GT
  <1>7. \A j \in 1 .. n : j >= c => time(j) >= new
    BY <1>1, <1>2, <1>5 DEF TIME_GT
  <1> QED
    BY <1>5, <1>6, <1>7, ZenonT(60)

\* insert_timer_in_queue() of a timer that is not queued and not cancelled.
LEMMA InsertOK ==
  ASSUME NEW s, QueueOK(s), NEW t \in Timer,
         ~list_in_list(s, t), ~s.timer[t].cancelled
  PROVE  /\ QueueOK(insert_timer_in_queue(s, t))
         /\ insert_timer_in_queue(s, t).timer = [s.timer EXCEPT ![t].age = 0]
         /\ \A u \in Timer : list_in_list(insert_timer_in_queue(s, t), u) <=>
                               list_in_list(s, u) \/ u = t
  <1> DEFINE n == Len(s.queue)
             q(c) == [j \in 1 .. (n + 1) |-> IF j < c THEN s.queue[j]
                                   ELSE IF j = c THEN t ELSE s.queue[j - 1]]
             f == [s.timer EXCEPT ![t].age = 0]
  <1>1. PICK c \in 1 .. (n + 1) :
          /\ c = first_later(s, t)
          /\ \A j \in 1 .. n : j < c =>
               s.timer[s.queue[j]].scheduled_time <= s.timer[t].scheduled_time
          /\ \A j \in 1 .. n : j >= c =>
               s.timer[s.queue[j]].scheduled_time >= s.timer[t].scheduled_time
    BY FirstLater
  <1>2. insert_timer_in_queue(s, t) = [queue |-> q(c), timer |-> f]
    BY <1>1 DEF insert_timer_in_queue
  <1>3. /\ n \in Nat /\ s.queue \in Seq(Timer) /\ s.timer \in [Timer -> Fields]
        /\ \A i \in 1 .. n : s.queue[i] \in Timer
        /\ \A u \in Timer : s.timer[u].scheduled_time \in Nat
    BY QueueFacts
  <1>4. q(c) \in [1 .. (n + 1) -> Timer]
    BY <1>3
  <1>5. PICK r : r = q(c)
    BY ZenonT(60)
  <1>6. r \in Seq(Timer) /\ Len(r) = n + 1
    BY <1>3, <1>4, <1>5, QueueSeq
  <1>7. /\ \A j \in 1 .. n : j < c => r[j] = s.queue[j]
        /\ r[c] = t
        /\ \A j \in 1 .. n : j >= c => r[j + 1] = s.queue[j]
        /\ \A j \in 1 .. (n + 1) : j > c => r[j] = s.queue[j - 1]
    BY <1>3, <1>5
  <1>8. /\ f \in [Timer -> Fields]
        /\ \A u \in Timer : /\ f[u].scheduled_time = s.timer[u].scheduled_time
                            /\ f[u].cancelled = s.timer[u].cancelled
                            /\ f[u].periodic_time = s.timer[u].periodic_time
    BY <1>3, ZenonT(60) DEF Fields
  <1>9. \A u \in Timer : (\E i \in 1 .. (n + 1) : r[i] = u) <=> list_in_list(s, u) \/ u = t
    <2> TAKE u \in Timer
    <2>1. ASSUME NEW i \in 1 .. (n + 1), r[i] = u
          PROVE  list_in_list(s, u) \/ u = t
      <3>1. CASE i < c
        BY <1>1, <1>3, <1>7, <2>1, <3>1 DEF list_in_list
      <3>2. CASE i = c
        BY <1>7, <2>1, <3>2
      <3>3. CASE i > c
        <4>1. i - 1 \in 1 .. n
          BY <1>1, <1>3, <3>3
        <4>2. r[i] = s.queue[i - 1]
          BY <1>7, <3>3
        <4> QED
          BY <2>1, <4>1, <4>2 DEF list_in_list
      <3> QED
        BY <1>1, <3>1, <3>2, <3>3
    <2>2. ASSUME NEW i \in 1 .. n, s.queue[i] = u
          PROVE  \E k \in 1 .. (n + 1) : r[k] = u
      <3>1. i \in 1 .. (n + 1) /\ i + 1 \in 1 .. (n + 1)
        BY <1>3
      <3> QED
        BY <1>1, <1>7, <2>2, <3>1
    <2> QED
      BY <1>1, <1>7, <2>1, <2>2 DEF list_in_list
  <1>10. \A i, j \in 1 .. (n + 1) : i < j =>
           /\ r[i] # r[j]
           /\ f[r[i]].scheduled_time <= f[r[j]].scheduled_time
    <2> TAKE i, j \in 1 .. (n + 1)
    <2> HAVE i < j
    <2>1. r[i] \in Timer /\ r[j] \in Timer
      BY <1>4, <1>5, ZenonT(60)
    <2>2. /\ \A k, l \in 1 .. n : k < l =>
               /\ s.queue[k] # s.queue[l]
               /\ s.timer[s.queue[k]].scheduled_time <= s.timer[s.queue[l]].scheduled_time
          /\ \A k \in 1 .. n : s.queue[k] # t
      BY DEF QueueOK, list_in_list
    <2>3. CASE j < c
      <3>1. i \in 1 .. n /\ j \in 1 .. n /\ i < c
        BY <1>1, <1>3, <2>3
      <3> QED
        BY <1>7, <1>8, <2>1, <2>2, <2>3, <3>1
    <2>4. CASE i < c /\ j = c
      <3>1. i \in 1 .. n
        BY <1>1, <1>3, <2>4
      <3> QED
        BY <1>1, <1>7, <1>8, <2>1, <2>2, <2>4, <3>1
    <2>5. CASE i < c /\ j > c
      <3>1. i \in 1 .. n /\ j - 1 \in 1 .. n /\ i < j - 1
        BY <1>1, <1>3, <2>5
      <3> QED
        BY <1>7, <1>8, <2>1, <2>2, <2>5, <3>1
    <2>6. CASE i = c
      <3>1. j - 1 \in 1 .. n /\ j - 1 >= c /\ j > c
        BY <1>1, <1>3, <2>6
      <3> QED
        BY <1>1, <1>7, <1>8, <2>1, <2>2, <2>6, <3>1
    <2>7. CASE i > c
      <3>1. i - 1 \in 1 .. n /\ j - 1 \in 1 .. n /\ i - 1 < j - 1 /\ j > c
        BY <1>1, <1>3, <2>7
      <3>2. r[i] = s.queue[i - 1] /\ r[j] = s.queue[j - 1]
        BY <1>7, <2>7, <3>1
      <3> QED
        BY <1>8, <2>1, <2>2, <3>1, <3>2
    <2> QED
      BY <1>1, <1>3, <2>3, <2>4, <2>5, <2>6, <2>7
  <1>11. \A u \in Timer : f[u].cancelled =>
           ~(\E i \in 1 .. (n + 1) : r[i] = u) /\ f[u].periodic_time = 0
    BY <1>8, <1>9 DEF QueueOK
  <1> HIDE DEF q, f
  <1>12. QueueOK([queue |-> r, timer |-> f])
    BY <1>6, <1>8, <1>10, <1>11 DEF QueueOK, list_in_list
  <1>13. \A u \in Timer : list_in_list([queue |-> r, timer |-> f], u) <=>
                            list_in_list(s, u) \/ u = t
    BY <1>6, <1>9 DEF list_in_list
  <1> QED
    BY <1>2, <1>5, <1>12, <1>13 DEF f

\* list_delete() of a queued timer.
LEMMA DeleteOK ==
  ASSUME NEW s, QueueOK(s), NEW t \in Timer, list_in_list(s, t)
  PROVE  /\ QueueOK(list_delete(s, t))
         /\ list_delete(s, t).timer = s.timer
         /\ \A u \in Timer : list_in_list(list_delete(s, t), u) <=>
                               list_in_list(s, u) /\ u # t
  <1> DEFINE n == Len(s.queue)
             q(c) == [j \in 1 .. (n - 1) |->
                        IF j < c THEN s.queue[j] ELSE s.queue[j + 1]]
  <1>1. PICK c \in 1 .. n :
          /\ s.queue[c] = t
          /\ list_delete(s, t) = [queue |-> q(c), timer |-> s.timer]
    <2> DEFINE d == CHOOSE i \in 1 .. Len(s.queue) : s.queue[i] = t
    <2>1. \E i \in 1 .. Len(s.queue) : s.queue[i] = t
      BY DEF list_in_list
    <2>2. d \in 1 .. Len(s.queue) /\ s.queue[d] = t
      BY <2>1, Zenon
    <2>3. list_delete(s, t) = [queue |-> q(d), timer |-> s.timer]
      BY DEF list_delete
    <2> HIDE DEF d, q
    <2> QED
      BY <2>2, <2>3
  <1>2. /\ n \in Nat /\ s.queue \in Seq(Timer) /\ s.timer \in [Timer -> Fields]
        /\ \A i \in 1 .. n : s.queue[i] \in Timer
        /\ \A u \in Timer : s.timer[u].scheduled_time \in Nat
    BY QueueFacts
  <1>3. q(c) \in [1 .. (n - 1) -> Timer] /\ n - 1 \in Nat
    BY <1>1, <1>2
  <1>4. PICK r : r = q(c)
    BY ZenonT(60)
  <1>5. r \in Seq(Timer) /\ Len(r) = n - 1
    <2>1. r \in [1 .. (n - 1) -> Timer]
      BY <1>3, <1>4
    <2> HIDE DEF n, q
    <2> QED
      BY <1>3, <2>1, QueueSeq, ZenonT(60)
  <1>6. /\ \A j \in 1 .. (n - 1) : j < c => r[j] = s.queue[j]
        /\ \A j \in 1 .. (n - 1) : j >= c => r[j] = s.queue[j + 1]
    BY <1>2, <1>4
  <1>7. \A k, l \in 1 .. n : k < l =>
          /\ s.queue[k] # s.queue[l]
          /\ s.timer[s.queue[k]].scheduled_time <= s.timer[s.queue[l]].scheduled_time
    BY DEF QueueOK
  <1>8. \A u \in Timer : (\E i \in 1 .. (n - 1) : r[i] = u) <=> list_in_list(s, u) /\ u # t
    <2> TAKE u \in Timer
    <2>1. ASSUME NEW i \in 1 .. (n - 1), r[i] = u
          PROVE  list_in_list(s, u) /\ u # t
      <3>1. i \in 1 .. n /\ i + 1 \in 1 .. n
        BY <1>2
      <3>2. CASE i < c
        BY <1>1, <1>6, <1>7, <2>1, <3>1, <3>2 DEF list_in_list
      <3>3. CASE i >= c
        <4>1. c < i + 1
          BY <1>1, <3>3
        <4> QED
          BY <1>1, <1>6, <1>7, <2>1, <3>1, <3>3, <4>1 DEF list_in_list
      <3> QED
        BY <1>1, <3>2, <3>3
    <2>2. ASSUME NEW i \in 1 .. n, s.queue[i] = u, u # t
          PROVE  \E k \in 1 .. (n - 1) : r[k] = u
      <3>1. CASE i < c
        <4>1. i \in 1 .. (n - 1)
          BY <1>1, <1>2, <3>1
        <4> QED
          BY <1>6, <2>2, <3>1, <4>1
      <3>2. CASE i > c
        <4>1. i - 1 \in 1 .. (n - 1) /\ i - 1 >= c /\ (i - 1) + 1 = i
          BY <1>1, <1>2, <3>2
        <4>2. r[i - 1] = s.queue[i]
          BY <1>6, <4>1
        <4> QED
          BY <2>2, <4>1, <4>2
      <3> QED
        BY <1>1, <2>2, <3>1, <3>2
    <2> QED
      BY <2>1, <2>2 DEF list_in_list
  <1>9. \A i, j \in 1 .. (n - 1) : i < j =>
           /\ r[i] # r[j]
           /\ s.timer[r[i]].scheduled_time <= s.timer[r[j]].scheduled_time
    <2> TAKE i, j \in 1 .. (n - 1)
    <2> HAVE i < j
    <2>1. /\ i \in 1 .. n /\ i + 1 \in 1 .. n /\ j \in 1 .. n /\ j + 1 \in 1 .. n
          /\ i < j + 1 /\ i + 1 < j + 1
      BY <1>2
    <2>2. CASE j < c
      <3>1. r[i] = s.queue[i] /\ r[j] = s.queue[j]
        BY <1>2, <1>6, <2>1, <2>2
      <3> QED
        BY <1>7, <2>1, <3>1
    <2>3. CASE i < c /\ j >= c
      <3>1. r[i] = s.queue[i] /\ r[j] = s.queue[j + 1]
        BY <1>2, <1>6, <2>1, <2>3
      <3> QED
        BY <1>7, <2>1, <3>1
    <2>4. CASE i >= c
      <3>1. r[i] = s.queue[i + 1] /\ r[j] = s.queue[j + 1]
        BY <1>2, <1>6, <2>1, <2>4
      <3> QED
        BY <1>7, <2>1, <3>1
    <2> QED
      BY <1>1, <2>2, <2>3, <2>4
  <1> HIDE DEF q
  <1>10. QueueOK([queue |-> r, timer |-> s.timer])
    BY <1>2, <1>5, <1>8, <1>9, ZenonT(60) DEF QueueOK, list_in_list
  <1>11. \A u \in Timer : list_in_list([queue |-> r, timer |-> s.timer], u) <=>
                            list_in_list(s, u) /\ u # t
    BY <1>5, <1>8 DEF list_in_list
  <1> QED
    BY <1>1, <1>4, <1>10, <1>11

-----------------------------------------------------------------------------
(* The calls, as changes to the queue                                      *)

\* timer_set() up to its critical section.
LEMMA FillOK ==
  ASSUME NEW s, QueueOK(s), NEW t \in Timer, ~list_in_list(s, t),
         NEW d \in Delay, NEW p \in BOOLEAN, ticks \in Nat
  PROVE  /\ QueueOK(fill(s, t, d, p))
         /\ fill(s, t, d, p).queue = s.queue
         /\ ~list_in_list(fill(s, t, d, p), t)
         /\ \A u \in Timer \ {t} : fill(s, t, d, p).timer[u] = s.timer[u]
         /\ LET f == fill(s, t, d, p).timer[t]
            IN  /\ f.delay = at_least_one(d)
                /\ f.scheduled_time = ticks + f.delay
                /\ f.waited = 0
                /\ f.periodic_time \in {0, f.delay}
                /\ ~f.cancelled
  <1>1. /\ s.queue \in Seq(Timer) /\ s.timer \in [Timer -> Fields]
        /\ \A i \in 1 .. Len(s.queue) : s.queue[i] \in Timer
    BY QueueFacts
  <1>2. PICK k \in Nat : k = at_least_one(d) 
    BY TimerAssumption DEF at_least_one
  <1>3. PICK y \in Nat, z \in {0, k} : y = ticks + k /\ z = IF p THEN k ELSE 0
    BY <1>2
  <1> PICK g : g = [s.timer[t] EXCEPT
          !.scheduled_time = y, !.delay = k, !.cancelled = FALSE,
          !.waited = 0, !.periodic_time = z]
    OBVIOUS
  <1>4. /\ g \in Fields /\ g.delay = k /\ g.scheduled_time = y
        /\ g.waited = 0 /\ g.cancelled = FALSE /\ g.periodic_time = z
    <2>1. s.timer[t] \in Fields /\ z \in Nat
      BY <1>1
    <2> QED
      BY <2>1, ZenonT(60) DEF Fields
  <1>5. fill(s, t, d, p) = [queue |-> s.queue, timer |-> [s.timer EXCEPT ![t] = g]]
    <2>1. PICK m \in [Timer -> Fields], q \in Seq(Timer) : s = [queue |-> q, timer |-> m]
      BY QueueFacts, ZenonT(60)
    <2>2. fill(s, t, d, p) = [s EXCEPT !.timer[t] = [@ EXCEPT
            !.scheduled_time = y, !.delay = k, !.cancelled = FALSE,
            !.waited = 0, !.periodic_time = z]]
      BY <1>2, <1>3, ZenonT(60) DEF fill
    <2> QED
      BY <2>1, <2>2
  <1>6. PICK h : h = [s.timer EXCEPT ![t] = g]
    BY ZenonT(60)
  <1>7. h \in [Timer -> Fields] /\ h[t] = g /\ \A u \in Timer \ {t} : h[u] = s.timer[u]
    BY <1>1, <1>4, <1>6
  <1>8. QueueOK([queue |-> s.queue, timer |-> h])
    <2>1. \A i \in 1 .. Len(s.queue) : h[s.queue[i]] = s.timer[s.queue[i]]
      BY <1>1, <1>7 DEF list_in_list
    <2>2. \A i, j \in 1 .. Len(s.queue) : i < j =>
            /\ s.queue[i] # s.queue[j]
            /\ h[s.queue[i]].scheduled_time <= h[s.queue[j]].scheduled_time
      BY <2>1 DEF QueueOK
    <2>3. \A u \in Timer : h[u].cancelled =>
            ~list_in_list(s, u) /\ h[u].periodic_time = 0
      <3> TAKE u \in Timer
      <3>1. CASE u = t
        BY <1>4, <1>7, <3>1, ZenonT(60)
      <3>2. CASE u # t
        BY <1>7, <3>2 DEF QueueOK
      <3> QED
        BY <3>1, <3>2
    <2> QED
      BY <1>1, <1>7, <2>2, <2>3 DEF QueueOK, list_in_list
  <1> QED
    BY <1>2, <1>3, <1>4, <1>5, <1>6, <1>7, <1>8 DEF list_in_list

\* timer_cancel().
LEMMA CancelOK ==
  ASSUME NEW s, QueueOK(s), NEW t \in Timer
  PROVE  /\ QueueOK(timer_cancel(s, t))
         /\ ~list_in_list(timer_cancel(s, t), t)
         /\ timer_cancel(s, t).timer[t].cancelled
         /\ timer_cancel(s, t).timer[t].delay = s.timer[t].delay
         /\ timer_cancel(s, t).timer[t].periodic_time = 0
         /\ \A u \in Timer \ {t} :
              /\ timer_cancel(s, t).timer[u] = s.timer[u]
              /\ list_in_list(timer_cancel(s, t), u) <=> list_in_list(s, u)
  <1>1. PICK r : r = IF list_in_list(s, t) THEN list_delete(s, t) ELSE s
    OBVIOUS
  <1>2. /\ QueueOK(r) /\ r.timer = s.timer
        /\ \A u \in Timer : list_in_list(r, u) <=> list_in_list(s, u) /\ u # t
    <2>1. CASE list_in_list(s, t)
      BY <1>1, <2>1, DeleteOK, ZenonT(60)
    <2>2. CASE ~list_in_list(s, t)
      BY <1>1, <2>2, ZenonT(60)
    <2> QED
      BY <2>1, <2>2
  <1>3. /\ r.queue \in Seq(Timer) /\ r.timer \in [Timer -> Fields]
        /\ \A i \in 1 .. Len(r.queue) : r.queue[i] \in Timer
        /\ r = [queue |-> r.queue, timer |-> r.timer]
    BY <1>2, QueueFacts
  <1>4. PICK h : h = [r.timer EXCEPT ![t] = [@ EXCEPT !.periodic_time = 0,
                                                      !.cancelled = TRUE]]
    BY ZenonT(60)
  <1>5. timer_cancel(s, t) = [queue |-> r.queue, timer |-> h]
    <2>1. timer_cancel(s, t) =
            [r EXCEPT !.timer[t] = [@ EXCEPT !.periodic_time = 0, !.cancelled = TRUE]]
      BY <1>1, Zenon DEF timer_cancel
    <2>2. PICK m \in [Timer -> Fields], q \in Seq(Timer) : r = [queue |-> q, timer |-> m]
      BY <1>3
    <2> QED
      BY <1>4, <2>1, <2>2
  <1>6. /\ h \in [Timer -> Fields]
        /\ \A u \in Timer : h[u].scheduled_time = r.timer[u].scheduled_time
        /\ \A u \in Timer \ {t} : h[u] = r.timer[u]
        /\ h[t].delay = r.timer[t].delay /\ h[t].periodic_time = 0 /\ h[t].cancelled
    BY <1>3, <1>4, ZenonT(60) DEF Fields
  <1>7. QueueOK([queue |-> r.queue, timer |-> h])
    <2>1. \A i, j \in 1 .. Len(r.queue) : i < j =>
            /\ r.queue[i] # r.queue[j]
            /\ h[r.queue[i]].scheduled_time <= h[r.queue[j]].scheduled_time
      BY <1>2, <1>3, <1>6 DEF QueueOK
    <2>2. \A u \in Timer : h[u].cancelled =>
            ~list_in_list(r, u) /\ h[u].periodic_time = 0
      <3> TAKE u \in Timer
      <3>1. CASE u = t
        BY <1>2, <1>6, <3>1
      <3>2. CASE u # t
        BY <1>2, <1>6, <3>2 DEF QueueOK
      <3> QED
        BY <3>1, <3>2
    <2> QED
      BY <1>3, <1>6, <2>1, <2>2 DEF QueueOK, list_in_list
  <1> QED
    BY <1>2, <1>5, <1>6, <1>7 DEF list_in_list

\* timer_set() as a whole.
LEMMA SetOK ==
  ASSUME NEW s, QueueOK(s), NEW t \in Timer, ~list_in_list(s, t),
         NEW d \in Delay, NEW p \in BOOLEAN, ticks \in Nat
  PROVE  /\ QueueOK(timer_set(s, t, d, p))
         /\ \A u \in Timer \ {t} :
              /\ timer_set(s, t, d, p).timer[u] = s.timer[u]
              /\ list_in_list(timer_set(s, t, d, p), u) <=> list_in_list(s, u)
         /\ LET f == timer_set(s, t, d, p).timer[t]
            IN  /\ f.delay = at_least_one(d)
                /\ f.scheduled_time = ticks + f.delay
                /\ f.waited = 0 /\ f.age = 0
                /\ f.periodic_time \in {0, f.delay}
                /\ ~f.cancelled
  <1>1. PICK r : r = fill(s, t, d, p)
    OBVIOUS
  <1>2. /\ QueueOK(r) /\ r.queue = s.queue /\ ~list_in_list(r, t)
        /\ \A u \in Timer \ {t} : r.timer[u] = s.timer[u]
        /\ r.timer[t].delay = at_least_one(d)
        /\ r.timer[t].scheduled_time = ticks + r.timer[t].delay
        /\ r.timer[t].waited = 0 /\ r.timer[t].periodic_time \in {0, r.timer[t].delay}
        /\ ~r.timer[t].cancelled
    BY <1>1, FillOK
  <1>3. PICK q : q = insert_timer_in_queue(r, t)
    OBVIOUS
  <1>4. /\ QueueOK(q) /\ q.timer = [r.timer EXCEPT ![t].age = 0]
        /\ \A u \in Timer : list_in_list(q, u) <=> list_in_list(r, u) \/ u = t
    BY <1>2, <1>3, InsertOK
  <1>5. r.timer \in [Timer -> Fields]
    BY <1>2, QueueFacts
  <1>6. /\ \A u \in Timer \ {t} : q.timer[u] = r.timer[u]
        /\ q.timer[t].age = 0
        /\ q.timer[t].delay = r.timer[t].delay
        /\ q.timer[t].scheduled_time = r.timer[t].scheduled_time
        /\ q.timer[t].waited = r.timer[t].waited
        /\ q.timer[t].periodic_time = r.timer[t].periodic_time
        /\ q.timer[t].cancelled = r.timer[t].cancelled
    BY <1>4, <1>5 DEF Fields
  <1>7. timer_set(s, t, d, p) = q
    BY <1>1, <1>3 DEF timer_set
  <1>8. \A u \in Timer : list_in_list(r, u) <=> list_in_list(s, u)
    BY <1>2 DEF list_in_list
  <1> QED
    BY <1>2, <1>4, <1>6, <1>7, <1>8, ZenonT(60)

-----------------------------------------------------------------------------
(* Calls one after another: timer_tick() deletes, calls back and requeues  *)

\* The fields of a timer that timer_set() or timer_tick() has just queued.
JustSet(f) ==
  /\ f.delay \in 1 .. MaxDelay
  /\ f.scheduled_time = ticks + f.delay
  /\ f.waited = 0 /\ f.age = 0
  /\ f.periodic_time \in {0, f.delay}

\* What calls made at one time may do to the timers of s to give those of n:
\* leave or dequeue them, cancel them, and set them; they leave alone the ones
\* that another timer_set() is at work on.
Evolves(s, n) ==
  /\ \A u \in Timer :
       \/ n.timer[u] = s.timer[u] /\ (list_in_list(n, u) => list_in_list(s, u))
       \/ /\ ~list_in_list(n, u)
          /\ n.timer[u].delay <= MaxDelay /\ n.timer[u].periodic_time = 0
       \/ JustSet(n.timer[u])
  /\ \A u \in setting :
       n.timer[u] = s.timer[u] /\ (list_in_list(n, u) => list_in_list(s, u))

\* Delays are turned into delays from one to the longest.
LEMMA DelayBounds ==
  /\ MaxDelay \in Nat
  /\ \A d \in Delay : at_least_one(d) \in 1 .. MaxDelay
  <1> DEFINE m == CHOOSE m \in Delay : \A d \in Delay : d <= m
  <1>1. m \in Delay /\ \A d \in Delay : d <= m
    BY TimerAssumption, Zenon
  <1>2. Delay \subseteq Nat
    BY TimerAssumption
  <1>3. MaxDelay = IF m = 0 THEN 1 ELSE m
    BY DEF MaxDelay, at_least_one
  <1> HIDE DEF m
  <1> QED
    BY <1>1, <1>2, <1>3 DEF at_least_one

\* Calls keep what is known of periods and delays.
LEMMA EvolvesDelays ==
  ASSUME NEW s, NEW n, QueueOK(n), DelaysOK(s), Evolves(s, n)
  PROVE  DelaysOK(n)
  <1> SUFFICES ASSUME NEW u \in Timer
               PROVE  /\ n.timer[u].delay <= MaxDelay
                      /\ n.timer[u].periodic_time \in {0, n.timer[u].delay}
    BY DEF DelaysOK
  <1>1. CASE n.timer[u] = s.timer[u]
    BY <1>1 DEF DelaysOK
  <1>2. CASE n.timer[u].delay <= MaxDelay /\ n.timer[u].periodic_time = 0
    BY <1>2
  <1>3. CASE JustSet(n.timer[u])
    BY <1>3, DelayBounds DEF JustSet
  <1> QED
    BY <1>1, <1>2, <1>3 DEF Evolves

\* A timer_cancel() after other calls.
LEMMA CancelEvolves ==
  ASSUME NEW s, NEW r, QueueOK(r), DelaysOK(s), Evolves(s, r),
         NEW t \in Timer, t \notin setting, setting \subseteq Timer
  PROVE  QueueOK(timer_cancel(r, t)) /\ Evolves(s, timer_cancel(r, t))
  <1>1. PICK n : n = timer_cancel(r, t)
    OBVIOUS
  <1>2. /\ QueueOK(n) /\ ~list_in_list(n, t)
        /\ n.timer[t].delay = r.timer[t].delay /\ n.timer[t].periodic_time = 0
        /\ \A u \in Timer \ {t} : n.timer[u] = r.timer[u] /\
                                  (list_in_list(n, u) <=> list_in_list(r, u))
    BY <1>1, CancelOK
  <1>3. n.timer[t].delay <= MaxDelay
    BY <1>2, EvolvesDelays DEF DelaysOK
  <1>4. Evolves(s, n)
    BY <1>2, <1>3, ZenonT(60) DEF Evolves
  <1> QED
    BY <1>1, <1>2, <1>4

\* A timer_set() after other calls.
LEMMA SetEvolves ==
  ASSUME NEW s, NEW r, QueueOK(r), DelaysOK(s), Evolves(s, r),
         NEW t \in Timer, t \notin setting, setting \subseteq Timer,
         ~list_in_list(r, t), NEW d \in Delay, NEW p \in BOOLEAN, ticks \in Nat
  PROVE  QueueOK(timer_set(r, t, d, p)) /\ Evolves(s, timer_set(r, t, d, p))
  <1>1. PICK n : n = timer_set(r, t, d, p)
    OBVIOUS
  <1>2. /\ QueueOK(n)
        /\ \A u \in Timer \ {t} : n.timer[u] = r.timer[u] /\
                                  (list_in_list(n, u) <=> list_in_list(r, u))
        /\ n.timer[t].delay = at_least_one(d)
        /\ n.timer[t].scheduled_time = ticks + n.timer[t].delay
        /\ n.timer[t].waited = 0 /\ n.timer[t].age = 0
        /\ n.timer[t].periodic_time \in {0, n.timer[t].delay}
    BY <1>1, SetOK
  <1>3. JustSet(n.timer[t])
    BY <1>2, DelayBounds DEF JustSet
  <1>4. Evolves(s, n)
    BY <1>2, <1>3, ZenonT(60) DEF Evolves
  <1> QED
    BY <1>1, <1>2, <1>4

\* What timer_tick() does after the callback.
LEMMA RequeueEvolves ==
  ASSUME NEW s, NEW r, QueueOK(r), DelaysOK(s), Evolves(s, r),
         NEW t \in Timer, t \notin setting, setting \subseteq Timer,
         NEW periodic, ticks \in Nat
  PROVE  QueueOK(requeue(r, t, periodic)) /\ Evolves(s, requeue(r, t, periodic))
  <1>1. CASE ~must_requeue(r, t, periodic)
    BY <1>1, ZenonT(60) DEF requeue
  <1>2. CASE must_requeue(r, t, periodic)
    <2>1. /\ r.queue \in Seq(Timer) /\ r.timer \in [Timer -> Fields]
          /\ \A i \in 1 .. Len(r.queue) : r.queue[i] \in Timer
          /\ ~list_in_list(r, t) /\ r.timer[t].periodic_time > 0
      BY <1>2, QueueFacts DEF must_requeue
    <2>2. /\ r.timer[t].delay = r.timer[t].periodic_time
          /\ r.timer[t].delay \in 1 .. MaxDelay
          /\ ~r.timer[t].cancelled
      <3>1. r.timer[t].delay <= MaxDelay /\ r.timer[t].periodic_time \in {0, r.timer[t].delay}
        BY EvolvesDelays DEF DelaysOK
      <3>2. r.timer[t].delay \in Nat /\ r.timer[t].periodic_time \in Nat
        BY <2>1 DEF Fields
      <3>3. ~r.timer[t].cancelled
        BY <2>1 DEF QueueOK
      <3> QED
        BY <2>1, <3>1, <3>2, <3>3, DelayBounds
    <2>3. PICK y \in Nat : y = ticks + r.timer[t].periodic_time
      BY <2>2
    <2>4. PICK h : h = [r.timer EXCEPT ![t] = [@ EXCEPT !.scheduled_time = y, !.waited = 0]]
      BY ZenonT(60)
    <2>5. /\ h \in [Timer -> Fields]
          /\ \A u \in Timer \ {t} : h[u] = r.timer[u]
          /\ \A u \in Timer : /\ h[u].cancelled = r.timer[u].cancelled
                              /\ h[u].periodic_time = r.timer[u].periodic_time
          /\ h[t].delay = r.timer[t].delay /\ h[t].scheduled_time = y /\ h[t].waited = 0
      BY <2>1, <2>4, ZenonT(60) DEF Fields
    <2>6. PICK q : q = [queue |-> r.queue, timer |-> h]
      BY ZenonT(60)
    <2>7. requeue(r, t, periodic) = insert_timer_in_queue(q, t)
      <3>1. requeue(r, t, periodic) = insert_timer_in_queue(
              [r EXCEPT !.timer[t] = [@ EXCEPT
                 !.scheduled_time = ticks + r.timer[t].periodic_time, !.waited = 0]], t)
        BY <1>2, Zenon DEF requeue
      <3>2. PICK m \in [Timer -> Fields], l \in Seq(Timer) : r = [queue |-> l, timer |-> m]
        BY QueueFacts
      <3>3. [r EXCEPT !.timer[t] = [@ EXCEPT
               !.scheduled_time = ticks + r.timer[t].periodic_time, !.waited = 0]] = q
        BY <2>3, <2>4, <2>6, <3>2
      <3> QED
        BY <3>1, <3>3, Zenon
    <2>8. QueueOK(q) /\ \A u \in Timer : list_in_list(q, u) <=> list_in_list(r, u)
      <3>1. q.queue = r.queue /\ q.timer = h
        BY <2>6
      <3>2. \A u \in Timer : list_in_list(q, u) <=> list_in_list(r, u)
        BY <3>1 DEF list_in_list
      <3>3. \A i \in 1 .. Len(r.queue) : h[r.queue[i]] = r.timer[r.queue[i]]
        BY <2>1, <2>5 DEF list_in_list
      <3>4. \A i, j \in 1 .. Len(r.queue) : i < j =>
              /\ r.queue[i] # r.queue[j]
              /\ h[r.queue[i]].scheduled_time <= h[r.queue[j]].scheduled_time
        BY <3>3 DEF QueueOK
      <3>5. \A u \in Timer : h[u].cancelled =>
              ~list_in_list(r, u) /\ h[u].periodic_time = 0
        BY <2>5 DEF QueueOK
      <3>6. q \in [queue : Seq(Timer), timer : [Timer -> Fields]]
        BY <2>1, <2>5, <2>6
      <3> QED
        BY <3>1, <3>2, <3>4, <3>5, <3>6 DEF QueueOK
    <2>9. PICK n : n = insert_timer_in_queue(q, t)
      OBVIOUS
    <2>10. /\ QueueOK(n) /\ n.timer = [h EXCEPT ![t].age = 0]
           /\ \A u \in Timer : list_in_list(n, u) <=> list_in_list(r, u) \/ u = t
      <3>1. q.timer = h /\ ~list_in_list(q, t) /\ ~h[t].cancelled
        BY <2>1, <2>2, <2>5, <2>6, <2>8
      <3> QED
        BY <2>8, <2>9, <3>1, InsertOK, ZenonT(60)
    <2>11. /\ \A u \in Timer \ {t} : n.timer[u] = r.timer[u]
           /\ n.timer[t].age = 0 /\ n.timer[t].waited = 0
           /\ n.timer[t].delay = r.timer[t].delay
           /\ n.timer[t].periodic_time = r.timer[t].periodic_time
           /\ n.timer[t].scheduled_time = y
      BY <2>5, <2>10 DEF Fields
    <2>12. JustSet(n.timer[t])
      BY <2>2, <2>3, <2>11 DEF JustSet
    <2>13. Evolves(s, n)
      BY <2>10, <2>11, <2>12, ZenonT(60) DEF Evolves
    <2> QED
      BY <2>7, <2>9, <2>10, <2>13, Zenon
  <1> QED
    BY <1>1, <1>2

\* The callback of the timer that fires, and what follows it in timer_tick().
LEMMA FireEvolves ==
  ASSUME QueueInv, timer_queue # <<>>,
         NEW s \in callback(list_delete(Timers, Head(timer_queue)), Head(timer_queue)),
         NEW periodic
  PROVE  /\ QueueOK(requeue(s, Head(timer_queue), periodic))
         /\ Evolves(Timers, requeue(s, Head(timer_queue), periodic))
  <1>1. PICK t \in Timer : t = Head(timer_queue) /\ list_in_list(Timers, t)
    <2>1. timer_queue \in Seq(Timer)
      BY DEF QueueInv, TypeOK
    <2> QED
      BY <2>1 DEF list_in_list, Timers
  <1>2. PICK z : z = Timers
    OBVIOUS
  <1>3. /\ QueueOK(z) /\ DelaysOK(z) /\ list_in_list(z, t)
        /\ setting \subseteq Timer /\ t \notin setting /\ ticks \in Nat
    BY <1>1, <1>2, TimerAssumption DEF QueueInv, TypeOK, SettingOK
  <1>4. PICK r : r = list_delete(z, t)
    OBVIOUS
  <1>5. /\ QueueOK(r) /\ r.timer = z.timer
        /\ \A u \in Timer : list_in_list(r, u) <=> list_in_list(z, u) /\ u # t
    BY <1>3, <1>4, DeleteOK
  <1>6. Evolves(z, r)
    BY <1>3, <1>5, ZenonT(60) DEF Evolves
  <1>7. s \in callback(r, t)
    BY <1>1, <1>2, <1>4, Zenon
  <1>8. QueueOK(s) /\ Evolves(z, s)
    <2>1. CASE s = r
      BY <1>5, <1>6, <2>1
    <2>2. CASE \E u \in Timer : u \notin setting /\ s = timer_cancel(r, u)
      BY <1>3, <1>5, <1>6, <2>2, CancelEvolves, ZenonT(60)
    <2>3. CASE \E u \in Timer, d \in Delay, p \in BOOLEAN :
                 u \notin setting /\ ~list_in_list(r, u) /\ s = timer_set(r, u, d, p)
      BY <1>3, <1>5, <1>6, <2>3, SetEvolves, ZenonT(60)
    <2>4. \A u \in Timer : Settable(u) => u \notin setting /\ ~list_in_list(r, u)
      BY <1>2, <1>5 DEF Settable
    <2>5. ~list_in_list(r, t)
      BY <1>5
    <2> QED
      <3>1. \/ s = r
            \/ s = timer_cancel(r, t)
            \/ \E d \in Delay, p \in BOOLEAN : s = timer_set(r, t, d, p)
            \/ \E u \in Timer \ (setting \union {t}) : s = timer_cancel(r, u)
            \/ \E u \in {v \in Timer \ {t} : Settable(v)}, d \in Delay, p \in BOOLEAN :
                 s = timer_set(r, u, d, p)
        BY <1>7 DEF callback
      <3>2. \A u \in {v \in Timer \ {t} : Settable(v)} :
              u \in Timer /\ u \notin setting /\ ~list_in_list(r, u)
        BY <2>4
      <3>3. CASE \E u \in {v \in Timer \ {t} : Settable(v)}, d \in Delay, p \in BOOLEAN :
                   s = timer_set(r, u, d, p)
        BY <2>3, <3>2, <3>3, ZenonT(60)
      <3>4. CASE \E d \in Delay, p \in BOOLEAN : s = timer_set(r, t, d, p)
        BY <1>3, <2>3, <2>5, <3>4, ZenonT(60)
      <3>5. CASE \E u \in Timer \ (setting \union {t}) : s = timer_cancel(r, u)
        BY <2>2, <3>5, ZenonT(60)
      <3>6. CASE s = timer_cancel(r, t)
        BY <1>3, <2>2, <3>6, ZenonT(60)
      <3> QED
        BY <2>1, <3>1, <3>3, <3>4, <3>5, <3>6, ZenonT(60)
  <1> QED
    BY <1>1, <1>2, <1>3, <1>8, RequeueEvolves, ZenonT(60)

-----------------------------------------------------------------------------
(* The queue is right in every state                                       *)

\* The record of the next state's timers.
LEMMA TimersNext ==
  ASSUME NEW n, QueueOK(n), set_timers(n)
  PROVE  Timers' = n
  BY QueueFacts DEF Timers, set_timers

\* Calls keep the queue right.
LEMMA EvolveQueue ==
  ASSUME QueueInv, NEW n, QueueOK(n), Evolves(Timers, n), set_timers(n),
         UNCHANGED <<ticks, phase, pending, setting>>, in_tick' \in BOOLEAN
  PROVE  QueueInv'
  <1>1. Timers' = n /\ timer_queue' = n.queue /\ timer' = n.timer
    BY TimersNext DEF set_timers
  <1>2. QueueOK(Timers)' /\ DelaysOK(Timers)'
    <2>1. DelaysOK(n)
      BY EvolvesDelays DEF QueueInv
    <2>2. QueueOK(Timers') /\ DelaysOK(Timers')
      BY <1>1, <2>1, Zenon
    <2> QED
      BY <2>2, <1>1 DEF QueueOK, DelaysOK, list_in_list
  <1>3. TypeOK'
    <2>1. timer_queue' \in Seq(Timer) /\ timer' \in [Timer -> Fields]
      BY <1>1, QueueFacts
    <2> QED
      BY <2>1 DEF QueueInv, TypeOK, Fields
  <1>4. SettingOK'
    <2> SUFFICES ASSUME NEW u \in setting
                 PROVE  ~list_in_list(n, u) /\ ~n.timer[u].cancelled
      BY <1>1 DEF SettingOK, list_in_list
    <2> QED
      BY DEF QueueInv, SettingOK, Evolves, Timers
  <1> QED
    BY <1>2, <1>3, <1>4 DEF QueueInv

\* No call at all.
LEMMA EvolvesRefl ==
  ASSUME NEW s
  PROVE  Evolves(s, s)
  BY ZenonT(60) DEF Evolves

\* QueueInv does not speak of the clock but for its type.
LEMMA QueueKept ==
  ASSUME QueueInv, UNCHANGED <<timer_queue, timer, setting>>,
         ticks' \in 0 .. (WRAP - 1), phase' \in 0 .. (TICK - 1),
         pending' \in BOOLEAN, in_tick' \in BOOLEAN
  PROVE  QueueInv'
  <1>1. TypeOK' /\ SettingOK'
    BY DEF QueueInv, TypeOK, SettingOK, Timers, list_in_list
  <1>2. QueueOK(Timers)' /\ DelaysOK(Timers)'
    BY DEF QueueInv, QueueOK, DelaysOK, Timers, list_in_list
  <1> QED
    BY <1>1, <1>2 DEF QueueInv

\* Real time only changes ages.
LEMMA ElapseFields ==
  ASSUME QueueInv, elapse
  PROVE  /\ timer' \in [Timer -> Fields]
         /\ \A t \in Timer :
              /\ timer'[t].scheduled_time = timer[t].scheduled_time
              /\ timer'[t].periodic_time = timer[t].periodic_time
              /\ timer'[t].delay = timer[t].delay
              /\ timer'[t].cancelled = timer[t].cancelled
              /\ timer'[t].age = IF list_in_list(Timers, t) THEN older(timer[t].age) ELSE 0
              /\ timer'[t].waited = IF list_in_list(Timers, t) \/ t \in setting
                                    THEN older(timer[t].waited) ELSE 0
  <1>1. AgeCap \in Nat
    BY TimerAssumption, DelayBounds DEF AgeCap
  <1>2. timer \in [Timer -> Fields]
    BY DEF QueueInv, TypeOK, Fields
  <1> DEFINE age(t) == IF list_in_list(Timers, t) THEN older(timer[t].age) ELSE 0
             waited(t) == IF list_in_list(Timers, t) \/ t \in setting
                          THEN older(timer[t].waited) ELSE 0
  <1>3. \A t \in Timer : age(t) \in Nat /\ waited(t) \in Nat
    BY <1>1, <1>2 DEF Fields, older
  <1>4. timer' = [t \in Timer |-> [timer[t] EXCEPT !.age = age(t), !.waited = waited(t)]]
    BY DEF elapse
  <1> HIDE DEF age, waited
  <1>5. \A t \in Timer : timer'[t] = [timer[t] EXCEPT !.age = age(t), !.waited = waited(t)]
    BY <1>4
  <1>6. \A t \in Timer : timer'[t] \in Fields
    BY <1>2, <1>3, <1>5 DEF Fields
  <1>7. timer' \in [Timer -> Fields]
    BY <1>4, <1>6
  <1> QED
    <2> SUFFICES ASSUME NEW t \in Timer
                 PROVE  /\ timer'[t].scheduled_time = timer[t].scheduled_time
                        /\ timer'[t].periodic_time = timer[t].periodic_time
                        /\ timer'[t].delay = timer[t].delay
                        /\ timer'[t].cancelled = timer[t].cancelled
                        /\ timer'[t].age = age(t)
                        /\ timer'[t].waited = waited(t)
      BY <1>7, Zenon DEF age, waited
    <2>1. timer[t] \in Fields
      BY <1>2
    <2> QED
      BY <1>5, <2>1 DEF Fields

\* elapse keeps the queue right.
LEMMA ElapseQueue ==
  ASSUME QueueInv, elapse
  PROVE  QueueInv'
  <1>1. /\ timer' \in [Timer -> Fields]
        /\ \A t \in Timer : /\ timer'[t].scheduled_time = timer[t].scheduled_time
                            /\ timer'[t].periodic_time = timer[t].periodic_time
                            /\ timer'[t].delay = timer[t].delay
                            /\ timer'[t].cancelled = timer[t].cancelled
    BY ElapseFields
  <1>2. timer_queue' = timer_queue /\ setting' = setting /\ timer_queue \in Seq(Timer)
    BY ZenonT(60) DEF elapse, QueueInv, TypeOK
  <1>3. phase' \in 0 .. (TICK - 1) /\ pending' \in BOOLEAN
    <2>1. phase \in Nat /\ pending \in BOOLEAN /\ TICK \in Nat \ {0}
      BY TimerAssumption DEF QueueInv, TypeOK
    <2>2. phase' = (phase + 1) % TICK
      BY Zenon DEF elapse
    <2>3. pending' \in BOOLEAN
      BY Zenon DEF elapse
    <2> QED
      BY <2>1, <2>2, <2>3
  <1>4. TypeOK'
    <2>1. UNCHANGED <<ticks, in_tick>>
      BY Zenon DEF elapse
    <2> QED
      BY <1>1, <1>2, <1>3, <2>1 DEF QueueInv, TypeOK, Fields
  <1>5. \A t \in Timer : list_in_list(Timers, t)' <=> list_in_list(Timers, t)
    BY <1>2 DEF list_in_list, Timers
  <1>6. setting \subseteq Timer
    BY DEF QueueInv, TypeOK
  <1>7. SettingOK'
    BY <1>1, <1>2, <1>5, <1>6 DEF QueueInv, SettingOK
  <1>8. \A i, j \in 1 .. Len(timer_queue) : i < j =>
          /\ timer_queue[i] # timer_queue[j]
          /\ timer'[timer_queue[i]].scheduled_time <= timer'[timer_queue[j]].scheduled_time
    BY <1>1, <1>2 DEF QueueInv, QueueOK, Timers
  <1>9. \A t \in Timer : timer'[t].cancelled =>
          ~list_in_list(Timers, t)' /\ timer'[t].periodic_time = 0
    BY <1>1, <1>5 DEF QueueInv, QueueOK, Timers
  <1>10. QueueOK(Timers)'
    BY <1>1, <1>2, <1>8, <1>9 DEF QueueOK, Timers
  <1>11. DelaysOK(Timers)'
    BY <1>1 DEF QueueInv, DelaysOK, Timers
  <1> QED
    BY <1>4, <1>7, <1>10, <1>11 DEF QueueInv

\* An assembly of QueueInv' from the timers after a step that changes setting.
LEMMA QueueOf ==
  ASSUME QueueInv, NEW n, QueueOK(n), DelaysOK(n), set_timers(n),
         UNCHANGED <<ticks, phase, pending, in_tick>>, setting' \in SUBSET Timer,
         \A u \in setting' : ~list_in_list(n, u) /\ ~n.timer[u].cancelled
  PROVE  QueueInv'
  <1>1. Timers' = n /\ timer_queue' = n.queue /\ timer' = n.timer
    BY TimersNext DEF set_timers
  <1>2. TypeOK'
    <2>1. timer_queue' \in Seq(Timer) /\ timer' \in [Timer -> Fields]
      BY <1>1, QueueFacts
    <2> QED
      BY <2>1 DEF QueueInv, TypeOK, Fields
  <1>3. QueueOK(Timers)' /\ DelaysOK(Timers)'
    <2>1. QueueOK(Timers') /\ DelaysOK(Timers')
      BY <1>1, Zenon
    <2> QED
      BY <2>1 DEF QueueOK, DelaysOK, list_in_list
  <1>4. SettingOK'
    BY <1>1 DEF SettingOK, list_in_list
  <1> QED
    BY <1>2, <1>3, <1>4 DEF QueueInv

\* The first half of an interruptible timer_set().
LEMMA FillQueue ==
  ASSUME QueueInv, NEW t \in Timer, NEW d \in Delay, NEW p \in BOOLEAN,
         set_timer_fill(t, d, p)
  PROVE  QueueInv'
  <1>1. PICK z : z = Timers
    OBVIOUS
  <1>2. PICK n : n = fill(z, t, d, p)
    OBVIOUS
  <1>3. /\ QueueOK(z) /\ DelaysOK(z) /\ ~list_in_list(z, t) /\ t \notin setting
        /\ ticks \in Nat /\ setting \in SUBSET Timer
        /\ set_timers(n) /\ setting' = setting \union {t}
        /\ UNCHANGED <<ticks, phase, pending, in_tick>>
        /\ \A u \in setting : ~list_in_list(z, u) /\ ~z.timer[u].cancelled
    BY <1>1, <1>2, TimerAssumption
    DEF set_timer_fill, Settable, QueueInv, TypeOK, SettingOK, Timers
  <1>4. /\ QueueOK(n) /\ n.queue = z.queue /\ ~list_in_list(n, t)
        /\ \A u \in Timer \ {t} : n.timer[u] = z.timer[u]
        /\ n.timer[t].delay = at_least_one(d)
        /\ n.timer[t].periodic_time \in {0, n.timer[t].delay}
        /\ ~n.timer[t].cancelled
    BY <1>2, <1>3, FillOK
  <1>5. DelaysOK(n)
    <2>1. n.timer[t].delay <= MaxDelay
      BY <1>4, DelayBounds
    <2> QED
      BY <1>3, <1>4, <2>1, ZenonT(60) DEF DelaysOK
  <1>6. \A u \in setting' : ~list_in_list(n, u) /\ ~n.timer[u].cancelled
    <2>1. \A u \in Timer : list_in_list(n, u) <=> list_in_list(z, u)
      BY <1>4 DEF list_in_list
    <2> QED
      BY <1>3, <1>4, <2>1
  <1> QED
    BY <1>3, <1>4, <1>5, <1>6, QueueOf

\* The second half of an interruptible timer_set().
LEMMA InsertQueue ==
  ASSUME QueueInv, NEW t \in Timer, set_timer_insert(t)
  PROVE  QueueInv'
  <1>1. PICK z : z = Timers
    OBVIOUS
  <1>2. PICK n : n = insert_timer_in_queue(z, t)
    OBVIOUS
  <1>3. /\ QueueOK(z) /\ DelaysOK(z) /\ t \in setting
        /\ setting \in SUBSET Timer
        /\ set_timers(n) /\ setting' = setting \ {t}
        /\ UNCHANGED <<ticks, phase, pending, in_tick>>
        /\ \A u \in setting : ~list_in_list(z, u) /\ ~z.timer[u].cancelled
    BY <1>1, <1>2 DEF set_timer_insert, QueueInv, TypeOK, SettingOK, Timers
  <1>4. /\ QueueOK(n) /\ n.timer = [z.timer EXCEPT ![t].age = 0]
        /\ \A u \in Timer : list_in_list(n, u) <=> list_in_list(z, u) \/ u = t
    BY <1>2, <1>3, InsertOK
  <1>5. /\ \A u \in Timer \ {t} : n.timer[u] = z.timer[u]
        /\ n.timer[t].delay = z.timer[t].delay
        /\ n.timer[t].periodic_time = z.timer[t].periodic_time
    <2>1. z.timer \in [Timer -> Fields]
      BY <1>3, QueueFacts
    <2> QED
      BY <1>4, <2>1 DEF Fields
  <1>6. DelaysOK(n)
    BY <1>3, <1>5, ZenonT(60) DEF DelaysOK
  <1>7. \A u \in setting' : ~list_in_list(n, u) /\ ~n.timer[u].cancelled
    BY <1>3, <1>4, <1>5
  <1> QED
    BY <1>3, <1>4, <1>6, <1>7, QueueOf, ZenonT(60)

\* The calls of threads, and a turn of timer_tick(), as calls on the timers.
LEMMA StepEvolves ==
  ASSUME QueueInv,
         \/ \E t \in Timer, d \in Delay, p \in BOOLEAN : set_timer(t, d, p)
         \/ \E t \in Timer : cancel_timer(t)
         \/ timer_fire
  PROVE  /\ \E n : QueueOK(n) /\ Evolves(Timers, n) /\ set_timers(n)
         /\ UNCHANGED <<ticks, phase, pending, in_tick, setting>>
  <1>1. PICK z : z = Timers
    OBVIOUS
  <1>2. /\ QueueOK(z) /\ DelaysOK(z) /\ setting \subseteq Timer /\ ticks \in Nat
        /\ Evolves(z, z)
    BY <1>1, TimerAssumption, EvolvesRefl DEF QueueInv, TypeOK
  <1>3. ASSUME NEW t \in Timer, NEW d \in Delay, NEW p \in BOOLEAN, set_timer(t, d, p)
        PROVE  \E n : QueueOK(n) /\ Evolves(Timers, n) /\ set_timers(n)
    <2>1. ~list_in_list(z, t) /\ t \notin setting /\ set_timers(timer_set(z, t, d, p))
      BY <1>1, <1>3, Zenon DEF set_timer, Settable
    <2>2. QueueOK(timer_set(z, t, d, p)) /\ Evolves(z, timer_set(z, t, d, p))
      BY <1>2, <2>1, SetEvolves, ZenonT(60)
    <2> QED
      BY <1>1, <2>1, <2>2, Zenon
  <1>4. ASSUME NEW t \in Timer, cancel_timer(t)
        PROVE  \E n : QueueOK(n) /\ Evolves(Timers, n) /\ set_timers(n)
    <2>1. t \notin setting /\ set_timers(timer_cancel(z, t))
      BY <1>1, <1>4, Zenon DEF cancel_timer
    <2>2. QueueOK(timer_cancel(z, t)) /\ Evolves(z, timer_cancel(z, t))
      BY <1>2, <2>1, CancelEvolves, ZenonT(60)
    <2> QED
      BY <1>1, <2>1, <2>2, Zenon
  <1>5. ASSUME timer_fire
        PROVE  \E n : QueueOK(n) /\ Evolves(Timers, n) /\ set_timers(n)
    <2>1. PICK periodic : periodic = (timer[Head(timer_queue)].periodic_time > 0)
      BY Zenon
    <2>2. timer_queue # <<>>
      BY <1>5, Zenon DEF timer_fire, Due
    <2>3. PICK s \in callback(list_delete(Timers, Head(timer_queue)), Head(timer_queue)) :
            set_timers(requeue(s, Head(timer_queue), periodic))
      BY <1>5, <2>1, Zenon DEF timer_fire
    <2>4. /\ QueueOK(requeue(s, Head(timer_queue), periodic))
          /\ Evolves(Timers, requeue(s, Head(timer_queue), periodic))
      BY <2>2, FireEvolves
    <2> QED
      BY <2>3, <2>4, Zenon
  <1>6. UNCHANGED <<ticks, phase, pending, in_tick, setting>>
    BY ZenonT(60) DEF set_timer, cancel_timer, timer_fire
  <1> QED
    BY <1>3, <1>4, <1>5, <1>6, Zenon

\* Every step keeps the queue right.
LEMMA QueueStep ==
  ASSUME QueueInv, [Next]_vars
  PROVE  QueueInv'
  <1>1. CASE elapse
    BY <1>1, ElapseQueue
  <1>2. CASE \E t \in Timer, d \in Delay, p \in BOOLEAN : set_timer_fill(t, d, p)
    BY <1>2, FillQueue
  <1>3. CASE \E t \in Timer : set_timer_insert(t)
    BY <1>3, InsertQueue
  <1>4. CASE timer_irq
    <2>1. ticks' \in 0 .. (WRAP - 1)
      <3>1. ticks \in Nat /\ TICK \in Nat /\ WRAP \in Nat \ {0}
        BY TimerAssumption DEF QueueInv, TypeOK
      <3>2. ticks' = (ticks + TICK) % WRAP
        BY <1>4 DEF timer_irq
      <3> QED
        BY <3>1, <3>2
    <2>2. pending' \in BOOLEAN /\ in_tick' \in BOOLEAN
      BY <1>4, Zenon DEF timer_irq
    <2>3. phase' \in 0 .. (TICK - 1) /\ UNCHANGED <<timer_queue, timer, setting>>
      BY <1>4 DEF timer_irq, QueueInv, TypeOK
    <2> QED
      BY <2>1, <2>2, <2>3, QueueKept
  <1>5. CASE \/ \E t \in Timer, d \in Delay, p \in BOOLEAN : set_timer(t, d, p)
             \/ \E t \in Timer : cancel_timer(t)
             \/ timer_fire
    <2>1. PICK n : QueueOK(n) /\ Evolves(Timers, n) /\ set_timers(n)
      BY <1>5, StepEvolves
    <2>2. UNCHANGED <<ticks, phase, pending, in_tick, setting>>
      BY <1>5, StepEvolves
    <2>3. in_tick' \in BOOLEAN
      BY <2>2 DEF QueueInv, TypeOK
    <2> QED
      BY <2>1, <2>2, <2>3, EvolveQueue
  <1>6. CASE timer_tick_end
    <2>1. in_tick' \in BOOLEAN
      BY <1>6, Zenon DEF timer_tick_end
    <2> QED
      BY <1>6, <2>1, QueueKept DEF timer_tick_end, QueueInv, TypeOK
  <1>7. CASE UNCHANGED vars
    BY <1>7, QueueKept DEF vars, QueueInv, TypeOK
  <1> QED
    BY <1>1, <1>2, <1>3, <1>4, <1>5, <1>6, <1>7, ZenonT(60) DEF Next

\* The initial state has an empty queue.
LEMMA QueueInit ==
  ASSUME Init
  PROVE  QueueInv
  <1>1. MaxDelay \in Nat
    BY DelayBounds
  <1>2. timer_queue \in Seq(Timer) /\ Len(timer_queue) = 0
    BY DEF Init
  <1>3. TypeOK
    <2>1. pending \in BOOLEAN /\ in_tick \in BOOLEAN
      BY Zenon DEF Init
    <2> QED
      BY <1>2, <2>1, TimerAssumption DEF Init, TypeOK
  <1>4. \A t \in Timer : ~list_in_list(Timers, t)
    BY <1>2 DEF list_in_list, Timers
  <1>5. QueueOK(Timers)
    BY <1>2, <1>3, <1>4 DEF Init, TypeOK, QueueOK, Timers, Fields
  <1>6. SettingOK /\ DelaysOK(Timers)
    BY <1>1 DEF Init, SettingOK, DelaysOK, Timers
  <1> QED
    BY <1>3, <1>5, <1>6 DEF QueueInv

\* The variables have their types, timer_queue is sorted and free of
\* duplicates, and a cancelled timer stays off it until it is set again.
THEOREM TimerQueue == Spec => []QueueInv
  <1>1. Init => QueueInv
    BY QueueInit
  <1>2. QueueInv /\ [Next]_vars => QueueInv'
    BY QueueStep
  <1> QED
    BY <1>1, <1>2, PTL DEF Spec

-----------------------------------------------------------------------------
(* Timers fire in time, as long as the tick counter does not wrap          *)

\* Real time is ahead of the tick counter by a tick and the latency at most.
LEMMA NowBounds ==
  ASSUME TypeOK, ClockOK
  PROVE  /\ ticks \in Nat /\ Now \in Nat /\ TICK \in Nat /\ Latency \in Nat
         /\ ticks <= Now /\ Now <= ticks + TICK + Latency
         /\ ~pending => Now < ticks + TICK
  <1>1. /\ ticks \in Nat /\ phase \in 0 .. (TICK - 1) /\ pending \in BOOLEAN
        /\ TICK \in Nat \ {0} /\ Latency \in 0 .. (TICK - 1)
    BY TimerAssumption DEF TypeOK
  <1>2. pending => phase <= Latency
    BY DEF ClockOK
  <1>3. CASE pending
    BY <1>1, <1>2, <1>3 DEF Now
  <1>4. CASE ~pending
    BY <1>1, <1>4 DEF Now
  <1> QED
    BY <1>1, <1>3, <1>4

\* A timer that has just been set has a deadline that is right.
LEMMA JustSetInTime ==
  ASSUME TypeOK, ClockOK, NEW f \in Fields, JustSet(f)
  PROVE  ArmedOK(f) /\ PastDeadlineOK(f)
  <1>1. /\ ticks \in Nat /\ Now \in Nat /\ TICK \in Nat /\ Latency \in Nat
        /\ ticks <= Now /\ Now <= ticks + TICK + Latency
    BY NowBounds
  <1>2. f.delay \in Nat /\ f.delay > 0
    BY DelayBounds DEF JustSet
  <1> QED
    BY <1>1, <1>2 DEF JustSet, ArmedOK, DeadlineOK, PastDeadlineOK

\* What the clock shows does not change when only timers do.
LEMMA ClockKept ==
  ASSUME UNCHANGED <<ticks, phase, pending>>, NEW f
  PROVE  /\ Now' = Now
         /\ DeadlineOK(f)' <=> DeadlineOK(f)
         /\ ArmedOK(f)' <=> ArmedOK(f)
         /\ PastDeadlineOK(f)' <=> PastDeadlineOK(f)
  BY DEF Now, DeadlineOK, ArmedOK, PastDeadlineOK

\* Calls, and a turn of timer_tick(), leave every deadline right.
LEMMA EvolveTimes ==
  ASSUME TimerInv, NEW n, QueueOK(n), Evolves(Timers, n), set_timers(n),
         UNCHANGED <<ticks, phase, pending, in_tick, setting>>
  PROVE  TimesOK'
  <1>1. Timers' = n /\ timer' = n.timer /\ n.timer \in [Timer -> Fields]
    BY TimersNext, QueueFacts DEF set_timers
  <1>2. TypeOK /\ ClockOK /\ TimesOK /\ setting \subseteq Timer
    BY DEF TimerInv, QueueInv, TypeOK
  <1>3. \A u \in Timer : list_in_list(Timers, u)' <=> list_in_list(n, u)
    BY <1>1 DEF list_in_list
  <1>4. ASSUME NEW u \in setting
        PROVE  DeadlineOK(timer[u])'
    <2>1. n.timer[u] = timer[u]
      BY DEF Evolves, Timers
    <2>2. PICK f : f = timer[u] /\ f = timer'[u]
      BY <1>1, <2>1
    <2>3. DeadlineOK(f)
      BY <1>2, <2>2, Zenon DEF TimesOK
    <2>4. DeadlineOK(f)'
      BY <2>3, ClockKept
    <2> QED
      BY <2>2, <2>4 DEF DeadlineOK
  <1>5. ASSUME NEW u \in Timer, list_in_list(n, u)
        PROVE  ArmedOK(timer[u])' /\ (~in_tick' => PastDeadlineOK(timer[u])')
    <2>1. PICK f \in Fields : f = n.timer[u]
      BY <1>1
    <2>2. ArmedOK(f) /\ (~in_tick => PastDeadlineOK(f))
      <3>1. CASE f = timer[u] /\ list_in_list(Timers, u)
        BY <1>2, <3>1, Zenon DEF TimesOK
      <3>2. CASE JustSet(f)
        BY <1>2, <3>2, JustSetInTime
      <3>3. Timers.timer = timer
        BY DEF Timers
      <3> QED
        BY <1>5, <2>1, <3>1, <3>2, <3>3, Zenon DEF Evolves
    <2>3. ArmedOK(f)' /\ (~in_tick' => PastDeadlineOK(f)')
      BY <2>2, ClockKept
    <2>4. f = timer'[u]
      BY <1>1, <2>1
    <2> QED
      BY <2>3, <2>4 DEF ArmedOK, DeadlineOK, PastDeadlineOK
  <1> QED
    BY <1>3, <1>4, <1>5 DEF TimesOK

\* The first half of an interruptible timer_set().
LEMMA FillTimes ==
  ASSUME TimerInv, NEW t \in Timer, NEW d \in Delay, NEW p \in BOOLEAN,
         set_timer_fill(t, d, p)
  PROVE  TimesOK'
  <1>1. PICK z : z = Timers
    OBVIOUS
  <1>2. PICK n : n = fill(z, t, d, p)
    OBVIOUS
  <1>3. /\ QueueOK(z) /\ ~list_in_list(z, t) /\ t \notin setting
        /\ setting \in SUBSET Timer
        /\ set_timers(n) /\ setting' = setting \union {t}
        /\ UNCHANGED <<ticks, phase, pending, in_tick>>
        /\ z.timer = timer /\ TypeOK /\ ClockOK /\ TimesOK
    BY <1>1, <1>2 DEF set_timer_fill, Settable, TimerInv, QueueInv, TypeOK, Timers
  <1>4. /\ ticks \in Nat /\ Now \in Nat /\ TICK \in Nat /\ Latency \in Nat
        /\ ticks <= Now /\ Now <= ticks + TICK + Latency
    BY <1>3, NowBounds
  <1>5. /\ QueueOK(n) /\ n.queue = z.queue
        /\ \A u \in Timer \ {t} : n.timer[u] = z.timer[u]
        /\ n.timer[t].delay = at_least_one(d)
        /\ n.timer[t].scheduled_time = ticks + n.timer[t].delay
        /\ n.timer[t].waited = 0
    BY <1>2, <1>3, <1>4, FillOK
  <1>6. Timers' = n /\ timer' = n.timer
    BY <1>3, <1>5, TimersNext DEF set_timers
  <1>7. \A u \in Timer : list_in_list(Timers, u)' <=> list_in_list(z, u)
    BY <1>5, <1>6 DEF list_in_list
  <1>8. DeadlineOK(timer[t])'
    <2>1. n.timer[t].delay \in Nat /\ n.timer[t].delay > 0
      BY <1>5, DelayBounds
    <2>2. DeadlineOK(n.timer[t])
      BY <1>4, <1>5, <2>1 DEF DeadlineOK
    <2> QED
      BY <1>3, <1>6, <2>2 DEF DeadlineOK, Now
  <1>9. ASSUME NEW u \in setting
        PROVE  DeadlineOK(timer[u])'
    <2>1. timer'[u] = timer[u]
      BY <1>3, <1>5, <1>6
    <2>2. DeadlineOK(timer[u])
      BY <1>3, Zenon DEF TimesOK
    <2> QED
      BY <1>3, <2>1, <2>2 DEF DeadlineOK, Now
  <1>10. ASSUME NEW u \in Timer, list_in_list(z, u)
         PROVE  ArmedOK(timer[u])' /\ (~in_tick' => PastDeadlineOK(timer[u])')
    <2>1. timer'[u] = timer[u]
      BY <1>3, <1>5, <1>6, <1>10
    <2>2. ArmedOK(timer[u]) /\ (~in_tick => PastDeadlineOK(timer[u]))
      BY <1>1, <1>3, <1>10, Zenon DEF TimesOK
    <2> QED
      BY <1>3, <2>1, <2>2 DEF ArmedOK, DeadlineOK, PastDeadlineOK, Now
  <1> QED
    BY <1>3, <1>7, <1>8, <1>9, <1>10 DEF TimesOK

\* The second half of an interruptible timer_set().
LEMMA InsertTimes ==
  ASSUME TimerInv, NEW t \in Timer, set_timer_insert(t)
  PROVE  TimesOK'
  <1>1. PICK z : z = Timers
    OBVIOUS
  <1>2. PICK n : n = insert_timer_in_queue(z, t)
    OBVIOUS
  <1>3. /\ QueueOK(z) /\ t \in setting /\ setting \in SUBSET Timer
        /\ ~list_in_list(z, t) /\ ~z.timer[t].cancelled
        /\ set_timers(n) /\ setting' = setting \ {t}
        /\ UNCHANGED <<ticks, phase, pending, in_tick>>
        /\ z.timer = timer /\ TypeOK /\ ClockOK /\ TimesOK
    BY <1>1, <1>2 DEF set_timer_insert, TimerInv, QueueInv, TypeOK, SettingOK, Timers
  <1>4. /\ ticks \in Nat /\ Now \in Nat /\ TICK \in Nat /\ Latency \in Nat
        /\ ticks <= Now /\ Now <= ticks + TICK + Latency
    BY <1>3, NowBounds
  <1>5. /\ QueueOK(n) /\ n.timer = [z.timer EXCEPT ![t].age = 0]
        /\ \A u \in Timer : list_in_list(n, u) <=> list_in_list(z, u) \/ u = t
    BY <1>2, <1>3, InsertOK
  <1>6. Timers' = n /\ timer' = n.timer
    BY <1>3, <1>5, TimersNext, ZenonT(60) DEF set_timers
  <1>7. \A u \in Timer : list_in_list(Timers, u)' <=> list_in_list(z, u) \/ u = t
    BY <1>5, <1>6 DEF list_in_list
  <1>8. /\ \A u \in Timer \ {t} : timer'[u] = timer[u]
        /\ timer'[t].delay = timer[t].delay /\ timer'[t].age = 0
        /\ timer'[t].scheduled_time = timer[t].scheduled_time
        /\ timer'[t].waited = timer[t].waited
        /\ timer[t].delay \in Nat /\ timer[t].scheduled_time \in Nat
    <2>1. timer \in [Timer -> Fields]
      BY <1>3, QueueFacts
    <2> QED
      BY <1>3, <1>5, <1>6, <2>1 DEF Fields
  <1>9. ArmedOK(timer[t])' /\ PastDeadlineOK(timer[t])'
    <2>1. DeadlineOK(timer[t])
      BY <1>3, Zenon DEF TimesOK
    <2> QED
      BY <1>3, <1>4, <1>8, <2>1 DEF ArmedOK, DeadlineOK, PastDeadlineOK, Now
  <1>10. ASSUME NEW u \in setting, u # t
         PROVE  DeadlineOK(timer[u])'
    <2>1. timer'[u] = timer[u]
      BY <1>3, <1>8, <1>10
    <2>2. DeadlineOK(timer[u])
      BY <1>3, Zenon DEF TimesOK
    <2> QED
      BY <1>3, <2>1, <2>2 DEF DeadlineOK, Now
  <1>11. ASSUME NEW u \in Timer, list_in_list(z, u)
         PROVE  ArmedOK(timer[u])' /\ (~in_tick' => PastDeadlineOK(timer[u])')
    <2>1. timer'[u] = timer[u]
      BY <1>3, <1>8, <1>11
    <2>2. ArmedOK(timer[u]) /\ (~in_tick => PastDeadlineOK(timer[u]))
      BY <1>1, <1>3, <1>11, Zenon DEF TimesOK
    <2> QED
      BY <1>3, <2>1, <2>2 DEF ArmedOK, DeadlineOK, PastDeadlineOK, Now
  <1> QED
    BY <1>3, <1>7, <1>9, <1>10, <1>11 DEF TimesOK

\* A unit of real time is a unit of Now.
LEMMA ElapseClock ==
  ASSUME TimerInv, elapse
  PROVE  ClockOK' /\ Now' = Now + 1 /\ Now' <= ticks + TICK + Latency
  <1>1. /\ ticks \in Nat /\ phase \in 0 .. (TICK - 1) /\ pending \in BOOLEAN
        /\ TICK \in Nat \ {0} /\ Latency \in 0 .. (TICK - 1) /\ Horizon \in Nat
    BY TimerAssumption DEF TimerInv, QueueInv, TypeOK
  <1>2. /\ ~in_tick /\ ticks < Horizon /\ (pending => phase < Latency)
        /\ phase' = (phase + 1) % TICK
        /\ pending' = (pending \/ phase + 1 = TICK)
        /\ ticks' = ticks /\ in_tick' = in_tick
    BY ZenonT(60) DEF elapse
  <1>3. phase' = IF phase + 1 = TICK THEN 0 ELSE phase + 1
    BY <1>1, <1>2
  <1>4. CASE pending
    <2>1. pending'
      BY <1>2, <1>4, ZenonT(60)
    <2>2. phase' = phase + 1
      BY <1>1, <1>2, <1>3, <1>4
    <2> QED
      BY <1>1, <1>2, <1>4, <2>1, <2>2 DEF Now, ClockOK
  <1>5. CASE ~pending /\ phase + 1 = TICK
    <2>1. pending' /\ phase' = 0
      BY <1>2, <1>3, <1>5, ZenonT(60)
    <2> QED
      BY <1>1, <1>2, <1>5, <2>1 DEF Now, ClockOK
  <1>6. CASE ~pending /\ phase + 1 # TICK
    <2>1. ~pending' /\ phase' = phase + 1
      BY <1>2, <1>3, <1>6, ZenonT(60)
    <2> QED
      BY <1>1, <1>2, <1>6, <2>1 DEF Now, ClockOK
  <1> QED
    BY <1>1, <1>4, <1>5, <1>6

\* Real time passes: no timer is queued for too long, because the next tick
\* finds it if its deadline has passed.
LEMMA ElapseTimes ==
  ASSUME TimerInv, elapse
  PROVE  TimesOK'
  <1>1. TypeOK /\ ClockOK /\ TimesOK /\ setting \subseteq Timer /\ QueueInv
    BY DEF TimerInv, QueueInv, TypeOK
  <1>2. ClockOK' /\ Now' = Now + 1 /\ TypeOK'
    BY <1>1, ElapseClock, ElapseQueue DEF QueueInv
  <1>3. /\ ticks \in Nat /\ Now \in Nat /\ TICK \in Nat /\ Latency \in Nat
        /\ Now' <= ticks + TICK + Latency
    BY <1>1, NowBounds, ElapseClock
  <1>4. ticks' = ticks /\ timer_queue' = timer_queue /\ setting' = setting /\ ~in_tick
    BY ZenonT(60) DEF elapse
  <1>5. \A t \in Timer : list_in_list(Timers, t)' <=> list_in_list(Timers, t)
    BY <1>4 DEF list_in_list, Timers
  <1>6. AgeCap \in Nat
    BY <1>3, DelayBounds DEF AgeCap
  <1>7. \A t \in Timer : /\ timer[t].age \in Nat /\ timer[t].waited \in Nat
                         /\ timer[t].delay \in Nat /\ timer[t].scheduled_time \in Nat
    BY <1>1 DEF TypeOK
  <1>8. ASSUME NEW t \in Timer, DeadlineOK(timer[t]),
               list_in_list(Timers, t) \/ t \in setting
        PROVE  DeadlineOK(timer[t])'
    <2>1. /\ timer'[t].scheduled_time = timer[t].scheduled_time
          /\ timer'[t].delay = timer[t].delay
          /\ timer'[t].waited = older(timer[t].waited)
      BY <1>1, <1>8, ElapseFields, ZenonT(60)
    <2> QED
      BY <1>2, <1>3, <1>6, <1>7, <1>8, <2>1 DEF DeadlineOK, older
  <1>9. ASSUME NEW t \in Timer, list_in_list(Timers, t)
        PROVE  ArmedOK(timer[t])' /\ PastDeadlineOK(timer[t])'
    <2>1. /\ timer'[t].scheduled_time = timer[t].scheduled_time
          /\ timer'[t].delay = timer[t].delay
          /\ timer'[t].age = older(timer[t].age)
      BY <1>1, <1>9, ElapseFields, ZenonT(60)
    <2>2. ArmedOK(timer[t]) /\ PastDeadlineOK(timer[t])
      BY <1>1, <1>4, <1>9, Zenon DEF TimesOK
    <2>3. DeadlineOK(timer[t])'
      BY <1>8, <1>9, <2>2 DEF ArmedOK
    <2>4. timer'[t].age \in Nat /\ timer'[t].age <= timer[t].age + 1
      BY <1>6, <1>7, <2>1 DEF older
    <2>5. PastDeadlineOK(timer[t])'
      BY <1>2, <1>3, <1>4, <1>7, <2>1, <2>2, <2>4 DEF PastDeadlineOK
    <2>6. timer'[t].age + timer'[t].scheduled_time <= Now' + timer'[t].delay
      BY <1>2, <1>3, <1>7, <2>1, <2>2, <2>4 DEF ArmedOK
    <2>7. timer'[t].age < timer'[t].delay + TICK + Latency
      <3>1. timer[t].delay > 0
        BY <2>2 DEF ArmedOK, DeadlineOK
      <3> QED
        BY <1>2, <1>3, <1>4, <1>7, <2>1, <2>4, <2>5, <2>6, <3>1 DEF PastDeadlineOK
    <2> QED
      BY <2>3, <2>5, <2>6, <2>7 DEF ArmedOK
  <1>10. \A t \in setting' : DeadlineOK(timer[t])'
    BY <1>1, <1>4, <1>8 DEF TimesOK
  <1>11. \A t \in Timer : list_in_list(Timers, t)' =>
           ArmedOK(timer[t])' /\ PastDeadlineOK(timer[t])'
    BY <1>5, <1>9
  <1> QED
    BY <1>10, <1>11 DEF TimesOK

\* The interrupt brings the tick counter up to real time.
LEMMA IrqTimes ==
  ASSUME TimerInv, timer_irq, Horizon + TICK <= WRAP
  PROVE  ClockOK' /\ TimesOK'
  <1>1. /\ ticks \in Nat /\ phase \in 0 .. (TICK - 1)
        /\ TICK \in Nat \ {0} /\ Horizon \in Nat /\ WRAP \in Nat \ {0}
    BY TimerAssumption DEF TimerInv, QueueInv, TypeOK
  <1>2. /\ pending /\ ~in_tick /\ ~pending' /\ in_tick' /\ phase' = phase
        /\ ticks' = (ticks + TICK) % WRAP
        /\ UNCHANGED <<timer_queue, timer, setting>>
    BY DEF timer_irq
  <1>3. ticks < Horizon
    BY <1>2 DEF TimerInv, ClockOK
  <1>4. ticks' = ticks + TICK
    BY <1>1, <1>2, <1>3
  <1>5. Now' = Now
    BY <1>1, <1>2, <1>4 DEF Now
  <1>6. ClockOK'
    BY <1>1, <1>2, <1>3, <1>4 DEF ClockOK
  <1>7. \A t \in Timer : list_in_list(Timers, t)' <=> list_in_list(Timers, t)
    BY <1>2 DEF list_in_list, Timers
  <1>8. \A t \in Timer :
          /\ DeadlineOK(timer[t]) => DeadlineOK(timer[t])'
          /\ ArmedOK(timer[t]) => ArmedOK(timer[t])'
    BY <1>2, <1>5 DEF DeadlineOK, ArmedOK
  <1>9. TimesOK /\ setting \subseteq Timer
    BY DEF TimerInv, QueueInv, TypeOK
  <1> QED
    BY <1>2, <1>6, <1>7, <1>8, <1>9 DEF TimesOK

\* timer_tick() is done: because the queue is sorted, no timer is due.
LEMMA TickEndTimes ==
  ASSUME TimerInv, timer_tick_end
  PROVE  ClockOK' /\ TimesOK'
  <1>1. /\ UNCHANGED <<ticks, phase, pending, timer_queue, timer, setting>>
        /\ in_tick /\ ~Due /\ ~in_tick'
    BY DEF timer_tick_end
  <1>2. /\ ticks \in Nat /\ timer_queue \in Seq(Timer)
        /\ \A t \in Timer : timer[t].scheduled_time \in Nat
        /\ \A i, j \in 1 .. Len(timer_queue) : i < j =>
             timer[timer_queue[i]].scheduled_time <= timer[timer_queue[j]].scheduled_time
    BY TimerAssumption DEF TimerInv, QueueInv, TypeOK, QueueOK, Timers
  <1>3. ASSUME NEW t \in Timer, list_in_list(Timers, t)
        PROVE  PastDeadlineOK(timer[t])'
    <2>1. PICK i \in 1 .. Len(timer_queue) : timer_queue[i] = t
      BY <1>3 DEF list_in_list, Timers
    <2>2. timer_queue # <<>> /\ Head(timer_queue) = timer_queue[1] /\ 1 \in 1 .. Len(timer_queue)
          /\ timer_queue[1] \in Timer
      BY <1>2, <2>1
    <2>3. timer[timer_queue[1]].scheduled_time > ticks
      BY <1>1, <1>2, <2>2 DEF Due, TIME_LT
    <2>4. timer[t].scheduled_time > ticks
      BY <1>2, <2>1, <2>2, <2>3
    <2> QED
      BY <1>1, <2>4 DEF PastDeadlineOK
  <1>4. TimesOK /\ ClockOK
    BY DEF TimerInv
  <1>5. ClockOK'
    BY <1>1, <1>4 DEF ClockOK
  <1>6. \A t \in Timer :
          /\ DeadlineOK(timer[t])' <=> DeadlineOK(timer[t])
          /\ ArmedOK(timer[t])' <=> ArmedOK(timer[t])
          /\ list_in_list(Timers, t)' <=> list_in_list(Timers, t)
    BY <1>1 DEF DeadlineOK, ArmedOK, Now, list_in_list, Timers
  <1>7. setting' = setting /\ setting \subseteq Timer
    BY <1>1 DEF TimerInv, QueueInv, TypeOK
  <1> QED
    BY <1>3, <1>4, <1>5, <1>6, <1>7 DEF TimesOK

\* Every step keeps the deadlines right.
LEMMA TimerStep ==
  ASSUME TimerInv, [Next]_vars, Horizon + TICK <= WRAP
  PROVE  TimerInv'
  <1>1. QueueInv /\ ClockOK /\ TimesOK
    BY DEF TimerInv
  <1>2. QueueInv'
    BY <1>1, QueueStep
  <1>3. CASE elapse
    BY <1>2, <1>3, ElapseClock, ElapseTimes DEF TimerInv
  <1>4. CASE \E t \in Timer, d \in Delay, p \in BOOLEAN : set_timer_fill(t, d, p)
    <2>1. UNCHANGED <<ticks, phase, pending, in_tick>>
      BY <1>4 DEF set_timer_fill
    <2>2. ClockOK'
      BY <1>1, <2>1 DEF ClockOK
    <2> QED
      BY <1>2, <1>4, <2>2, FillTimes DEF TimerInv
  <1>5. CASE \E t \in Timer : set_timer_insert(t)
    <2>1. UNCHANGED <<ticks, phase, pending, in_tick>>
      BY <1>5 DEF set_timer_insert
    <2>2. ClockOK'
      BY <1>1, <2>1 DEF ClockOK
    <2> QED
      BY <1>2, <1>5, <2>2, InsertTimes DEF TimerInv
  <1>6. CASE timer_irq
    BY <1>2, <1>6, IrqTimes DEF TimerInv
  <1>7. CASE \/ \E t \in Timer, d \in Delay, p \in BOOLEAN : set_timer(t, d, p)
             \/ \E t \in Timer : cancel_timer(t)
             \/ timer_fire
    <2>1. PICK n : QueueOK(n) /\ Evolves(Timers, n) /\ set_timers(n)
      BY <1>1, <1>7, StepEvolves
    <2>2. UNCHANGED <<ticks, phase, pending, in_tick, setting>>
      BY <1>1, <1>7, StepEvolves
    <2>3. ClockOK'
      BY <1>1, <2>2 DEF ClockOK
    <2> QED
      BY <1>2, <2>1, <2>2, <2>3, EvolveTimes DEF TimerInv
  <1>8. CASE timer_tick_end
    BY <1>2, <1>8, TickEndTimes DEF TimerInv
  <1>9. CASE UNCHANGED vars
    <2>1. ClockOK' /\ TimesOK'
      BY <1>1, <1>9 DEF vars, ClockOK, TimesOK, DeadlineOK, ArmedOK, PastDeadlineOK,
                        Now, list_in_list, Timers
    <2> QED
      BY <1>2, <2>1 DEF TimerInv
  <1> QED
    BY <1>3, <1>4, <1>5, <1>6, <1>7, <1>8, <1>9, ZenonT(60) DEF Next

\* At first no timer is queued.
LEMMA TimerInit ==
  ASSUME Init
  PROVE  TimerInv
  <1>1. QueueInv
    BY QueueInit
  <1>2. \A t \in Timer : ~list_in_list(Timers, t)
    <2>1. Len(timer_queue) = 0
      BY DEF Init
    <2> QED
      BY <2>1 DEF list_in_list, Timers
  <1>3. ClockOK
    BY TimerAssumption DEF Init, ClockOK
  <1>4. TimesOK
    BY <1>2 DEF Init, TimesOK
  <1> QED
    BY <1>1, <1>3, <1>4 DEF TimerInv

-----------------------------------------------------------------------------
(* The properties of Timer                                                 *)

\* The variables of the timer code have their types.
THEOREM TimerTypes == Spec => []TypeOK
  <1>1. QueueInv => TypeOK
    BY DEF QueueInv
  <1> QED
    BY <1>1, TimerQueue, PTL

\* insert_timer_in_queue() keeps timer_queue sorted, and no timer is in it
\* twice, whatever threads and callbacks set and cancel in whatever order.
THEOREM TimerQueueSorted == Spec => []QueueSorted
  <1>1. QueueInv => QueueSorted
    BY DEF QueueInv, QueueOK, QueueSorted, Timers
  <1> QED
    BY <1>1, TimerQueue, PTL

\* timer_cancel() lasts, in the timer's own callback too: timer_tick() does
\* not put a cancelled periodic timer back.
THEOREM TimerCancelSticks == Spec => []CancelSticks
  <1>1. QueueInv => CancelSticks
    BY DEF QueueInv, QueueOK, CancelSticks, Timers
  <1> QED
    BY <1>1, TimerQueue, PTL

\* The deadlines in the queue and the clock agree, until the counter wraps.
THEOREM TimerInvariant ==
  ASSUME Horizon + TICK <= WRAP
  PROVE  Spec => []TimerInv
  <1>1. Init => TimerInv
    BY TimerInit
  <1>2. TimerInv /\ [Next]_vars => TimerInv'
    BY TimerStep
  <1> QED
    BY <1>1, <1>2, PTL DEF Spec

\* Until the tick counter wraps, timer_tick() takes every timer off the queue
\* before its delay, a tick and the latency of the interrupt have passed.
THEOREM TimerNeverLate ==
  ASSUME Horizon + TICK <= WRAP
  PROVE  Spec => []NeverLate
  <1>1. TimerInv => NeverLate
    BY DEF TimerInv, TimesOK, ArmedOK, NeverLate
  <1> QED
    BY <1>1, TimerInvariant, PTL

\* Until the tick counter wraps, timer_tick() fires no timer earlier than by
\* a tick and the latency of the interrupt, also when timer_set() was
\* interrupted between reading the clock and queueing the timer.
THEOREM TimerNotEarly ==
  ASSUME Horizon + TICK <= WRAP
  PROVE  Spec => []EarlyByAtMostATick
  <1>1. ASSUME TimerInv, Due
        PROVE  timer[Head(timer_queue)].waited + TICK + Latency >=
                 timer[Head(timer_queue)].delay
    <2>1. /\ TypeOK /\ ClockOK /\ TimesOK /\ DelaysOK(Timers)
          /\ timer_queue \in Seq(Timer) /\ timer_queue # <<>>
      BY <1>1 DEF TimerInv, QueueInv, TypeOK, Due
    <2>2. PICK t \in Timer : t = Head(timer_queue) /\ list_in_list(Timers, t)
      BY <2>1 DEF list_in_list, Timers
    <2>3. ArmedOK(timer[t])
      BY <2>1, <2>2, Zenon DEF TimesOK
    <2>4. /\ timer[t].waited \in Nat /\ timer[t].delay \in Nat
          /\ timer[t].scheduled_time \in Nat /\ timer[t].delay <= MaxDelay
      BY <2>1 DEF TypeOK, DelaysOK, Timers
    <2>5. /\ ticks \in Nat /\ Now \in Nat /\ TICK \in Nat /\ Latency \in Nat
          /\ ticks <= Now
      BY <2>1, NowBounds
    <2>6. timer[t].scheduled_time <= ticks
      BY <1>1, <2>2, <2>4, <2>5 DEF Due, TIME_LT
    <2> QED
      BY <2>2, <2>3, <2>4, <2>5, <2>6, DelayBounds DEF ArmedOK, DeadlineOK, AgeCap
  <1>2. TimerInv => EarlyByAtMostATick
    BY <1>1 DEF EarlyByAtMostATick
  <1> QED
    BY <1>2, TimerInvariant, PTL
=============================================================================
