----------------------------- MODULE MutexProofs -----------------------------
(* Proofs about module Mutex, and that it implements module Lock, for any   *)
(* number of threads and any priorities.                                    *)
EXTENDS MutexLock, WaitObjectProofs

\* The default time limits are too tight for the size of the obligations.
USE SMTT(60), ZenonT(60)

\* mutex_acquire_timeout() keeps the invariant of the scheduler.
LEMMA AcquireSched ==
  ASSUME SchedInv(Frames), NEW t \in Thread, NEW timeout \in Timeouts,
         mutex_acquire_timeout(t, timeout)
  PROVE  SchedInv(Frames)'
  <1>1. CASE UNCHANGED schedVars
    BY <1>1, SchedVarsKept
  <1>2. CASE /\ wait_queue_block(wait, timeout, critical_section_count + 1)
             /\ goto(t, "wait") /\ UNCHANGED ctlVars
    <2>1. wait \in WaitQueue /\ timeout \in Timeout
      BY WaitObjectAssumption DEF Timeout
    <2>2. Calls(t)
      BY DEF mutex_acquire_timeout
    <2> QED
      BY <1>2, <2>1, <2>2, FramesFit, BlockStep, ZenonT(60)
  <1> QED
    BY <1>1, <1>2 DEF mutex_acquire_timeout

\* mutex_release() keeps the invariant of the scheduler.
LEMMA ReleaseSched ==
  ASSUME SchedInv(Frames), NEW t \in Thread, mutex_release(t)
  PROVE  SchedInv(Frames)'
  <1>1. CASE UNCHANGED schedVars
    BY <1>1, SchedVarsKept, ZenonT(60)
  <1>2. CASE /\ wait_list[wait] # <<>>
             /\ wake_one_resched(wait, "NO_ERROR", critical_section_count + 1)
             /\ goto(t, "wake") /\ UNCHANGED <<timeVars, ctlVars>>
    <2>1. wait \in WaitQueue /\ "NO_ERROR" \in Status /\ Calls(t)
      BY WaitObjectAssumption DEF Status, mutex_release
    <2> QED
      BY <1>2, <2>1, FramesFit, WakeOneStep, ZenonT(60)
  <1> QED
    BY <1>1, <1>2 DEF mutex_release

\* So does the return of an acquire from wait_queue_block().
LEMMA AcquireReturnSched ==
  ASSUME SchedInv(Frames), NEW t \in Thread, mutex_acquire_return(t)
  PROVE  SchedInv(Frames)'
  BY WaitReturnSched DEF mutex_acquire_return

\* Every step of the mutex keeps the invariant of the scheduler.
LEMMA SchedStep ==
  ASSUME SchedInv(Frames), [Next]_vars
  PROVE  SchedInv(Frames)'
  <1>1. CASE UNCHANGED vars
    BY <1>1, SchedVarsKept DEF vars
  <1>2. CASE Irq
    BY <1>2, FramesFit, IrqStep, ZenonT(60)
  <1>3. ASSUME NEW t \in Thread, thread_sleep(t) PROVE SchedInv(Frames)'
    BY <1>3, FramesFit, SleepStep
  <1>4. ASSUME NEW t \in Thread, Return(t) PROVE SchedInv(Frames)'
    BY <1>4, FramesFit, ReturnStep
  <1>5. ASSUME NEW t \in Thread, mutex_init(t) PROVE SchedInv(Frames)'
    BY <1>5, SchedVarsKept DEF mutex_init, no_switch
  <1>6. "ERR_OBJECT_DESTROYED" \in Status /\ "destroy" \in {"wake", "destroy"}
    BY DEF Status
  <1>7. ASSUME NEW t \in Thread, mutex_destroy(t) \/ mutex_destroy_return(t)
        PROVE  SchedInv(Frames)'
    BY <1>7, DestroySched, DestroyReturnSched, ZenonT(60) DEF mutex_destroy, mutex_destroy_return
  <1> QED
    BY <1>1, <1>2, <1>3, <1>4, <1>5, <1>6, <1>7, AcquireSched, AcquireReturnSched,
       ReleaseSched, WakeAllSched, ZenonT(60) DEF Next

-----------------------------------------------------------------------------
(* Mutual exclusion                                                        *)

\* The sets that count is made of are finite.
LEMMA Counting ==
  ASSUME CountingLaws, MutexInv
  PROVE  /\ IsFiniteSet(owns) /\ Cardinality(owns) \in Nat
         /\ IsFiniteSet(Claiming) /\ Cardinality(Claiming) \in Nat
         /\ magic /\ count = 0 => owns = {} /\ Claiming = {}
  <1>1. owns \subseteq Thread /\ Claiming \subseteq Thread /\ IsFiniteSet(Thread)
    BY MutexAssumption DEF MutexInv, MutexTypeOK, Claiming
  <1>2. IsFiniteSet(owns) /\ IsFiniteSet(Claiming)
    BY <1>1, SubsetFinite, ZenonT(60)
  <1>3. Cardinality(owns) \in Nat /\ Cardinality(Claiming) \in Nat
    BY <1>2, CardinalityIsNat, ZenonT(60)
  <1>4. (Cardinality(owns) = 0 => owns = {}) /\ (Cardinality(Claiming) = 0 => Claiming = {})
    BY <1>2, EmptyCounted, ZenonT(60)
  <1>5. ASSUME magic, count = 0 PROVE owns = {} /\ Claiming = {}
    BY <1>3, <1>4, <1>5 DEF MutexInv, CountIsClaims
  <1> QED
    BY <1>2, <1>3, <1>5, ZenonT(60)

\* A step that leaves the two magic numbers alone.
LEMMA ValidKept ==
  ASSUME MutexInv, UNCHANGED <<magic, wait_magic>>
  PROVE  WaitQueueValid' /\ wait_magic' \in BOOLEAN
  BY DEF MutexInv, MutexTypeOK, TypeOK, WaitQueueValid

\* A step that changes neither the mutex nor who waits for it.
LEMMA InvQuiet ==
  ASSUME MutexInv, SchedInv(Frames)', Quiet, UNCHANGED mutexVars
  PROVE  MutexInv'
  <1>00. UNCHANGED <<magic, wait_magic>>
    BY DEF mutexVars
  <1>1. Claiming' = Claiming
    BY DEF Quiet, Claiming
  <1>2. \A u \in Thread : Handed(u)' <=> Handed(u)
    BY DEF Quiet, Handed
  <1>3. MutexTypeOK'
    BY DEF MutexInv, MutexTypeOK, TypeOK, SchedInv, mutexVars
  <1>4. MutualExclusion'
    BY <1>2, ZenonT(60) DEF MutexInv, MutualExclusion, mutexVars
  <1>5. HolderIsOwner' /\ CountIsClaims'
    BY <1>1, ZenonT(60) DEF MutexInv, HolderIsOwner, CountIsClaims, mutexVars
  <1>6. \A t \in Thread : WaiterOK(t)'
    BY DEF MutexInv, WaiterOK, Quiet, mutexVars
  <1>7. DestroyedOK'
    <2>1. Claiming \subseteq Thread
      BY DEF Claiming
    <2> QED
      BY <1>1, <2>1 DEF MutexInv, DestroyedOK, Quiet, mutexVars
  <1> QED
    BY <1>3, <1>4, <1>5, <1>6, <1>7, <1>00, ValidKept, ZenonT(60) DEF MutexInv, WaitObjectInv

\* A waiter times out, or is woken because the mutex was destroyed.
LEMMA InvWoken ==
  ASSUME MutexInv, SchedInv(Frames)', UNCHANGED mutexVars,
         NEW h \in Thread, NEW err, Woken(h, err),
         \/ err = "ERR_TIMED_OUT" /\ timer[h] = "timeout"
         \/ err = "ERR_OBJECT_DESTROYED" /\ ~magic
  PROVE  MutexInv'
  <1>00. UNCHANGED <<magic, wait_magic>>
    BY ZenonT(60) DEF mutexVars
  <1>0. wait_queue_block_ret \in [Thread -> Status]
    BY ZenonT(60) DEF MutexInv, WaitObjectInv, SchedInv, SchedTypeOK
  <1>1. Claiming' = IF err = "ERR_TIMED_OUT" THEN Claiming ELSE Claiming \ {h}
    BY <1>0, ZenonT(60) DEF Woken, Claiming, MutexInv, WaiterOK
  <1>2. \A u \in Thread : Handed(u)' => Handed(u)
    BY <1>0, ZenonT(60) DEF Woken, Handed
  <1>3. MutexTypeOK'
    BY DEF MutexInv, MutexTypeOK, TypeOK, SchedInv, mutexVars
  <1>4. MutualExclusion'
    BY <1>2 DEF MutexInv, MutualExclusion, mutexVars
  <1>5. HolderIsOwner' /\ CountIsClaims'
    BY <1>1, ZenonT(60) DEF MutexInv, HolderIsOwner, CountIsClaims, mutexVars
  <1>6. \A t \in Thread : WaiterOK(t)'
    BY <1>0 DEF MutexInv, WaiterOK, Woken, mutexVars
  <1>7. DestroyedOK'
    <2>1. SUFFICES ASSUME ~magic PROVE DestroyedOK'
      BY DEF DestroyedOK, mutexVars
    <2>2. err = "ERR_OBJECT_DESTROYED"
      BY <2>1, ZenonT(60) DEF MutexInv, DestroyedOK, WaiterOK
    <2>3. Claiming' = Claiming \ {h} /\ Claiming \subseteq Thread
      BY <1>1, <2>2, ZenonT(60) DEF Claiming
    <2> QED
      BY <2>1, <2>3, ZenonT(60) DEF MutexInv, DestroyedOK, Woken, mutexVars
  <1> QED
    BY <1>3, <1>4, <1>5, <1>6, <1>7, <1>00, ValidKept, ZenonT(60) DEF MutexInv, WaitObjectInv

\* mutex_init() of a destroyed mutex: nobody is left with a claim on it.
LEMMA InvInit ==
  ASSUME CountingLaws,
         MutexInv, SchedInv(Frames)', NEW t \in Thread, mutex_init(t)
  PROVE  MutexInv'
  <1>1. /\ UNCHANGED schedVars /\ ~magic /\ magic' = TRUE /\ holder' = NULL
        /\ count' = 0 /\ owns' = owns /\ pc[t] = "user" /\ current_thread = t
        /\ wait_magic' = TRUE /\ \A u \in Thread : pc[u] # "destroy"
    BY ZenonT(60) DEF mutex_init, no_switch, Calls, InUser, Running, wait_queue_init,
           DestroyIsOver
  <1>2. \A u \in Thread : pc[u] # "wake_all"
    BY <1>1, ZenonT(60) DEF MutexInv, WaitObjectInv, SchedInv, CurrentRuns
  <1>3. owns = {} /\ Claiming = {}
    BY <1>1, <1>2, ZenonT(60) DEF MutexInv, DestroyedOK
  <1>4. Claiming' = {} /\ \A u \in Thread : Handed(u)' => u \in Claiming'
    BY <1>1, <1>3, ZenonT(60) DEF Claiming, Handed, schedVars, runVars, waitVars
  <1>5. MutexTypeOK'
    <2>1. wait_magic' \in BOOLEAN /\ magic' \in BOOLEAN
      BY <1>1, Zenon
    <2> QED
      BY <1>1, <2>1 DEF MutexInv, MutexTypeOK, TypeOK, SchedInv
  <1>6. MutualExclusion' /\ WaitQueueValid'
    BY <1>1, <1>3, <1>4, ZenonT(60) DEF MutualExclusion, WaitQueueValid
  <1>7. HolderIsOwner' /\ CountIsClaims'
    BY <1>1, <1>3, <1>4, EmptyCounted DEF HolderIsOwner, CountIsClaims
  <1>8. \A u \in Thread : WaiterOK(u)'
    BY <1>1, <1>2, ZenonT(60)
       DEF MutexInv, WaiterOK, schedVars, runVars, waitVars, timeVars
  <1>9. DestroyedOK'
    BY <1>1, ZenonT(60) DEF DestroyedOK
  <1> QED
    BY <1>5, <1>6, <1>7, <1>8, <1>9, ZenonT(60) DEF MutexInv, WaitObjectInv

\* An acquire of a mutex on which nobody has a claim.
LEMMA InvAcquireFree ==
  ASSUME CountingLaws,
         MutexInv, SchedInv(Frames)', NEW t \in Thread, Calls(t), magic,
         count' = count + 1, ~contended(count'), holder' = t,
         owns' = owns \union {t}, UNCHANGED <<schedVars, magic, wait_magic>>
  PROVE  MutexInv'
  <1>1. count \in Int /\ pc[t] = "user"
    BY DEF MutexInv, MutexTypeOK, Calls, InUser
  <1>2. count = 0 /\ owns = {} /\ Claiming = {}
    <2>1. count >= 0
      BY Counting DEF MutexInv, CountIsClaims
    <2>2. count = 0
      BY <1>1, <2>1 DEF contended
    <2> QED
      BY <2>2, Counting
  <1>3. Claiming' = {} /\ \A u \in Thread : Handed(u)' => u \in Claiming'
    BY <1>2 DEF Claiming, Handed, schedVars, runVars, waitVars
  <1>4. MutexTypeOK'
    BY <1>1 DEF MutexInv, MutexTypeOK, TypeOK, SchedInv
  <1>5. MutualExclusion'
    BY <1>2, <1>3 DEF MutualExclusion
  <1>6. HolderIsOwner'
    BY <1>2, MutexAssumption DEF HolderIsOwner
  <1>7. CountIsClaims'
    <2>1. Cardinality({t}) = 1 /\ Cardinality({}) = 0
      BY SingleCounted, EmptyCounted, ZenonT(60)
    <2> QED
      BY <1>2, <1>3, <2>1 DEF CountIsClaims
  <1>8. \A u \in Thread : WaiterOK(u)'
    BY <1>1 DEF MutexInv, WaiterOK, schedVars, runVars, waitVars, timeVars
  <1>9. DestroyedOK'
    BY DEF DestroyedOK
  <1> QED
    BY <1>4, <1>5, <1>6, <1>7, <1>8, <1>9, ValidKept, ZenonT(60) DEF MutexInv, WaitObjectInv

\* An acquire that has to wait adds a claim.
LEMMA InvAcquireWait ==
  ASSUME CountingLaws, MutexInv, SchedInv(Frames)', NEW t \in Thread, Calls(t),
         magic, t \notin owns, count' = count + 1, NEW timeout \in Timeouts,
         wait_queue_block(wait, timeout, critical_section_count + 1),
         goto(t, "wait"), UNCHANGED <<holder, owns, magic, wait_magic>>
  PROVE  MutexInv'
  <1>1. /\ SchedInv(Frames) /\ pc \in [Thread -> DOMAIN Frames] /\ pc[t] = "user"
        /\ wait_queue_block_ret \in [Thread -> Status] /\ count \in Int
        /\ block_timeout \in [Thread -> Timeout]
    BY ZenonT(60) DEF MutexInv, MutexTypeOK, WaitObjectInv, SchedInv, SchedTypeOK, Calls, InUser
  <1>2. /\ wait_queue_block_ret' = [wait_queue_block_ret EXCEPT ![t] = "NO_ERROR"]
        /\ pc' = [pc EXCEPT ![t] = "wait"]
        /\ \A u \in Thread : state'[u] = "BLOCKED" <=> state[u] = "BLOCKED" \/ u = t
        /\ block_timeout' = [block_timeout EXCEPT ![t] = timeout]
        /\ \A u \in Thread : timer'[u] = "timeout" =>
             timer[u] = "timeout" \/ (u = t /\ timeout # "INFINITE")
    BY <1>1, BlockedCaller, ZenonT(60)
  <1>3. Claiming' = Claiming \union {t} /\ t \notin Claiming
    BY <1>1, <1>2, ZenonT(60) DEF Claiming
  <1>4. \A u \in Thread : Handed(u)' => Handed(u)
    BY <1>1, <1>2, ZenonT(60) DEF Handed
  <1>5. MutexTypeOK'
    BY <1>1 DEF MutexInv, MutexTypeOK, TypeOK, SchedInv
  <1>6. MutualExclusion'
    BY <1>4 DEF MutexInv, MutualExclusion
  <1>7. HolderIsOwner'
    BY DEF MutexInv, HolderIsOwner
  <1>8. CountIsClaims'
    <2>1. Cardinality(Claiming') = Cardinality(Claiming) + 1
      BY <1>3, Counting, AddedCounted, ZenonT(60)
    <2> QED
      BY <2>1, Counting DEF MutexInv, CountIsClaims
  <1>9. \A u \in Thread : WaiterOK(u)'
    BY <1>1, <1>2, ZenonT(60) DEF MutexInv, WaiterOK
  <1>10. DestroyedOK'
    BY DEF DestroyedOK
  <1> QED
    BY <1>5, <1>6, <1>7, <1>8, <1>9, <1>10, ValidKept, ZenonT(60) DEF MutexInv, WaitObjectInv

\* The waiter runs again: its claim turns into ownership, is withdrawn, or was
\* a claim on a mutex that is gone.
LEMMA InvAcquireReturn ==
  ASSUME CountingLaws,
         MutexInv, SchedInv(Frames)', NEW t \in Thread, mutex_acquire_return(t)
  PROVE  MutexInv'
  <1> DEFINE r == wait_queue_block_ret[t]
  <1>1. /\ SchedInv(Frames) /\ pc \in [Thread -> DOMAIN Frames]
        /\ wait_queue_block_ret \in [Thread -> Status] /\ count \in Int
        /\ timer \in [Thread -> {"none", "sleep", "timeout"}]
        /\ block_timeout \in [Thread -> Timeout]
        /\ owns \subseteq Thread
    BY ZenonT(60) DEF MutexInv, MutexTypeOK, WaitObjectInv, SchedInv, SchedTypeOK
  <1>2. /\ Running(t) /\ pc[t] = "wait" /\ acquire_result(t)
        /\ magic' = magic /\ wait_magic' = wait_magic
        /\ pc' = [pc EXCEPT ![t] = "user"] /\ UNCHANGED <<state, wait_queue_block_ret>>
        /\ block_timeout' = [block_timeout EXCEPT ![t] = "INFINITE"]
        /\ timer' = IF block_timeout[t] # "INFINITE"
                    THEN [timer EXCEPT ![t] = "none"] ELSE timer
    BY <1>1, ZenonT(60) DEF mutex_acquire_return, leave, goto, wait_queue_unblocked, waitVars
  <1>22. \A u \in Thread : timer'[u] = "timeout" => timer[u] = "timeout" /\ u # t
    BY <1>1, <1>2, ZenonT(60) DEF MutexInv, WaiterOK
  <1>3. state[t] = "RUNNING"
    <2>1. pc[t] \notin {"exit_wake", "wake_all"} /\ Running(t)
      BY <1>2, ZenonT(60)
    <2> QED
      BY <1>1, <2>1, FramesFit, RunningFacts, ZenonT(60)
  <1>4. t \notin owns /\ r \in {"NO_ERROR", "ERR_TIMED_OUT", "ERR_OBJECT_DESTROYED"}
    BY <1>1, <1>2, ZenonT(60) DEF MutexInv, WaiterOK, Status
  <1>5. Claiming' = Claiming \ {t} /\ (r # "ERR_OBJECT_DESTROYED" => t \in Claiming)
        /\ (r = "ERR_OBJECT_DESTROYED" => t \notin Claiming)
    BY <1>1, <1>2, ZenonT(60) DEF Claiming
  <1>6. \A u \in Thread : Handed(u)' <=> Handed(u) /\ u # t
    BY <1>1, <1>2, ZenonT(60) DEF Handed
  <1>7. r # "ERR_OBJECT_DESTROYED" => magic
    BY <1>3, <1>5, ZenonT(60) DEF MutexInv, DestroyedOK
  <1>8. CASE r = "NO_ERROR"
    <2>1. Handed(t)
      BY <1>2, <1>3, <1>8, ZenonT(60) DEF Handed
    <2>2. owns = {} /\ \A u \in Thread : u # t => ~Handed(u)
      BY <1>1, <1>4, <2>1, ZenonT(60) DEF MutexInv, MutualExclusion
    <2>3. holder' = t /\ owns' = {t} /\ count' = count
      BY <1>2, <1>8, <2>2, ZenonT(60) DEF acquire_result
    <2>4. MutexTypeOK'
      BY ValidKept, <1>1, <1>2, <2>3, ZenonT(60) DEF MutexInv, MutexTypeOK, TypeOK, SchedInv
    <2>5. MutualExclusion' /\ HolderIsOwner'
      BY <1>6, <2>2, <2>3, MutexAssumption, ZenonT(60) DEF MutualExclusion, HolderIsOwner
    <2>6. CountIsClaims'
      <3>1. Cardinality(Claiming') = Cardinality(Claiming) - 1
        BY <1>5, <1>8, Counting, RemovedCounted, ZenonT(60)
      <3>2. Cardinality({t}) = 1 /\ Cardinality({}) = 0
        BY SingleCounted, EmptyCounted, ZenonT(60)
      <3> QED
        BY <1>2, <2>2, <2>3, <3>1, <3>2, Counting DEF MutexInv, CountIsClaims
    <2>7. \A u \in Thread : WaiterOK(u)'
      BY <1>1, <1>2, <1>22, <1>3, <2>3, ZenonT(60) DEF MutexInv, WaiterOK
    <2>8. DestroyedOK'
      BY <1>2, <1>7, <1>8, ZenonT(60) DEF DestroyedOK
    <2> QED
      BY <1>2, <2>4, <2>5, <2>6, <2>7, <2>8, ValidKept, ZenonT(60) DEF MutexInv, WaitObjectInv
  <1>9. CASE r # "NO_ERROR"
    <2>1. /\ UNCHANGED <<holder, owns>>
          /\ count' = IF r = "ERR_TIMED_OUT" THEN count - 1 ELSE count
      BY <1>2, <1>4, <1>9, ZenonT(60) DEF acquire_result
    <2>2. MutexTypeOK'
      BY ValidKept, <1>1, <1>2, <2>1 DEF MutexInv, MutexTypeOK, TypeOK, SchedInv
    <2>3. MutualExclusion' /\ HolderIsOwner'
      BY <1>2, <1>6, <2>1, ZenonT(60) DEF MutexInv, MutualExclusion, HolderIsOwner
    <2>4. CountIsClaims'
      <3>1. CASE r = "ERR_TIMED_OUT"
        <4>1. Cardinality(Claiming') = Cardinality(Claiming) - 1
          BY <1>5, <3>1, Counting, RemovedCounted, ZenonT(60)
        <4> QED
          BY <1>2, <2>1, <3>1, <4>1, Counting DEF MutexInv, CountIsClaims
      <3>2. CASE r = "ERR_OBJECT_DESTROYED"
        <4>1. Claiming' = Claiming
          BY <1>5, <3>2, ZenonT(60)
        <4> QED
          BY <1>2, <2>1, <3>2, <4>1, ZenonT(60) DEF MutexInv, CountIsClaims
      <3> QED
        BY <1>4, <1>9, <3>1, <3>2, ZenonT(60)
    <2>5. \A u \in Thread : WaiterOK(u)'
      BY <1>1, <1>2, <1>22, <1>3, <2>1, ZenonT(60) DEF MutexInv, WaiterOK
    <2>6. DestroyedOK'
      BY <1>1, <1>2, <1>5, <2>1, ZenonT(60) DEF MutexInv, DestroyedOK
    <2> QED
      BY <1>2, <2>2, <2>3, <2>4, <2>5, <2>6, ValidKept, ZenonT(60) DEF MutexInv, WaitObjectInv
  <1> QED
    BY <1>8, <1>9, ZenonT(60)

\* A release withdraws the owner's claim and hands the mutex to one waiter.
LEMMA InvRelease ==
  ASSUME CountingLaws,
         MutexInv, SchedInv(Frames)', NEW t \in Thread, mutex_release(t)
  PROVE  MutexInv'
  <1>1. /\ SchedInv(Frames) /\ pc[t] = "user" /\ count \in Int
        /\ wait_queue_block_ret \in [Thread -> Status]
    BY ZenonT(60) DEF MutexInv, MutexTypeOK, WaitObjectInv, SchedInv, SchedTypeOK, Calls,
           InUser, mutex_release
  <1>2. /\ Calls(t) /\ magic /\ t \in owns /\ holder' = NULL /\ count' = count - 1
        /\ owns' = owns \ {t} /\ magic' = magic /\ wait_magic' = wait_magic
    BY DEF mutex_release
  <1>3. owns = {t} /\ owns' = {} /\ \A u \in Thread : ~Handed(u)
    <2>1. \A u \in Thread : u \in owns \/ Handed(u) => u = t
      BY <1>2, ZenonT(60) DEF MutexInv, MutualExclusion
    <2>2. ~Handed(t) /\ owns \subseteq Thread
      BY <1>1, ZenonT(60) DEF Handed, MutexInv, MutexTypeOK
    <2> QED
      BY <1>2, <2>1, <2>2, ZenonT(60)
  <1>4. Quiet \/ \E h \in Thread : Woken(h, "NO_ERROR")
    <2>1. CASE UNCHANGED schedVars
      BY <2>1, ZenonT(60) DEF schedVars, runVars, waitVars, timeVars, Quiet
    <2>2. CASE /\ wait_list[wait] # <<>>
               /\ wake_one_resched(wait, "NO_ERROR", critical_section_count + 1)
               /\ goto(t, "wake") /\ UNCHANGED timeVars
      BY <1>1, <1>2, <2>2, WakeOneWakes, ZenonT(60)
    <2> QED
      BY <2>1, <2>2, ZenonT(60) DEF mutex_release
  <1>5. Claiming' = Claiming
    BY <1>1, <1>4 DEF Claiming, Quiet, Woken, MutexInv, WaiterOK
  <1>6. \A u, v \in Thread : Handed(u)' /\ Handed(v)' => u = v
    <2>1. CASE Quiet
      BY <1>3, <2>1, ZenonT(60) DEF Quiet, Handed
    <2>2. CASE \E h \in Thread : Woken(h, "NO_ERROR")
      BY <1>1, <1>3, <2>2 DEF Woken, Handed
    <2> QED
      BY <1>4, <2>1, <2>2, ZenonT(60)
  <1>7. MutexTypeOK'
    BY ValidKept, <1>1, <1>2, <1>3 DEF MutexInv, MutexTypeOK, TypeOK, SchedInv
  <1>8. MutualExclusion' /\ HolderIsOwner' /\ DestroyedOK'
    BY <1>2, <1>3, <1>6, ZenonT(60) DEF MutualExclusion, HolderIsOwner, DestroyedOK
  <1>9. CountIsClaims'
    <2>1. Cardinality({t}) = 1 /\ Cardinality({}) = 0
      BY SingleCounted, EmptyCounted, ZenonT(60)
    <2>2. count = 1 + Cardinality(Claiming)
      BY <1>2, <1>3, <2>1, ZenonT(60) DEF MutexInv, CountIsClaims
    <2>3. count' = Cardinality({}) + Cardinality(Claiming)
      BY <1>2, <2>1, <2>2, Counting
    <2> QED
      BY <1>3, <1>5, <2>3, ZenonT(60) DEF CountIsClaims
  <1>10. \A u \in Thread : WaiterOK(u)'
    <2>1. CASE Quiet
      BY <1>2, <1>3, <2>1, ZenonT(60) DEF MutexInv, WaiterOK, Quiet
    <2>2. CASE \E h \in Thread : Woken(h, "NO_ERROR")
      <3>1. PICK h \in Thread : Woken(h, "NO_ERROR")
        BY <2>2, ZenonT(60)
      <3>2. ASSUME NEW u \in Thread PROVE WaiterOK(u)'
        <4>1. WaiterOK(u) /\ wait_queue_block_ret \in [Thread -> Status]
          BY <1>1 DEF MutexInv, SchedInv, SchedTypeOK
        <4>2. /\ wait_queue_block_ret'[u] = IF u = h THEN "NO_ERROR"
                                            ELSE wait_queue_block_ret[u]
              /\ block_timeout' = block_timeout /\ u \notin owns'
          BY <1>3, <3>1, <4>1, ZenonT(60) DEF Woken
        <4> QED
          BY <1>2, <3>1, <4>1, <4>2, ZenonT(60) DEF WaiterOK, Woken
      <3> QED
        BY <3>2
    <2> QED
      BY <1>4, <2>1, <2>2, ZenonT(60)
  <1> QED
    BY <1>2, <1>7, <1>8, <1>9, <1>10, ValidKept, ZenonT(60) DEF MutexInv, WaitObjectInv

\* mutex_destroy() finds only blocked threads with a claim, and wakes them.
LEMMA InvDestroy ==
  ASSUME CountingLaws,
         MutexInv, SchedInv(Frames)', NEW t \in Thread, mutex_destroy(t)
  PROVE  MutexInv'
  <1>1. /\ SchedInv(Frames) /\ pc[t] = "user" /\ count \in Int
        /\ wait_queue_block_ret \in [Thread -> Status] /\ current_thread = t
        /\ pc \in [Thread -> DOMAIN Frames] /\ owns \subseteq Thread
    BY ZenonT(60) DEF MutexInv, MutexTypeOK, WaitObjectInv, SchedInv, SchedTypeOK, Calls,
           InUser, Running, mutex_destroy
  <1>2. /\ NoTimedWait /\ Calls(t) /\ magic /\ magic' = FALSE /\ count' = 0
        /\ owns' = owns \ {t} /\ holder' = holder /\ (t \in owns \/ count = 0)
    BY DEF mutex_destroy
  <1>3. owns' = {} /\ \A u \in Claiming : state[u] = "BLOCKED"
    <2>1. CASE count = 0
      BY <1>2, <2>1, Counting, ZenonT(60)
    <2>2. CASE t \in owns
      <3>1. \A u \in Thread : u \in owns \/ Handed(u) => u = t
        BY <2>2 DEF MutexInv, MutualExclusion
      <3>2. ~Handed(t)
        BY <1>1, ZenonT(60) DEF Handed
      <3>3. ASSUME NEW u \in Claiming PROVE state[u] = "BLOCKED"
        <4>1. u \in Thread /\ ~Handed(u) /\ pc[u] = "wait"
          BY <3>1, <3>2, ZenonT(60) DEF Claiming
        <4>2. wait_queue_block_ret[u] = "NO_ERROR"
          BY <1>1, <1>2, <4>1, ZenonT(60) DEF MutexInv, WaiterOK, Claiming, Status, NoTimedWait
        <4> QED
          BY <4>1, <4>2, ZenonT(60) DEF Handed
      <3> QED
        BY <1>1, <1>2, <3>1, <3>3, ZenonT(60)
    <2> QED
      BY <1>2, <2>1, <2>2, ZenonT(60)
  <1>4. /\ UNCHANGED <<wait_queue_block_ret, timer, block_timeout, wait_list>>
        /\ \/ pc' = [pc EXCEPT ![t] = "wake_all"]
           \/ UNCHANGED pc /\ wait_count[wait] = 0
    BY ZenonT(60) DEF mutex_destroy, wait_queue_destroy, schedVars, waitVars, timeVars, goto
  <1>5. \A u \in Thread : state'[u] = "BLOCKED" <=> state[u] = "BLOCKED"
    BY <1>1, <1>4, BlockedThreads, ZenonT(60)
  <1>6. Claiming' = Claiming
    BY <1>1, <1>4, ZenonT(60) DEF Claiming
  <1>7. \A u \in Thread : ~Handed(u)'
    <2>1. ASSUME NEW u \in Thread, Handed(u)' PROVE FALSE
      <3>1. u \in Claiming'
        BY <2>1, ZenonT(60) DEF Handed, Claiming
      <3>2. state'[u] = "BLOCKED"
        BY <1>3, <1>5, <1>6, <3>1, ZenonT(60)
      <3> QED
        BY <2>1, <3>2, ZenonT(60) DEF Handed
    <2> QED
      BY <2>1, ZenonT(60)
  <1>8. MutexTypeOK'
    <2>0. wait_magic' \in BOOLEAN
      <3>1. wait_magic' = wait_magic \/ wait_magic' = FALSE
        BY DEF mutex_destroy, wait_queue_destroy
      <3>2. wait_magic \in BOOLEAN
        BY ZenonT(60) DEF MutexInv, MutexTypeOK, TypeOK
      <3> QED
        BY <3>1, <3>2, Zenon
    <2>1. TypeOK' /\ holder' \in Thread \union {NULL}
      BY <1>2, <2>0, ZenonT(60) DEF MutexInv, MutexTypeOK, TypeOK, SchedInv
    <2>2. magic' \in BOOLEAN
      BY <1>2, Zenon
    <2>3. count' \in Int /\ owns' \in SUBSET Thread
      BY <1>2, <1>3
    <2> QED
      BY <2>1, <2>2, <2>3, ZenonT(60) DEF MutexTypeOK
  <1>9. MutualExclusion' /\ HolderIsOwner' /\ CountIsClaims' /\ WaitQueueValid'
    BY <1>2, <1>3, <1>7, ZenonT(60)
       DEF MutualExclusion, HolderIsOwner, CountIsClaims, WaitQueueValid
  <1>10. \A u \in Thread : WaiterOK(u)'
    <2>1. \A u \in Thread : /\ pc'[u] = "wait" <=> pc[u] = "wait"
                            /\ pc'[u] = "wake_quiet" <=> pc[u] = "wake_quiet"
      BY <1>1, <1>4, ZenonT(60)
    <2> QED
      BY <1>2, <1>3, <1>4, <1>5, <2>1, ZenonT(60) DEF MutexInv, WaiterOK, NoTimedWait
  <1>11. DestroyedOK'
    <2>1. CASE pc' = [pc EXCEPT ![t] = "wake_all"]
      <3>1. pc'[t] = "wake_all"
        BY <1>1, <2>1, ZenonT(60)
      <3>2. Claiming \subseteq Thread
        BY DEF Claiming
      <3> QED
        BY <1>2, <1>3, <1>5, <1>6, <3>1, <3>2, ZenonT(60) DEF DestroyedOK
    <2>2. CASE wait_count[wait] = 0
      <3>1. Range(wait_list[wait]) = {}
        <4>1. Len(wait_list[wait]) = 0 /\ wait_list[wait] \in Seq(Thread)
          BY <1>1, <2>2, WaitObjectAssumption, ZenonT(60)
             DEF SchedInv, SchedTypeOK, WaitQueueCoherent, WaitQueueOK
        <4> QED
          BY <4>1, EmptyList, ZenonT(60)
      <3>2. Claiming' = {}
        BY <1>1, <1>3, <1>6, <3>1, BlockedThreads, ZenonT(60) DEF Claiming
      <3> QED
        BY <1>2, <1>3, <3>2, ZenonT(60) DEF DestroyedOK
    <2> QED
      BY <1>4, <2>1, <2>2, ZenonT(60)
  <1> QED
    BY <1>8, <1>9, <1>10, <1>11, ZenonT(60) DEF MutexInv, WaitObjectInv

\* When the loop of wait_queue_wake_all() has ended nobody waits.
LEMMA InvWakeAllFinish ==
  ASSUME MutexInv, SchedInv(Frames)', NEW t \in Thread, wake_all_finish(t, "destroy"),
         UNCHANGED mutexVars
  PROVE  MutexInv'
  <1>00. UNCHANGED <<magic, wait_magic>>
    BY ZenonT(60) DEF mutexVars
  <1>1. SchedInv(Frames) /\ pc[t] = "wake_all" /\ wait_list[wait] = <<>>
    BY ZenonT(60) DEF MutexInv, WaitObjectInv, wake_all_finish, woken_all
  <1>2. /\ UNCHANGED <<wait_queue_block_ret, block_timeout>>
        /\ \A u \in Thread :
             /\ pc'[u] = "wait" <=> pc[u] = "wait"
             /\ pc'[u] = "wake_all" <=> pc[u] = "wake_all" /\ u # t
             /\ pc'[u] = "wake_quiet" <=> pc[u] = "wake_quiet"
             /\ state'[u] = "BLOCKED" <=> state[u] = "BLOCKED"
             /\ timer'[u] = "timeout" => timer[u] = "timeout"
    BY <1>1, QuietCalls, ZenonT(60)
  <1>3. ~magic /\ owns = {}
    BY <1>1 DEF MutexInv, WaiterOK, DestroyedOK
  <1>4. Claiming = {}
    <2>1. \A u \in Thread : state[u] # "BLOCKED"
      BY <1>1, BlockedThreads DEF Range
    <2> QED
      BY <1>3, <2>1, ZenonT(60) DEF MutexInv, DestroyedOK, Claiming
  <1>5. Claiming' = {} /\ \A u \in Thread : Handed(u)' => u \in Claiming'
    BY <1>2, <1>4, ZenonT(60) DEF Claiming, Handed
  <1>6. MutexTypeOK'
    BY ZenonT(60) DEF MutexInv, MutexTypeOK, TypeOK, SchedInv, mutexVars
  <1>7. MutualExclusion' /\ HolderIsOwner' /\ CountIsClaims' /\ DestroyedOK'
    BY <1>3, <1>5, ZenonT(60) DEF MutexInv, MutualExclusion, HolderIsOwner, CountIsClaims,
                      DestroyedOK, mutexVars
  <1>8. \A u \in Thread : WaiterOK(u)'
    BY <1>2, <1>3, ZenonT(60) DEF MutexInv, WaiterOK, mutexVars
  <1> QED
    BY <1>6, <1>7, <1>8, <1>00, ValidKept, ZenonT(60) DEF MutexInv, WaitObjectInv

\* The return of mutex_destroy() clears the magic of the wait queue.
LEMMA InvDestroyReturn ==
  ASSUME MutexInv, SchedInv(Frames)', NEW t \in Thread, mutex_destroy_return(t)
  PROVE  MutexInv'
  <1>1. /\ SchedInv(Frames) /\ pc[t] = "destroy" /\ wait_magic' = FALSE
        /\ wait_queue_destroy_return(t) /\ UNCHANGED <<magic, holder, count, owns>>
    BY ZenonT(60) DEF MutexInv, WaitObjectInv, mutex_destroy_return, wait_queue_destroy_return
  <1>2. Quiet
    BY <1>1, QuietCalls, ZenonT(60)
  <1>3. Claiming' = Claiming /\ \A u \in Thread : Handed(u)' <=> Handed(u)
    BY <1>2, ZenonT(60) DEF Quiet, Claiming, Handed
  <1>4. MutexTypeOK'
    <2>1. wait_magic' \in BOOLEAN
      BY <1>1, Zenon
    <2> QED
      BY <1>1, <2>1, ZenonT(60) DEF MutexInv, MutexTypeOK, TypeOK, SchedInv
  <1>5. ~magic
    BY <1>1, ZenonT(60) DEF MutexInv, WaiterOK
  <1>6. MutualExclusion' /\ HolderIsOwner' /\ CountIsClaims' /\ WaitQueueValid'
    BY <1>1, <1>3, <1>5, ZenonT(60) DEF MutexInv, MutualExclusion, HolderIsOwner,
                            CountIsClaims, WaitQueueValid
  <1>7. \A u \in Thread : WaiterOK(u)'
    BY <1>1, <1>2, ZenonT(60) DEF MutexInv, WaiterOK, Quiet
  <1>8. DestroyedOK'
    <2>1. Claiming \subseteq Thread
      BY ZenonT(60) DEF Claiming
    <2> QED
      BY <1>1, <1>2, <1>3, <2>1, ZenonT(60) DEF MutexInv, DestroyedOK, Quiet
  <1> QED
    BY <1>4, <1>6, <1>7, <1>8, ZenonT(60) DEF MutexInv, WaitObjectInv

\* Every step keeps the invariant of the mutex.
LEMMA MutexStep ==
  ASSUME CountingLaws, MutexInv, [Next]_vars
  PROVE  MutexInv'
  <1>1. SchedInv(Frames) /\ SchedInv(Frames)'
    BY SchedStep DEF MutexInv, WaitObjectInv
  <1>2. CASE UNCHANGED vars
    <2>1. Quiet /\ UNCHANGED mutexVars
      BY <1>2, ZenonT(60) DEF vars, schedVars, runVars, waitVars, timeVars, Quiet
    <2> QED
      BY <1>1, <2>1, InvQuiet, ZenonT(60)
  <1>3. CASE Irq /\ UNCHANGED mutexVars
    BY <1>1, <1>3, IrqWakes, InvQuiet, InvWoken, ZenonT(60)
  <1>4. ASSUME NEW t \in Thread, thread_sleep(t) \/ Return(t), UNCHANGED mutexVars
        PROVE  MutexInv'
    <2>1. pc[t] # "wake_all"
      BY <1>4, ZenonT(60) DEF thread_sleep, Return, Calls, InUser
    <2> QED
      BY <1>1, <1>4, <2>1, QuietCalls, InvQuiet, ZenonT(60)
  <1>5. ASSUME NEW t \in Thread, NEW timeout \in Timeouts,
               mutex_acquire_timeout(t, timeout)
        PROVE  MutexInv'
    BY <1>1, <1>5, InvAcquireFree, InvAcquireWait, ZenonT(60) DEF mutex_acquire_timeout
  <1>6. ASSUME NEW t \in Thread, wake_all_step(t, "ERR_OBJECT_DESTROYED"),
               UNCHANGED mutexVars
        PROVE  MutexInv'
    <2>1. pc[t] # "wake_quiet"
      BY ZenonT(60) DEF MutexInv, WaiterOK
    <2>2. ~magic
      BY <1>6, <2>1, ZenonT(60) DEF MutexInv, WaiterOK, wake_all_step
    <2> QED
      BY <1>1, <1>6, <2>2, WakeAllWakes, InvWoken, ZenonT(60)
  <1> QED
    BY <1>1, <1>2, <1>3, <1>4, <1>5, <1>6, InvInit, InvAcquireReturn, InvRelease,
       InvDestroy, InvDestroyReturn, InvWakeAllFinish, ZenonT(60) DEF Next

\* Init of module Mutex satisfies the invariant.
LEMMA MutexInitInv ==
  ASSUME PrioritiesOrdered, CountingLaws, Init
  PROVE  MutexInv
  <1>1. SchedInv(Frames)
    BY SchedInitInv, ZenonT(60) DEF Init
  <1>2. /\ magic = TRUE /\ holder = NULL /\ count = 0 /\ owns = {}
        /\ wait_magic = TRUE
        /\ \A t \in Thread :
             /\ pc[t] \in {"user", "sleep"} /\ state[t] # "BLOCKED"
             /\ timer[t] # "timeout" /\ wait_queue_block_ret[t] = "NO_ERROR"
    BY ZenonT(60) DEF Init, SchedInit
  <1>3. Claiming = {} /\ \A t \in Thread : ~Handed(t)
    BY <1>2, ZenonT(60) DEF Claiming, Handed
  <1>4. MutexTypeOK
    <2>1. wait_magic \in BOOLEAN /\ magic \in BOOLEAN
      BY <1>2, Zenon
    <2> QED
      BY <1>1, <1>2, <2>1 DEF MutexTypeOK, TypeOK, SchedInv
  <1>5. MutualExclusion /\ HolderIsOwner /\ CountIsClaims /\ WaitQueueValid
        /\ DestroyedOK
    BY <1>2, <1>3, EmptyCounted
       DEF MutualExclusion, HolderIsOwner, CountIsClaims, WaitQueueValid, DestroyedOK
  <1>6. \A t \in Thread : WaiterOK(t)
    BY <1>2 DEF WaiterOK
  <1> QED
    BY <1>1, <1>4, <1>5, <1>6, ZenonT(60) DEF MutexInv, WaitObjectInv

\* A thread that takes the mutex without waiting found count at zero.
LEMMA NobodyOvertaken ==
  ASSUME CountingLaws,
         MutexInv, [Next]_vars, NEW t \in owns' \ owns, pc[t] = "user"
  PROVE  wait_list[wait] = <<>> /\ \A u \in Thread : ~Handed(u)
  <1>1. magic /\ ~contended(count + 1)
    <2>1. ASSUME UNCHANGED mutexVars PROVE FALSE
      BY <2>1, ZenonT(60) DEF mutexVars
    <2>2. ASSUME NEW u \in Thread,
                 \/ mutex_init(u) \/ mutex_release(u) \/ mutex_destroy(u)
                 \/ mutex_destroy_return(u)
          PROVE  FALSE
      <3>1. owns' = owns \/ owns' = owns \ {u}
        BY <2>2, ZenonT(60)
           DEF mutex_init, mutex_release, mutex_destroy, mutex_destroy_return
      <3> QED
        BY <3>1, ZenonT(60)
    <2>3. ASSUME NEW u \in Thread, mutex_acquire_return(u) PROVE FALSE
      <3>1. pc[u] = "wait" /\ (owns' = owns \/ owns' = owns \union {u})
        BY <2>3, ZenonT(60) DEF mutex_acquire_return, acquire_result
      <3> QED
        BY <3>1, ZenonT(60)
    <2>4. ASSUME NEW u \in Thread, NEW timeout \in Timeouts,
                 mutex_acquire_timeout(u, timeout)
          PROVE  magic /\ ~contended(count + 1)
      BY <2>4, ZenonT(60) DEF mutex_acquire_timeout
    <2> QED
      BY <2>1, <2>2, <2>3, <2>4, ZenonT(60) DEF Next, vars
  <1>2. Claiming = {}
    <2>1. count \in Int /\ count >= 0
      BY <1>1, Counting DEF MutexInv, MutexTypeOK, CountIsClaims
    <2>2. count = 0
      BY <1>1, <2>1 DEF contended
    <2> QED
      BY <1>1, <2>2, Counting, ZenonT(60)
  <1>3. \A u \in Thread : ~Handed(u) /\ state[u] # "BLOCKED"
    <2>1. \A u \in Thread : pc[u] = "wait" /\ wait_queue_block_ret[u] = "NO_ERROR"
                              => u \in Claiming
      BY DEF Claiming
    <2> QED
      BY <1>2, <2>1, ZenonT(60) DEF Handed, MutexInv, WaiterOK
  <1>4. wait_list[wait] = <<>>
    BY <1>3, HeadBlocked, ZenonT(60) DEF MutexInv, WaitObjectInv
  <1> QED
    BY <1>3, <1>4, ZenonT(60)

-----------------------------------------------------------------------------
(* The mutex implements the lock as long as nobody waits with a timeout or *)
(* destroys it.                                                            *)

\* Nobody times out and nobody is told that the mutex is gone.
Undisturbed ==
  magic /\ \A t \in Thread :
    block_timeout[t] = "INFINITE" /\ wait_queue_block_ret[t] = "NO_ERROR"

\* The inductive invariant under which a step of the mutex is one of the lock.
LockInv == MutexInv /\ Undisturbed /\ WaitsForAnOwner

\* The list without its head is its tail.
LEMMA DeleteHead ==
  ASSUME NEW T, NEW s \in Seq(T), IsInjective(s), s # <<>>
  PROVE  list_delete(s, Head(s)) = Tail(s)
  <1>1. 1 \in 1 .. Len(s) /\ s[1] = Head(s)
    OBVIOUS
  <1>2. \A i \in 1 .. Len(s) : s[i] = Head(s) => i = 1
    BY <1>1 DEF IsInjective
  <1>3. (CHOOSE i \in 1 .. Len(s) : s[i] = Head(s)) = 1
    BY <1>1, <1>2
  <1>4. list_delete(s, Head(s))
          = [j \in 1 .. (Len(s) - 1) |-> IF j < 1 THEN s[j] ELSE s[j + 1]]
    BY <1>3, ZenonT(60) DEF list_delete
  <1> QED
    BY <1>4

\* The thread that a set with at most one element stands for.
LEMMA OnlyMember ==
  ASSUME NEW S \in SUBSET Thread, NEW t \in S, \A u \in S : u = t
  PROVE  only(S) = t
  BY DEF only

\* lock_owner is the possessor, and nobody when there is none.
LEMMA OwnerPossesses ==
  ASSUME MutexInv
  PROVE  /\ \A t \in Possessors : lock_owner = t
         /\ Possessors = {} => lock_owner = NULL
         /\ lock_owner \in Possessors \union {NULL}
  <1>1. Possessors \subseteq Thread /\ \A t, u \in Possessors : t = u
    BY ZenonT(60) DEF Possessors, MutexInv, MutualExclusion
  <1>2. \A t \in Possessors : lock_owner = t
    BY <1>1, OnlyMember, ZenonT(60) DEF lock_owner
  <1>3. Possessors = {} => lock_owner = NULL
    BY ZenonT(60) DEF lock_owner, only
  <1> QED
    BY <1>2, <1>3, ZenonT(60)

\* Nobody is on the queue but blocked threads, which wait for their acquire.
LEMMA Queued ==
  ASSUME LockInv
  PROVE  /\ wait_list[wait] \in Seq(Thread) /\ IsInjective(wait_list[wait])
         /\ wait_list \in [WaitQueue -> Seq(Thread)] /\ wait \in WaitQueue
         /\ \A i \in 1 .. Len(wait_list[wait]) :
              /\ wait_list[wait][i] \in Thread
              /\ state[wait_list[wait][i]] = "BLOCKED"
              /\ wait_list[wait][i] \in Claiming
         /\ \A t \in Thread : state[t] = "BLOCKED" => wait_list[wait] # <<>>
  <1>1. /\ wait_list[wait] \in Seq(Thread) /\ IsInjective(wait_list[wait])
        /\ wait_list \in [WaitQueue -> Seq(Thread)] /\ wait \in WaitQueue
        /\ SchedInv(Frames)
    BY WaitObjectAssumption, ZenonT(60)
       DEF LockInv, MutexInv, WaitObjectInv, SchedInv, SchedTypeOK, WaitQueueCoherent,
           WaitQueueOK
  <1>2. \A u \in Thread : state[u] = "BLOCKED" <=> u \in Range(wait_list[wait])
    BY <1>1, BlockedThreads, ZenonT(60)
  <1>3. \A i \in 1 .. Len(wait_list[wait]) :
          wait_list[wait][i] \in Thread /\ wait_list[wait][i] \in Range(wait_list[wait])
    BY <1>1 DEF Range
  <1>4. \A u \in Thread : state[u] = "BLOCKED" => u \in Claiming
    BY ZenonT(60) DEF LockInv, MutexInv, WaiterOK, Undisturbed, Claiming
  <1>5. \A t \in Thread : state[t] = "BLOCKED" => wait_list[wait] # <<>>
    BY <1>1, <1>2 DEF Range
  <1> QED
    BY <1>1, <1>2, <1>3, <1>4, <1>5, ZenonT(60)

\* A step that changes neither the mutex nor who waits for it.
LEMMA LockQuiet ==
  ASSUME LockInv, MutexInv', Quiet, UNCHANGED <<mutexVars, wait_list>>
  PROVE  LockInv' /\ UNCHANGED <<lock_owner, wait_list[wait]>>
  <1>1. \A u \in Thread : Handed(u)' <=> Handed(u)
    BY ZenonT(60) DEF Quiet, Handed
  <1>2. UNCHANGED <<magic, owns, wait_list, wait_queue_block_ret, block_timeout>>
    BY ZenonT(60) DEF mutexVars, Quiet
  <1>3. Possessors' = Possessors
    BY <1>1, <1>2, ZenonT(60) DEF Possessors
  <1>4. UNCHANGED <<lock_owner, wait_list[wait]>>
    BY <1>2, <1>3, ZenonT(60) DEF lock_owner
  <1>5. Undisturbed' /\ WaitsForAnOwner'
    BY <1>1, <1>2, ZenonT(60) DEF LockInv, Undisturbed, WaitsForAnOwner
  <1> QED
    BY <1>4, <1>5, ZenonT(60) DEF LockInv

\* An acquire of a free mutex takes the free lock.
LEMMA LockAcquireFree ==
  ASSUME CountingLaws,
         LockInv, MutexInv', NEW t \in Thread, Calls(t), t \notin owns,
         count' = count + 1, ~contended(count'),
         owns' = owns \union {t}, UNCHANGED <<schedVars, magic, wait_magic>>
  PROVE  LockInv' /\ L!Acquire(t)
  <1>1. MutexInv /\ magic
    BY DEF LockInv, Undisturbed
  <1>2. count = 0
    <2>1. count \in Int /\ count >= 0
      BY <1>1, Counting DEF MutexInv, MutexTypeOK, CountIsClaims
    <2> QED
      BY <2>1 DEF contended
  <1>3. owns = {} /\ Claiming = {}
    BY <1>1, <1>2, Counting
  <1>4. /\ \A u \in Thread : ~Handed(u) /\ ~Handed(u)'
        /\ UNCHANGED <<wait_list, wait_queue_block_ret, block_timeout>>
    BY <1>3, ZenonT(60) DEF Claiming, Handed, schedVars, runVars, waitVars, timeVars
  <1>5. Possessors = {} /\ Possessors' = {t}
    BY <1>3, <1>4, ZenonT(60) DEF Possessors
  <1>6. lock_owner = NULL /\ lock_owner' = t
    <2>1. Possessors' \in SUBSET Thread /\ t \in Possessors' /\ \A u \in Possessors' : u = t
      BY <1>5, ZenonT(60)
    <2> QED
      BY <1>1, <1>5, <2>1, OwnerPossesses, OnlyMember, ZenonT(60) DEF lock_owner
  <1>7. \A i \in 1 .. Len(wait_list[wait]) : wait_list[wait][i] # t
    BY <1>3, Queued, ZenonT(60)
  <1>8. L!Acquire(t)
    BY <1>4, <1>6, <1>7, MutexAssumption, ZenonT(60) DEF L!Acquire
  <1>9. Undisturbed' /\ WaitsForAnOwner'
    BY <1>4, ZenonT(60) DEF LockInv, Undisturbed, WaitsForAnOwner
  <1> QED
    BY <1>8, <1>9, ZenonT(60) DEF LockInv

\* An acquire that has to wait finds an owner and joins the queue.
LEMMA LockAcquireWait ==
  ASSUME CountingLaws,
         LockInv, MutexInv', NEW t \in Thread, Calls(t), t \notin owns,
         count' = count + 1, contended(count'),
         wait_queue_block(wait, "INFINITE", critical_section_count + 1),
         goto(t, "wait"), UNCHANGED <<holder, owns, magic, wait_magic>>
  PROVE  LockInv' /\ L!Acquire(t)
  <1>1. /\ MutexInv /\ magic /\ SchedInv(Frames) /\ SchedInv(Frames)'
        /\ pc \in [Thread -> DOMAIN Frames] /\ pc[t] = "user" /\ Running(t)
        /\ wait_queue_block_ret \in [Thread -> Status]
        /\ block_timeout \in [Thread -> Timeout]
    BY ZenonT(60) DEF LockInv, Undisturbed, MutexInv, WaitObjectInv, SchedInv,
                      SchedTypeOK, Calls, InUser
  <1>2. /\ wait_queue_block_ret' = [wait_queue_block_ret EXCEPT ![t] = "NO_ERROR"]
        /\ pc' = [pc EXCEPT ![t] = "wait"]
        /\ \A u \in Thread : state'[u] = "BLOCKED" <=> state[u] = "BLOCKED" \/ u = t
        /\ block_timeout' = [block_timeout EXCEPT ![t] = "INFINITE"]
    BY <1>1, BlockedCaller, ZenonT(60)
  <1>3. state[t] = "RUNNING"
    <2>1. pc[t] \notin {"exit_wake", "wake_all"}
      BY <1>1, ZenonT(60)
    <2> QED
      BY <1>1, <2>1, FramesFit, RunningFacts, ZenonT(60)
  <1>4. wait_list'[wait] = Append(wait_list[wait], t)
    <2>1. current_thread = t
      BY <1>1, ZenonT(60) DEF Running
    <2>2. wait_list' = [wait_list EXCEPT ![wait] = list_add_tail(@, t)]
      BY <2>1, ZenonT(60) DEF wait_queue_block
    <2> QED
      BY <2>2, Queued, ZenonT(60) DEF list_add_tail
  <1>5. \A u \in Thread : Handed(u)' <=> Handed(u)
    BY <1>1, <1>2, ZenonT(60) DEF Handed
  <1>6. Possessors' = Possessors /\ lock_owner' = lock_owner /\ t \notin Possessors
    BY <1>1, <1>5, ZenonT(60) DEF Possessors, lock_owner, Handed
  <1>7. Possessors # {}
    <2>1. owns # {} \/ Claiming # {}
      <3>1. SUFFICES ASSUME owns = {}, Claiming = {} PROVE FALSE
        BY ZenonT(60)
      <3>2. count = 0 + 0
        BY <1>1, <3>1, EmptyCounted, ZenonT(60) DEF MutexInv, CountIsClaims
      <3> QED
        BY <3>2 DEF contended
    <2>2. CASE owns # {}
      BY <1>1, <2>2, ZenonT(60) DEF Possessors, MutexInv, MutexTypeOK
    <2>3. CASE Claiming # {}
      <3>1. PICK u \in Claiming : TRUE
        BY <2>3, ZenonT(60)
      <3>2. u \in Thread /\ pc[u] = "wait" /\ wait_queue_block_ret[u] = "NO_ERROR"
        BY ZenonT(60) DEF Claiming, LockInv, Undisturbed
      <3>3. CASE state[u] # "BLOCKED"
        BY <3>2, <3>3, ZenonT(60) DEF Possessors, Handed
      <3>4. CASE state[u] = "BLOCKED"
        <4>1. owns # {} \/ \E v \in Thread : Handed(v)
          BY <1>1, <3>2, <3>4, Queued, ZenonT(60) DEF LockInv, WaitsForAnOwner
        <4> QED
          BY <1>1, <4>1, ZenonT(60) DEF Possessors, MutexInv, MutexTypeOK
      <3> QED
        BY <3>3, <3>4, ZenonT(60)
    <2> QED
      BY <2>1, <2>2, <2>3, ZenonT(60)
  <1>8. lock_owner # t /\ lock_owner # NULL
    BY <1>1, <1>6, <1>7, OwnerPossesses, MutexAssumption, ZenonT(60) DEF Possessors
  <1>9. \A i \in 1 .. Len(wait_list[wait]) : wait_list[wait][i] # t
    <2>1. "RUNNING" # "BLOCKED"
      OBVIOUS
    <2> QED
      BY <1>3, <2>1, Queued, ZenonT(60)
  <1>10. L!Acquire(t)
    BY <1>4, <1>6, <1>8, <1>9, ZenonT(60) DEF L!Acquire
  <1>11. Undisturbed'
    BY <1>1, <1>2, ZenonT(60) DEF LockInv, Undisturbed
  <1>12. WaitsForAnOwner'
    BY <1>5, <1>7, ZenonT(60) DEF WaitsForAnOwner, Possessors
  <1> QED
    BY <1>10, <1>11, <1>12, ZenonT(60) DEF LockInv

\* A thread that has been handed the mutex is its owner for the lock already.
LEMMA LockAcquireReturn ==
  ASSUME LockInv, MutexInv', NEW t \in Thread, mutex_acquire_return(t)
  PROVE  LockInv' /\ UNCHANGED <<lock_owner, wait_list[wait]>>
  <1>1. /\ MutexInv /\ SchedInv(Frames) /\ pc \in [Thread -> DOMAIN Frames]
        /\ block_timeout \in [Thread -> Timeout]
        /\ Running(t) /\ pc[t] = "wait" /\ wait_queue_block_ret[t] = "NO_ERROR"
    BY ZenonT(60) DEF LockInv, Undisturbed, MutexInv, WaitObjectInv, SchedInv,
                      SchedTypeOK, mutex_acquire_return
  <1>2. /\ owns' = owns \union {t} /\ pc' = [pc EXCEPT ![t] = "user"]
        /\ UNCHANGED <<state, wait_queue_block_ret, wait_list, magic>>
        /\ block_timeout' = [block_timeout EXCEPT ![t] = "INFINITE"]
    BY <1>1, ZenonT(60) DEF mutex_acquire_return, acquire_result, leave, goto,
                            wait_queue_unblocked, waitVars
  <1>3. Handed(t)
    <2>1. pc[t] \notin {"exit_wake", "wake_all"}
      BY <1>1, ZenonT(60)
    <2>2. state[t] = "RUNNING"
      BY <1>1, <2>1, FramesFit, RunningFacts, ZenonT(60)
    <2> QED
      BY <1>1, <2>2, ZenonT(60) DEF Handed
  <1>4. \A u \in Thread : Handed(u)' <=> Handed(u) /\ u # t
    BY <1>1, <1>2, ZenonT(60) DEF Handed
  <1>5. Possessors' = Possessors
    BY <1>2, <1>3, <1>4, ZenonT(60) DEF Possessors
  <1>6. Undisturbed' /\ WaitsForAnOwner'
    BY <1>1, <1>2, ZenonT(60) DEF LockInv, Undisturbed, WaitsForAnOwner
  <1> QED
    BY <1>2, <1>5, <1>6, ZenonT(60) DEF LockInv, lock_owner

\* A release frees the lock, or hands it to the head of the queue.
LEMMA LockRelease ==
  ASSUME CountingLaws, LockInv, MutexInv', NEW t \in Thread, mutex_release(t)
  PROVE  LockInv' /\ L!Release(t)
  <1>1. /\ MutexInv /\ magic /\ SchedInv(Frames) /\ SchedInv(Frames)'
        /\ pc \in [Thread -> DOMAIN Frames] /\ pc[t] = "user"
        /\ wait_queue_block_ret \in [Thread -> Status]
        /\ t \in owns /\ owns' = owns \ {t} /\ magic' = magic
        /\ count' = count - 1
    BY ZenonT(60) DEF LockInv, Undisturbed, MutexInv, WaitObjectInv, SchedInv,
                      SchedTypeOK, mutex_release, Calls, InUser
  <1>2. Possessors = {t} /\ owns = {t} /\ owns' = {} /\ \A u \in Thread : ~Handed(u)
    <2>1. \A u \in Thread : u \in owns \/ Handed(u) => u = t
      BY <1>1, ZenonT(60) DEF MutexInv, MutualExclusion
    <2>2. ~Handed(t) /\ owns \subseteq Thread
      BY <1>1, ZenonT(60) DEF Handed, MutexInv, MutexTypeOK
    <2> QED
      BY <1>1, <2>1, <2>2, ZenonT(60) DEF Possessors
  <1>3. lock_owner = t
    BY <1>1, <1>2, OwnerPossesses, ZenonT(60)
  <1>4. CASE waiters_left(count') /\ wait_list[wait] # <<>>
    <2>1. PICK h \in Thread : h = Head(wait_list[wait]) /\ state[h] = "BLOCKED"
      BY <1>1, <1>4, HeadBlocked, ZenonT(60)
    <2>2. /\ dequeue(wait, h, "NO_ERROR") /\ pc' = [pc EXCEPT ![t] = "wake"]
          /\ UNCHANGED block_timeout
      BY <1>4, <2>1, ZenonT(60) DEF mutex_release, wake_one_resched, goto, timeVars
    <2>3. /\ wait_list' = [wait_list EXCEPT ![wait] = list_delete(@, h)]
          /\ wait_queue_block_ret' = [wait_queue_block_ret EXCEPT ![h] = "NO_ERROR"]
      BY <2>2, ZenonT(60) DEF dequeue
    <2>4. wait_list'[wait] = Tail(wait_list[wait])
      <3>1. list_delete(wait_list[wait], h) = Tail(wait_list[wait])
        BY <1>4, <2>1, Queued, DeleteHead, ZenonT(60)
      <3> QED
        BY <2>3, <3>1, Queued, ZenonT(60)
    <2>5. \A u \in Thread : state'[u] = "BLOCKED" <=> state[u] = "BLOCKED" /\ u # h
      BY <1>1, <2>1, <2>3, DequeuedThread, ZenonT(60)
    <2>6. pc[h] = "wait" /\ h # t
      BY <1>1, <2>1, ZenonT(60) DEF MutexInv, WaiterOK
    <2>7. \A u \in Thread : wait_queue_block_ret'[u] = "NO_ERROR"
      BY <1>1, <2>3, ZenonT(60) DEF LockInv, Undisturbed
    <2>8. \A u \in Thread : Handed(u)' <=> u = h
      <3>1. ASSUME NEW u \in Thread, u # h, Handed(u)' PROVE Handed(u)
        BY <1>1, <2>2, <2>5, <3>1, ZenonT(60) DEF Handed, LockInv, Undisturbed
      <3>2. Handed(h)'
        BY <1>1, <2>1, <2>2, <2>5, <2>6, <2>7, ZenonT(60) DEF Handed
      <3> QED
        BY <1>2, <3>1, <3>2, ZenonT(60)
    <2>9. h \in Possessors' /\ Possessors' \in SUBSET Thread
          /\ \A u \in Possessors' : u = h
      BY <1>2, <2>1, <2>8, ZenonT(60) DEF Possessors
    <2>10. lock_owner' = h
      BY <2>9, OnlyMember, ZenonT(60) DEF lock_owner
    <2>11. L!Release(t)
      BY <1>3, <1>4, <2>1, <2>4, <2>10, ZenonT(60) DEF L!Release
    <2>12. Undisturbed' /\ WaitsForAnOwner'
      BY <1>1, <2>1, <2>2, <2>7, <2>8, ZenonT(60)
         DEF LockInv, Undisturbed, WaitsForAnOwner
    <2> QED
      BY <2>11, <2>12, ZenonT(60) DEF LockInv
  <1>5. CASE ~(waiters_left(count') /\ wait_list[wait] # <<>>)
    <2>1. UNCHANGED schedVars
      BY <1>5, ZenonT(60) DEF mutex_release
    <2>2. /\ UNCHANGED <<wait_list, wait_queue_block_ret, block_timeout>>
          /\ \A u \in Thread : ~Handed(u)'
      BY <1>2, <2>1, ZenonT(60) DEF Handed, schedVars, runVars, waitVars, timeVars
    <2>3. wait_list[wait] = <<>>
      <3>1. SUFFICES ASSUME wait_list[wait] # <<>> PROVE FALSE
        BY ZenonT(60)
      <3>2. Claiming # {}
        <4>1. Head(wait_list[wait]) \in Thread /\ state[Head(wait_list[wait])] = "BLOCKED"
          BY <1>1, <3>1, HeadBlocked, ZenonT(60)
        <4>2. \A u \in Thread : state[u] = "BLOCKED" => u \in Claiming
          BY ZenonT(60) DEF LockInv, MutexInv, WaiterOK, Undisturbed, Claiming
        <4> QED
          BY <4>1, <4>2, ZenonT(60)
      <3>3. Cardinality(Claiming) \in Nat /\ Cardinality(Claiming) # 0
        <4>1. IsFiniteSet(Claiming) /\ Cardinality(Claiming) \in Nat
          BY <1>1, Counting, ZenonT(60)
        <4> QED
          BY <3>2, <4>1, EmptyCounted, ZenonT(60)
      <3>4. Cardinality(owns) = 1
        BY <1>2, SingleCounted, ZenonT(60)
      <3>5. count = 1 + Cardinality(Claiming)
        BY <1>1, <3>4, ZenonT(60) DEF MutexInv, CountIsClaims
      <3>6. waiters_left(count')
        BY <1>1, <3>3, <3>5 DEF waiters_left
      <3> QED
        BY <1>5, <3>1, <3>6, ZenonT(60)
    <2>4. Possessors' = {}
      BY <1>2, <2>2, ZenonT(60) DEF Possessors
    <2>5. lock_owner' = NULL
      BY <2>4, ZenonT(60) DEF lock_owner, only
    <2>6. L!Release(t)
      BY <1>3, <2>2, <2>3, <2>5, ZenonT(60) DEF L!Release
    <2>7. Undisturbed' /\ WaitsForAnOwner'
      BY <1>1, <2>2, <2>3, ZenonT(60) DEF LockInv, Undisturbed, WaitsForAnOwner
    <2> QED
      BY <2>6, <2>7, ZenonT(60) DEF LockInv
  <1> QED
    BY <1>4, <1>5, ZenonT(60)

-----------------------------------------------------------------------------
(* The refinement                                                          *)

\* Every step of the mutex is a step of the lock or leaves it alone.
LEMMA LockStep ==
  ASSUME CountingLaws,
         Timeouts = {"INFINITE"}, MayDestroy = FALSE, LockInv, [Next]_vars
  PROVE  LockInv' /\ [L!LockNext]_<<lock_owner, wait_list[wait]>>
  <1>1. /\ MutexInv /\ MutexInv' /\ magic /\ SchedInv(Frames) /\ SchedInv(Frames)'
        /\ \A t \in Thread : /\ timer[t] # "timeout"
                              /\ pc[t] \notin {"wake_all", "wake_quiet", "destroy"}
    <2>1. MutexInv /\ MutexInv'
      BY MutexStep, ZenonT(60) DEF LockInv
    <2> QED
      BY <2>1, ZenonT(60) DEF LockInv, Undisturbed, MutexInv, WaitObjectInv, WaiterOK
  <1>2. CASE UNCHANGED vars
    <2>1. Quiet /\ UNCHANGED <<mutexVars, wait_list>>
      BY <1>2, ZenonT(60) DEF vars, schedVars, runVars, waitVars, timeVars, Quiet
    <2> QED
      BY <1>1, <2>1, LockQuiet, ZenonT(60)
  <1>3. CASE Irq /\ UNCHANGED mutexVars
    <2>1. Quiet
      BY <1>1, <1>3, IrqWakes, ZenonT(60)
    <2>2. UNCHANGED wait_list
      BY <1>1, <1>3, ZenonT(60)
         DEF Irq, irq_enter, irq_exit, irq_return, thread_sleep_handler,
             wait_queue_timeout_handler, waitVars
    <2> QED
      BY <1>1, <1>3, <2>1, <2>2, LockQuiet, ZenonT(60)
  <1>4. ASSUME NEW t \in Thread, thread_sleep(t) \/ Return(t), UNCHANGED mutexVars
        PROVE  LockInv' /\ UNCHANGED <<lock_owner, wait_list[wait]>>
    <2>1. Quiet
      BY <1>1, <1>4, QuietCalls, ZenonT(60)
    <2>2. UNCHANGED wait_list
      BY <1>4, ZenonT(60) DEF thread_sleep, Return, waitVars
    <2> QED
      BY <1>1, <1>4, <2>1, <2>2, LockQuiet, ZenonT(60)
  <1>5. ASSUME NEW t \in Thread, NEW timeout \in Timeouts,
               mutex_acquire_timeout(t, timeout)
        PROVE  LockInv' /\ L!Acquire(t)
    <2>1. timeout = "INFINITE"
      BY ZenonT(60)
    <2> QED
      BY <1>1, <1>5, <2>1, LockAcquireFree, LockAcquireWait, ZenonT(60)
         DEF mutex_acquire_timeout
  <1>6. ASSUME NEW t \in Thread,
               \/ mutex_init(t) \/ mutex_destroy(t) \/ mutex_destroy_return(t)
               \/ wake_all_step(t, "ERR_OBJECT_DESTROYED")
               \/ wake_all_finish(t, "destroy")
        PROVE  FALSE
    BY <1>1, <1>6, ZenonT(60) DEF mutex_init, mutex_destroy, mutex_destroy_return,
       wait_queue_destroy_return, wake_all_step, wake_all_finish
  <1>7. ASSUME NEW t \in Thread, mutex_acquire_return(t)
        PROVE  LockInv' /\ UNCHANGED <<lock_owner, wait_list[wait]>>
    BY <1>1, <1>7, LockAcquireReturn, ZenonT(60)
  <1>8. ASSUME NEW t \in Thread, mutex_release(t)
        PROVE  LockInv' /\ L!Release(t)
    BY <1>1, <1>8, LockRelease, ZenonT(60)
  <1> QED
    BY <1>1, <1>2, <1>3, <1>4, <1>5, <1>6, <1>7, <1>8, LockQuiet, ZenonT(60)
       DEF Next, L!LockNext

\* In the first state the lock is free and nobody waits for it.
LEMMA LockInitInv ==
  ASSUME PrioritiesOrdered, CountingLaws, Init, Timeouts = {"INFINITE"}, MayDestroy = FALSE
  PROVE  LockInv /\ L!LockInit
  <1>1. MutexInv
    BY MutexInitInv, ZenonT(60)
  <1>2. /\ magic = TRUE /\ owns = {} /\ wait_list[wait] = <<>>
        /\ \A t \in Thread : /\ block_timeout[t] = "INFINITE"
                              /\ wait_queue_block_ret[t] = "NO_ERROR"
                              /\ pc[t] # "wait"
    BY WaitObjectAssumption, ZenonT(60) DEF Init, SchedInit
  <1>3. Possessors = {}
    BY <1>2, ZenonT(60) DEF Possessors, Handed
  <1>4. lock_owner = NULL
    BY <1>1, <1>3, OwnerPossesses, ZenonT(60)
  <1> QED
    BY <1>1, <1>2, <1>4, ZenonT(60)
       DEF LockInv, Undisturbed, WaitsForAnOwner, L!LockInit

-----------------------------------------------------------------------------
(* The theorems                                                            *)

LOCAL FST == INSTANCE FiniteSetTheorems

\* The library counts as the modules of the objects do.
LEMMA SameCounting ==
  ASSUME NEW S
  PROVE  /\ FST!IsFiniteSet(S) <=> IsFiniteSet(S)
         /\ FST!Cardinality(S) = Cardinality(S)
  BY ZenonT(60) DEF IsFiniteSet, Cardinality, FST!IsFiniteSet, FST!Cardinality

\* The facts about finite sets that the lemmas assume.
LEMMA CountingHolds == CountingLaws
  <1>1. \A S : \A T \in SUBSET S : IsFiniteSet(S) => IsFiniteSet(T)
    BY SameCounting, FST!FS_Subset, ZenonT(60)
  <1>2. \A S : IsFiniteSet(S) => Cardinality(S) \in Nat
    BY SameCounting, FST!FS_CardinalityType, ZenonT(60)
  <1>3. /\ IsFiniteSet({}) /\ Cardinality({}) = 0
        /\ \A S : IsFiniteSet(S) => (Cardinality(S) = 0 <=> S = {})
    BY SameCounting, FST!FS_EmptySet, ZenonT(60)
  <1>4. \A S, x : IsFiniteSet(S) =>
          Cardinality(S \cup {x}) = IF x \in S THEN Cardinality(S) ELSE Cardinality(S) + 1
    BY SameCounting, FST!FS_AddElement, ZenonT(60)
  <1>5. \A S, x : IsFiniteSet(S) =>
          Cardinality(S \ {x}) = IF x \in S THEN Cardinality(S) - 1 ELSE Cardinality(S)
    BY SameCounting, FST!FS_RemoveElement, ZenonT(60)
  <1>6. \A x : Cardinality({x}) = 1
    BY SameCounting, FST!FS_Singleton, ZenonT(60)
  <1> QED
    BY <1>1, <1>2, <1>3, <1>4, <1>5, <1>6, ZenonT(60) DEF CountingLaws

LOCAL WF == INSTANCE WellFoundedInduction

\* A set of natural numbers has a least one, and so a set of priorities a
\* highest one.
LEMMA OrderHolds == PrioritiesOrdered
  <1>1. ASSUME NEW T \in SUBSET Nat, T # {}
        PROVE  \E x \in T : \A y \in T : x <= y
    <2> DEFINE R == WF!OpToRel(<, Nat)
    <2>1. WF!IsWellFoundedOn(R, Nat)
      BY WF!NatLessThanWellFounded, ZenonT(60)
    <2> HIDE DEF R
    <2>2. PICK x \in T : \A y \in T : ~(<<y, x>> \in R)
      BY <1>1, <2>1, WF!WFMin, ZenonT(60)
    <2>3. \A y \in T : ~(y < x)
      BY <2>2, ZenonT(60) DEF R, WF!OpToRel
    <2> QED
      BY <2>2, <2>3
  <1> QED
    BY <1>1, Greatest, ZenonT(60)

\* Run queues, bitmap, wait queue and thread states agree in every reachable
\* state of the mutex on the scheduler, and every switch restores the critical
\* section count of the thread it switches to.
THEOREM MutexScheduling == Spec => [](QueuesCoherent /\ CriticalSectionsBalanced)
  <1>1. Init => SchedInv(Frames)
    BY OrderHolds, SchedInitInv DEF Init
  <1>2. SchedInv(Frames) /\ [Next]_vars => SchedInv(Frames)'
    BY SchedStep
  <1>3. SchedInv(Frames) => QueuesCoherent /\ CriticalSectionsBalanced
    BY DEF SchedInv, QueuesCoherent, CriticalSectionsBalanced
  <1> QED
    BY <1>1, <1>2, <1>3, PTL DEF Spec

\* The inductive invariant of the mutex: scheduler, holder, count, claims and
\* the waiters' timeouts agree in every reachable state.
THEOREM MutexInvariant == Spec => []MutexInv
  <1>1. Init => MutexInv
    BY CountingHolds, OrderHolds, MutexInitInv
  <1>2. MutexInv /\ [Next]_vars => MutexInv'
    BY CountingHolds, MutexStep
  <1> QED
    BY <1>1, <1>2, PTL DEF Spec

\* Types: every variable of the mutex and the scheduler keeps its type.
THEOREM MutexTypes == Spec => []MutexTypeOK
  <1>1. MutexInv => MutexTypeOK
    BY DEF MutexInv
  <1> QED
    BY <1>1, MutexInvariant, PTL

\* At most one thread owns the mutex or is being handed it, for any number of
\* threads, any priorities and any timeouts.
THEOREM MutexExcludes == Spec => []MutualExclusion
  <1>1. MutexInv => MutualExclusion
    BY DEF MutexInv
  <1> QED
    BY <1>1, MutexInvariant, PTL

\* A caller that keeps the rules meets no panic and no failing ASSERT: the
\* holder field names the owner, count is the number of claims, and the wait
\* queue of a mutex in use is initialised.
THEOREM MutexNeverPanics ==
  Spec => [](HolderIsOwner /\ CountIsClaims /\ WaitQueueValid)
  <1>1. MutexInv => HolderIsOwner /\ CountIsClaims /\ WaitQueueValid
    BY DEF MutexInv
  <1> QED
    BY <1>1, MutexInvariant, PTL

\* Nobody overtakes: mutex_acquire_timeout() takes the mutex at once only when
\* no thread waits for it and none has been handed it.
THEOREM MutexNoBarging == Spec => NoBarging
  <1>1. MutexInv /\ [Next]_vars =>
          [\A t \in owns' \ owns : pc[t] = "user" =>
             wait_list[wait] = <<>> /\ \A u \in Thread : ~Handed(u)]_vars
    BY CountingHolds, NobodyOvertaken, ZenonT(60)
  <1> QED
    BY <1>1, MutexInvariant, PTL DEF Spec, NoBarging

\* With callers that wait without a timeout and do not destroy it, mutex.c
\* implements the lock of module Lock: one owner at a time, a release hands
\* the mutex to the thread that has waited longest, and nobody waits for a
\* mutex without an owner.
THEOREM MutexImplementsLock ==
  ASSUME Timeouts = {"INFINITE"}, MayDestroy = FALSE
  PROVE  Spec => IsLock /\ []WaitsForAnOwner
  <1>1. Init => LockInv /\ L!LockInit
    BY CountingHolds, OrderHolds, LockInitInv
  <1>2. LockInv /\ [Next]_vars => LockInv'
    BY CountingHolds, LockStep
  <1>3. LockInv /\ [Next]_vars => [L!LockNext]_<<lock_owner, wait_list[wait]>>
    BY CountingHolds, LockStep
  <1>4. LockInv => WaitsForAnOwner
    BY DEF LockInv
  <1> QED
    BY <1>1, <1>2, <1>3, <1>4, PTL DEF Spec, IsLock, L!LockSpec

\* With callers that wait without a timeout and do not destroy it, a thread
\* never waits for a mutex that mutex_release() has left without an owner.
THEOREM MutexWaitsForAnOwner ==
  ASSUME Timeouts = {"INFINITE"}, MayDestroy = FALSE
  PROVE  Spec => []WaitsForAnOwner
  BY MutexImplementsLock, PTL
=============================================================================
