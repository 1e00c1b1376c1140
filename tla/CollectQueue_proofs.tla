------------------------ MODULE CollectQueue_proofs ------------------------
(***************************************************************************)
(* Proofs about CollectQueue, for every set of threads, every capacity of  *)
(* the queues and every throttle: there is room to push, one reclaimer, no *)
(* lost wakeup, and in automatic mode a bounded backlog.                   *)
(***************************************************************************)
EXTENDS CollectQueue, TLAPS

-----------------------------------------------------------------------------
(***************************************************************************)
(* The inductive invariant.                                                *)
(***************************************************************************)
Thread == [pc : PcValues, forcing : BOOLEAN, force : {0, 1}, todo : SUBSET Threads]

Reclaiming == {"force", "reset", "drain", "throttle", "tlock", "tcheck", "twait",
               "twoken", "release"}
Throttled == {"throttle", "tlock", "tcheck", "twait", "twoken"}

\* A thread acts as the reclaimer if and only if it has the cleanup lock.
LockInv == \A t \in Threads : th[t].pc \in Reclaiming <=> cleaner = t

\* A thread that forces an iteration did not come with a full queue, and is not
\* counted as forcing once it is back.
QueueInv ==
    \A t \in Threads :
        /\ q[t] <= QueueLimit
        /\ th[t].pc = "user" \/ th[t].forcing => q[t] < QueueLimit
        /\ th[t].pc = "user" => ~th[t].forcing

\* The collector that sleeps says so, and nothing waits for it.
SleepInv == gc = "sleep" => g_gc_waiting /\ g_waiting_collects = 0

IInv == TypeOK /\ LockInv /\ QueueInv /\ SleepInv

-----------------------------------------------------------------------------
(***************************************************************************)
(* A thread that changes two of its fields at once.                        *)
(***************************************************************************)
LEMMA FieldsTyped ==
    ASSUME NEW f \in [Threads -> Thread], NEW t \in Threads, NEW c \in PcValues
    PROVE  /\ \A fo \in BOOLEAN :
                 [f EXCEPT ![t].pc = c, ![t].forcing = fo] \in [Threads -> Thread]
           /\ [f EXCEPT ![t].pc = c, ![t].force = 0] \in [Threads -> Thread]
           /\ [f EXCEPT ![t].pc = c, ![t].todo = Threads] \in [Threads -> Thread]
<1>1. ASSUME NEW r \in Thread PROVE [f EXCEPT ![t] = r] \in [Threads -> Thread]
  OBVIOUS
<1>2. f[t] \in Thread
  OBVIOUS
<1>3. ASSUME NEW fo \in BOOLEAN
      PROVE  [f EXCEPT ![t].pc = c, ![t].forcing = fo] \in [Threads -> Thread]
  <2>1. [f[t] EXCEPT !.pc = c, !.forcing = fo] \in Thread
    BY <1>2 DEF Thread
  <2>2. [f EXCEPT ![t].pc = c, ![t].forcing = fo]
            = [f EXCEPT ![t] = [f[t] EXCEPT !.pc = c, !.forcing = fo]]
    BY Zenon
  <2> QED
    BY <1>1, <2>1, <2>2, Zenon
<1>4. [f EXCEPT ![t].pc = c, ![t].force = 0] \in [Threads -> Thread]
  <2>1. [f[t] EXCEPT !.pc = c, !.force = 0] \in Thread
    BY <1>2 DEF Thread
  <2>2. [f EXCEPT ![t].pc = c, ![t].force = 0]
            = [f EXCEPT ![t] = [f[t] EXCEPT !.pc = c, !.force = 0]]
    OBVIOUS
  <2> QED
    BY <1>1, <2>1, <2>2, Zenon
<1>5. [f EXCEPT ![t].pc = c, ![t].todo = Threads] \in [Threads -> Thread]
  <2>1. [f[t] EXCEPT !.pc = c, !.todo = Threads] \in Thread
    BY <1>2 DEF Thread
  <2>2. [f EXCEPT ![t].pc = c, ![t].todo = Threads]
            = [f EXCEPT ![t] = [f[t] EXCEPT !.pc = c, !.todo = Threads]]
    OBVIOUS
  <2> QED
    BY <1>1, <2>1, <2>2, Zenon
<1> QED
  BY <1>3, <1>4, <1>5, Zenon

-----------------------------------------------------------------------------
(***************************************************************************)
(* Every action keeps the types and the invariant of the locks.            *)
(***************************************************************************)
LEMMA InitIInv == Init => IInv
BY OptionsAssumption, ThreadsAssumption, SizesAssumption
   DEF Init, IInv, TypeOK, LockInv, QueueInv, SleepInv, Thread, PcValues, Reclaiming

\* The actions of forkscan_retire and forkscan_force_reclaim.
LEMMA ClientStep ==
    ASSUME IInv, NEW t \in Threads,
           Retire(t) \/ ForceReclaim(t) \/ TryAcquire(t) \/ LoopAgain(t)
    PROVE  IInv'
<1> USE ThreadsAssumption, SizesAssumption
    DEF IInv, TypeOK, LockInv, QueueInv, SleepInv, PcValues, Reclaiming, config, shared
<1>1. CASE Retire(t)
  BY <1>1 DEF Retire, IsFull
<1>2. CASE ForceReclaim(t)
  BY <1>2 DEF ForceReclaim
<1>3. CASE TryAcquire(t)
  BY <1>3 DEF TryAcquire
<1>4. CASE LoopAgain(t)
  <2> DEFINE repeat == IF th[t].forcing THEN g_force_iteration # 0 ELSE IsFull(q[t])
  <2>1. CASE repeat
    <3>2. th[t].forcing \in BOOLEAN
      OBVIOUS
    <3>1. th' = [th EXCEPT ![t].pc = "try", ![t].forcing = th[t].forcing]
      BY <1>4, <2>1, <3>2 DEF LoopAgain
    <3> QED
      <4>1. TypeOK'
        <5>1. th' \in [Threads -> Thread]
          <6>1. th \in [Threads -> Thread] /\ "try" \in PcValues
            BY DEF Thread
          <6> HIDE DEF IInv, PcValues
          <6> QED
            BY <3>1, <3>2, <6>1, FieldsTyped
        <5> QED
          BY <1>4, <3>1, <3>2, <5>1 DEF LoopAgain, Thread
      <4>2. LockInv'
        BY <1>4, <3>1, <3>2 DEF LoopAgain
      <4>3. QueueInv'
        BY <1>4, <3>1, <3>2 DEF LoopAgain
      <4>4. SleepInv'
        BY <1>4, <3>1, <3>2 DEF LoopAgain
      <4> QED
        BY <4>1, <4>2, <4>3, <4>4
  <2>2. CASE ~repeat
    <3>1. th' = [th EXCEPT ![t].pc = "user", ![t].forcing = FALSE]
      BY <1>4, <2>2 DEF LoopAgain
    <3>2. q[t] < QueueLimit
      BY <2>2 DEF IsFull
    <3> QED
      <4>1. TypeOK'
        <5>1. th' \in [Threads -> Thread]
          <6>1. th \in [Threads -> Thread] /\ "user" \in PcValues
            BY DEF Thread
          <6> HIDE DEF IInv, PcValues
          <6> QED
            BY <3>1, <3>2, <6>1, FieldsTyped
        <5> QED
          BY <1>4, <3>1, <3>2, <5>1 DEF LoopAgain, Thread
      <4>2. LockInv'
        BY <1>4, <3>1, <3>2 DEF LoopAgain
      <4>3. QueueInv'
        BY <1>4, <3>1, <3>2 DEF LoopAgain
      <4>4. SleepInv'
        BY <1>4, <3>1, <3>2 DEF LoopAgain
      <4> QED
        BY <4>1, <4>2, <4>3, <4>4
  <2> QED
    BY <2>1, <2>2
<1> QED
  BY <1>1, <1>2, <1>3, <1>4

\* The actions of become_reclaimer.
LEMMA ReclaimerStep ==
    ASSUME IInv, NEW t \in Threads, Reclaimer(t) \/ ThrottleSpurious(t)
    PROVE  IInv'
<1> USE ThreadsAssumption, SizesAssumption
    DEF IInv, TypeOK, LockInv, QueueInv, SleepInv, PcValues, Reclaiming, config, shared
<1>1. CASE ReadForce(t)
  BY <1>1 DEF ReadForce
<1>2. CASE ResetForce(t)
  <2>1. TypeOK'
    <3>1. th' \in [Threads -> Thread]
      <4>1. th \in [Threads -> Thread] /\ "drain" \in PcValues
        BY DEF Thread
      <4>2. th' = [th EXCEPT ![t].pc = "drain", ![t].todo = Threads]
        BY <1>2 DEF ResetForce
      <4> HIDE DEF IInv, PcValues
      <4> QED
        BY <4>1, <4>2, FieldsTyped
    <3> QED
      BY <1>2, <3>1 DEF ResetForce, Thread
  <2>2. LockInv'
    BY <1>2 DEF ResetForce
  <2>3. QueueInv'
    BY <1>2 DEF ResetForce
  <2>4. SleepInv'
    BY <1>2 DEF ResetForce
  <2> QED
    BY <2>1, <2>2, <2>3, <2>4
<1>3. ASSUME NEW u \in Threads, DrainQueue(t, u) PROVE IInv'
  BY <1>3 DEF DrainQueue
<1>4. CASE Submit(t)
  <2>1. TypeOK'
    <3>1. th' \in [Threads -> Thread]
      <4>1. th \in [Threads -> Thread] /\ {"throttle", "release"} \subseteq PcValues
        BY DEF Thread
      <4>2. PICK c \in {"throttle", "release"} :
                th' = [th EXCEPT ![t].pc = c, ![t].force = 0]
        BY <1>4 DEF Submit
      <4>3. c \in PcValues
        BY <4>1
      <4> HIDE DEF IInv, PcValues
      <4> QED
        BY <4>1, <4>2, <4>3, FieldsTyped
    <3> QED
      BY <1>4, <3>1 DEF Submit, Thread
  <2>2. LockInv'
    BY <1>4 DEF Submit
  <2>3. QueueInv'
    BY <1>4 DEF Submit
  <2>4. SleepInv'
    BY <1>4 DEF Submit
  <2> QED
    BY <2>1, <2>2, <2>3, <2>4
<1>5. CASE ThrottleTest(t)
  BY <1>5 DEF ThrottleTest
<1>6. CASE ThrottleLock(t)
  BY <1>6 DEF ThrottleLock
<1>7. CASE ThrottleWait(t)
  BY <1>7 DEF ThrottleWait
<1>8. CASE ThrottleWake(t)
  BY <1>8 DEF ThrottleWake
<1>9. CASE ReleaseCleanup(t)
  <2>1. TypeOK'
    <3>1. th' \in [Threads -> Thread]
      <4>1. th \in [Threads -> Thread] /\ {"user", "again"} \subseteq PcValues
        BY DEF Thread
      <4>2. PICK c \in {"user", "again"} :
                th' = [th EXCEPT ![t].pc = c, ![t].forcing = FALSE]
        BY <1>9 DEF ReleaseCleanup
      <4>3. c \in PcValues
        BY <4>1
      <4> HIDE DEF IInv, PcValues
      <4> QED
        BY <4>1, <4>2, <4>3, FieldsTyped
    <3> QED
      BY <1>9, <3>1 DEF ReleaseCleanup, Thread
  <2>2. LockInv'
    BY <1>9 DEF ReleaseCleanup
  <2>3. QueueInv'
    BY <1>9 DEF ReleaseCleanup
  <2>4. SleepInv'
    BY <1>9 DEF ReleaseCleanup
  <2> QED
    BY <2>1, <2>2, <2>3, <2>4
<1>10. CASE ThrottleSpurious(t)
  BY <1>10 DEF ThrottleSpurious
<1> QED
  BY <1>1, <1>2, <1>3, <1>4, <1>5, <1>6, <1>7, <1>8, <1>9, <1>10 DEF Reclaimer

\* The actions of forkscan_thread.
LEMMA CollectorStep ==
    ASSUME IInv, Collector \/ GCSpurious
    PROVE  IInv'
<1> USE ThreadsAssumption, SizesAssumption
    DEF IInv, TypeOK, LockInv, QueueInv, SleepInv, PcValues, Reclaiming, config, shared
<1>1. CASE GCTop
  <2>1. TypeOK'
    BY <1>1 DEF GCTop
  <2>2. LockInv'
    BY <1>1 DEF GCTop
  <2>3. QueueInv'
    BY <1>1 DEF GCTop
  <2>4. SleepInv'
    BY <1>1 DEF GCTop
  <2> QED
    BY <2>1, <2>2, <2>3, <2>4
<1>2. CASE GCWake \/ GCSpurious
  BY <1>2 DEF GCWake, GCSpurious, LeaveWait
<1>3. CASE GCTake
  BY <1>3 DEF GCTake
<1>4. CASE GCNotify
  BY <1>4 DEF GCNotify
<1>5. CASE ReclaimIteration
  BY <1>5 DEF ReclaimIteration
<1> QED
  BY <1>1, <1>2, <1>3, <1>4, <1>5 DEF Collector

LEMMA StepIInv ==
    ASSUME IInv, [Next]_vars
    PROVE  IInv'
<1>1. CASE UNCHANGED vars
  BY <1>1 DEF vars, IInv, TypeOK, LockInv, QueueInv, SleepInv
<1>2. ASSUME NEW mode \in AutoModes, SetAutoRun(mode) PROVE IInv'
  BY <1>2, OptionsAssumption
     DEF SetAutoRun, shared, IInv, TypeOK, LockInv, QueueInv, SleepInv
<1> QED
  BY <1>1, <1>2, ClientStep, ReclaimerStep, CollectorStep DEF Next

LEMMA Invariance == Spec => []IInv
BY InitIInv, StepIInv, PTL DEF Spec

-----------------------------------------------------------------------------
(***************************************************************************)
(* The theorems.                                                           *)
(***************************************************************************)

\* Every variable keeps its type: the counters never get negative although the
\* collector takes everything at once (forkscan.c:316-326).
THEOREM TypeCorrect == Spec => []TypeOK
<1>1. IInv => TypeOK
  BY DEF IInv
<1> QED
  BY <1>1, Invariance, PTL

\* A thread that returns to the application has room for its next pointer, for
\* every capacity and however the threads race (frontend.c:207-223).
THEOREM AlwaysRoomToPush == Spec => []RoomToPush
<1>1. IInv => RoomToPush
  BY DEF IInv, QueueInv, RoomToPush
<1> QED
  BY <1>1, Invariance, PTL

\* The holder of the cleanup lock is the one thread that drains queues and takes
\* reclaimer buffers, from try_acquire to release (thread.c:184-207).
THEOREM ReclaimerExclusive == Spec => []OneReclaimer
<1>1. IInv => OneReclaimer
  <2> SUFFICES ASSUME IInv PROVE OneReclaimer
    OBVIOUS
  <2>1. Reclaimers = {t \in Threads : th[t].pc \in Reclaiming}
    BY DEF IInv, TypeOK, Reclaimers, PcValues, Reclaiming
  <2>2. Reclaimers = {t \in Threads : cleaner = t}
    BY <2>1 DEF IInv, LockInv
  <2> QED
    BY <2>2, ThreadsAssumption DEF OneReclaimer, IInv, TypeOK
<1> QED
  BY <1>1, Invariance, PTL

\* A collection that has been counted does not wait for a sleeping collector
\* (forkscan.c:274-281, 307-314).
THEOREM WakeupNeverLost == Spec => []NoLostWakeup
<1>1. IInv => NoLostWakeup
  BY DEF IInv, SleepInv, NoLostWakeup
<1> QED
  BY <1>1, Invariance, PTL

-----------------------------------------------------------------------------
(***************************************************************************)
(* The throttle.  Only the holder of the cleanup lock hands buffers over,  *)
(* and it does not give up the lock while as many are waiting as the       *)
(* throttle allows: the next reclaimer finds room for one more.            *)
(***************************************************************************)
BacklogInv ==
    /\ g_waiting_collects = g_addr_buffer
    /\ g_addr_buffer <= Throttle
    /\ g_addr_buffer = Throttle => \E t \in Threads : th[t].pc \in Throttled

LEMMA InitBacklog == Init => BacklogInv
BY SizesAssumption DEF Init, BacklogInv

LEMMA StepBacklog ==
    ASSUME IInv, BacklogInv, auto_run = 1, [Next]_vars
    PROVE  BacklogInv'
<1> USE ThreadsAssumption, SizesAssumption DEF BacklogInv
<1>1. /\ g_addr_buffer \in Nat /\ g_waiting_collects \in Nat
      /\ th \in [Threads -> Thread]
  BY DEF IInv, TypeOK, Thread
\* The steps that leave the backlog alone, and every throttled thread throttled.
<1>2. ASSUME UNCHANGED <<g_addr_buffer, g_waiting_collects>>,
             \A u \in Threads : th[u].pc \in Throttled => th'[u].pc \in Throttled
      PROVE  BacklogInv'
  BY <1>2
<1>3. ASSUME NEW t \in Threads,
             Retire(t) \/ ForceReclaim(t) \/ TryAcquire(t) \/ LoopAgain(t)
      PROVE  BacklogInv'
  <2>1. UNCHANGED <<g_addr_buffer, g_waiting_collects>>
    BY <1>3 DEF Retire, ForceReclaim, TryAcquire, LoopAgain, shared
  <2>2. th[t].pc \notin Throttled
    BY <1>3 DEF Retire, ForceReclaim, TryAcquire, LoopAgain, Throttled
  <2>3. \A u \in Threads : u # t => th'[u] = th[u]
    BY <1>1, <1>3 DEF Retire, ForceReclaim, TryAcquire, LoopAgain
  <2> QED
    BY <1>2, <2>1, <2>2, <2>3
<1>4. ASSUME NEW t \in Threads,
             ReadForce(t) \/ ResetForce(t) \/ (\E u \in Threads : DrainQueue(t, u))
             \/ ReleaseCleanup(t)
      PROVE  BacklogInv'
  <2>1. UNCHANGED <<g_addr_buffer, g_waiting_collects>>
    BY <1>4 DEF ReadForce, ResetForce, DrainQueue, ReleaseCleanup, shared
  <2>2. th[t].pc \notin Throttled
    BY <1>4 DEF ReadForce, ResetForce, DrainQueue, ReleaseCleanup, Throttled
  <2>3. \A u \in Threads : u # t => th'[u] = th[u]
    BY <1>1, <1>4 DEF ReadForce, ResetForce, DrainQueue, ReleaseCleanup
  <2> QED
    BY <1>2, <2>1, <2>2, <2>3
<1>5. ASSUME NEW t \in Threads, Submit(t) PROVE BacklogInv'
  <2>1. \A u \in Threads : th[u].pc \notin Throttled
    <3>1. cleaner = t
      BY <1>5 DEF Submit, IInv, LockInv, Reclaiming
    <3> QED
      BY <1>5, <3>1 DEF Submit, IInv, LockInv, Reclaiming, Throttled
  <2>2. g_addr_buffer < Throttle
    BY <1>1, <2>1
  <2>3. g_addr_buffer' = g_addr_buffer + 1 /\ g_waiting_collects' = g_waiting_collects + 1
    BY <1>5 DEF Submit
  <2>4. th'[t].pc = "throttle"
    BY <1>1, <1>5 DEF Submit, Thread
  <2> QED
    BY <1>1, <2>2, <2>3, <2>4 DEF Throttled
\* The throttle lets nobody through while the backlog is at its bound.
<1>6. ASSUME NEW t \in Threads, ThrottleTest(t) PROVE BacklogInv'
  BY <1>1, <1>6 DEF ThrottleTest, shared, Throttled, Thread
<1>7. ASSUME NEW t \in Threads,
             ThrottleLock(t) \/ ThrottleWait(t) \/ ThrottleWake(t) \/ ThrottleSpurious(t)
      PROVE  BacklogInv'
  <2>1. UNCHANGED <<g_addr_buffer, g_waiting_collects>>
    BY <1>7 DEF ThrottleLock, ThrottleWait, ThrottleWake, ThrottleSpurious, shared
  <2>2. th'[t].pc \in Throttled
    BY <1>1, <1>7
       DEF ThrottleLock, ThrottleWait, ThrottleWake, ThrottleSpurious, Throttled, Thread
  <2>3. \A u \in Threads : u # t => th'[u] = th[u]
    BY <1>1, <1>7 DEF ThrottleLock, ThrottleWait, ThrottleWake, ThrottleSpurious
  <2> QED
    BY <1>2, <2>1, <2>2, <2>3
<1>8. CASE GCTop \/ GCWake \/ GCSpurious \/ ReclaimIteration
  BY <1>2, <1>8 DEF GCTop, GCWake, GCSpurious, LeaveWait, ReclaimIteration, shared
<1>9. CASE GCTake
  BY <1>9 DEF GCTake
<1>10. CASE GCNotify
  <2>1. \A u \in Threads : th[u].pc \in Throttled => th'[u].pc \in Throttled
    BY <1>1, <1>10 DEF GCNotify, Throttled, Thread
  <2> QED
    BY <1>2, <1>10, <2>1 DEF GCNotify
<1>11. ASSUME NEW mode \in AutoModes, SetAutoRun(mode) PROVE BacklogInv'
  BY <1>2, <1>11 DEF SetAutoRun, shared
<1>12. CASE UNCHANGED vars
  BY <1>2, <1>12 DEF vars
<1> QED
  BY <1>3, <1>4, <1>5, <1>6, <1>7, <1>8, <1>9, <1>10, <1>11, <1>12
     DEF Next, Reclaimer, Collector

\* As long as the mode is automatic, the buffers handed over and not taken, and
\* the collections counted for them, never exceed the throttle
\* (forkscan.c:283-296).
THEOREM BacklogBounded == Spec => ThrottleBounds
<1>1. BacklogInv => g_addr_buffer <= Throttle /\ g_waiting_collects = g_addr_buffer
  BY DEF BacklogInv
<1>2. IInv /\ BacklogInv /\ auto_run = 1 /\ [Next]_vars => BacklogInv'
  BY StepBacklog
<1> QED
  BY <1>1, <1>2, InitBacklog, Invariance, PTL DEF Spec, ThrottleBounds

-----------------------------------------------------------------------------
(***************************************************************************)
(* assert(g_addr_buffer) in forkscan_thread.  Every collection counted has *)
(* a buffer in the list, and a collector that gets as far as the list has  *)
(* seen a collection, unless its wait ended without a signal.              *)
(***************************************************************************)
WorkInv ==
    /\ g_waiting_collects <= g_addr_buffer
    /\ gc = "woken" => g_waiting_collects > 0

LEMMA StepWork ==
    ASSUME IInv, WorkInv, [Next]_vars
    PROVE  /\ WorkInv'
           /\ gc # "take" /\ gc' = "take" /\ g_addr_buffer = 0 => gc = "sleep"
<1> DEFINE Goal == /\ WorkInv'
                   /\ gc # "take" /\ gc' = "take" /\ g_addr_buffer = 0 => gc = "sleep"
<1> SUFFICES Goal
  OBVIOUS
<1> USE DEF WorkInv
<1>1. g_addr_buffer \in Nat /\ g_waiting_collects \in Nat
  BY DEF IInv, TypeOK
<1>2. ASSUME UNCHANGED <<g_addr_buffer, g_waiting_collects, gc>> PROVE Goal
  BY <1>2
<1>3. ASSUME NEW t \in Threads, Submit(t) PROVE Goal
  BY <1>1, <1>3 DEF Submit
<1>4. CASE GCTop
  BY <1>1, <1>4 DEF GCTop
<1>5. CASE GCWake \/ GCSpurious
  BY <1>1, <1>5 DEF GCWake, GCSpurious, LeaveWait
<1>6. CASE GCTake
  BY <1>1, <1>6 DEF GCTake
<1>7. CASE GCNotify \/ ReclaimIteration
  BY <1>7 DEF GCNotify, ReclaimIteration, shared
<1>8. ASSUME NEW t \in Threads,
             Retire(t) \/ ForceReclaim(t) \/ TryAcquire(t) \/ LoopAgain(t)
      PROVE  Goal
  BY <1>2, <1>8 DEF Retire, ForceReclaim, TryAcquire, LoopAgain, shared
<1>9. ASSUME NEW t \in Threads,
             ReadForce(t) \/ ResetForce(t) \/ (\E u \in Threads : DrainQueue(t, u))
             \/ ReleaseCleanup(t)
      PROVE  Goal
  BY <1>2, <1>9 DEF ReadForce, ResetForce, DrainQueue, ReleaseCleanup, shared
<1>10. ASSUME NEW t \in Threads,
              ThrottleTest(t) \/ ThrottleLock(t) \/ ThrottleWait(t)
              \/ ThrottleWake(t) \/ ThrottleSpurious(t)
       PROVE  Goal
  BY <1>2, <1>10
     DEF ThrottleTest, ThrottleLock, ThrottleWait, ThrottleWake, ThrottleSpurious, shared
<1>11. ASSUME NEW mode \in AutoModes, SetAutoRun(mode) PROVE Goal
  BY <1>2, <1>11 DEF SetAutoRun, shared
<1>12. CASE UNCHANGED vars
  BY <1>2, <1>12 DEF vars
<1> HIDE DEF Goal
<1> QED
  BY <1>3, <1>4, <1>5, <1>6, <1>7, <1>8, <1>9, <1>10, <1>11, <1>12
     DEF Next, Reclaimer, Collector

\* forkscan_thread comes to an empty list only when pthread_cond_wait returns
\* without a signal, for every throttle and in every mode: the count under
\* g_gc_mutex and the list never get apart in the other direction
\* (forkscan.c:265-281, 307-324).
THEOREM EmptyListUnsignalled == Spec => EmptyOnlyUnsignalled
<1>1. Init => WorkInv
  BY DEF Init, WorkInv
<1>2. IInv /\ WorkInv /\ [Next]_vars => WorkInv'
  BY StepWork
<1>3. IInv /\ WorkInv /\ [Next]_vars =>
         [gc # "take" /\ gc' = "take" /\ g_addr_buffer = 0 => gc = "sleep"]_vars
  BY StepWork
<1> QED
  BY <1>1, <1>2, <1>3, Invariance, PTL DEF Spec, EmptyOnlyUnsignalled
=============================================================================
