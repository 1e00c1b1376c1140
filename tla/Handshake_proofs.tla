-------------------------- MODULE Handshake_proofs --------------------------
(***************************************************************************)
(* Proofs about Handshake, for every set of threads and every number of    *)
(* rounds: the acknowledgements are exact, so the barrier holds.           *)
(***************************************************************************)
EXTENDS Handshake, FiniteSetTheorems, TLAPS

-----------------------------------------------------------------------------
(***************************************************************************)
(* The inductive invariant.  A thread owes an acknowledgement from the     *)
(* moment it is signalled to the moment it is counted; meanwhile the debt  *)
(* is in one place: the pending signal, the handler, g_waiting_to_fork, or *)
(* the acknowledgement at the end of a call.                               *)
(***************************************************************************)
Acknowledging == {"ackread", "ackinc"}
Handling == {"enter", "ackread", "ackinc"}

Owes(t) ==
    \/ th[t].pending
    \/ th[t].hand.at \in Handling
    \/ th[t].waiting
    \/ th[t].main.at \in Acknowledging

\* Who owes, and who stands still, was signalled in this round.
DebtInv(t) ==
    /\ Owes(t) => gc.pc \in {"signal", "spin"} /\ t \in gc.signalled /\ ~Stopped(t)
    /\ Stopped(t) => InRound /\ t \in gc.signalled
    /\ InRound /\ t \in gc.signalled => Owes(t) \/ Stopped(t)

\* The debt is in one place.
PlaceInv(t) ==
    /\ th[t].pending => th[t].hand.at \notin Handling
    /\ th[t].pending \/ InHandler(t) =>
          ~th[t].waiting /\ th[t].main.at \notin Acknowledging \cup {"saw"}
    /\ th[t].waiting => th[t].main.at \in {"in", "out", "saw"}
    /\ th[t].main.at = "saw" => th[t].waiting
    /\ th[t].hand.at \in Acknowledging \cup {"ackwait"} => ~InMalloc(t)

\* The counter that an acknowledgement remembers is the current one until it
\* has been counted, and is never ahead.
CounterInv(t) ==
    /\ th[t].main.at = "ackinc" => th[t].main.old = g_cleanup_counter
    /\ th[t].hand.at = "ackinc" => th[t].hand.old = g_cleanup_counter
    /\ th[t].main.at = "ackwait" => th[t].main.old <= g_cleanup_counter
    /\ th[t].hand.at = "ackwait" => th[t].hand.old <= g_cleanup_counter
    /\ th[t].main.at = "ackwait" /\ th[t].main.old = g_cleanup_counter =>
          ~InHandler(t) /\ ~th[t].pending

\* A thread is signalled once per round.
TodoInv ==
    /\ gc.todo \cap gc.signalled = {}
    /\ gc.pc = "lock" => gc.signalled = {} /\ gc.todo = {} /\ g_received_signal = 0

IInv ==
    /\ TypeOK
    /\ \A t \in Threads : DebtInv(t) /\ PlaceInv(t) /\ CounterInv(t)
    /\ TodoInv
    /\ AckExact

Thread == [status : {"absent", "created", "active", "leaving", "gone"},
           main : [at : MainPoints, old : Nat],
           hand : [at : HandPoints, old : Nat],
           waiting : BOOLEAN, pending : BOOLEAN]

\* What the three thread invariants say of a thread depends on its frames, its
\* flag and its pending signal, on the collector and the counter alone.
LEMMA SameFrames ==
    ASSUME NEW u \in Threads,
           th'[u].main = th[u].main, th'[u].hand = th[u].hand,
           th'[u].waiting = th[u].waiting, th'[u].pending = th[u].pending,
           UNCHANGED <<gc, g_cleanup_counter>>,
           DebtInv(u), PlaceInv(u), CounterInv(u)
    PROVE  /\ DebtInv(u)' /\ PlaceInv(u)' /\ CounterInv(u)'
           /\ Stopped(u)' <=> Stopped(u)
BY DEF DebtInv, PlaceInv, CounterInv, Owes, Stopped, Top, InHandler, InRound, InMalloc

\* A step of one thread that neither stops it nor sets it going.
LEMMA ThreadStep ==
    ASSUME IInv, NEW t \in Threads, TypeOK',
           \A u \in Threads \ {t} : th'[u] = th[u],
           UNCHANGED <<gc, g_cleanup_counter, g_received_signal>>,
           DebtInv(t)', PlaceInv(t)', CounterInv(t)',
           Stopped(t)' <=> Stopped(t)
    PROVE  IInv'
<1>1. ASSUME NEW u \in Threads
      PROVE  /\ DebtInv(u)' /\ PlaceInv(u)' /\ CounterInv(u)'
             /\ Stopped(u)' <=> Stopped(u)
  <2>1. CASE u = t
    BY <2>1
  <2>2. CASE u # t
    <3>1. th'[u] = th[u] /\ DebtInv(u) /\ PlaceInv(u) /\ CounterInv(u)
      BY <2>2 DEF IInv
    <3> QED
      BY <3>1, SameFrames
  <2> QED
    BY <2>1, <2>2
<1>2. gc.signalled \subseteq Threads
  BY DEF IInv, TypeOK
<1>3. {u \in gc'.signalled : Stopped(u)'} = {u \in gc.signalled : Stopped(u)}
  BY <1>1, <1>2
<1>4. AckExact'
  BY <1>3 DEF IInv, AckExact, InRound
<1>5. TodoInv'
  BY DEF IInv, TodoInv
<1> QED
  BY <1>1, <1>4, <1>5 DEF IInv

\* Every step keeps the types.
LEMMA TypeStep == TypeOK /\ [Next]_vars => TypeOK'
<1> SUFFICES ASSUME TypeOK, [Next]_vars PROVE TypeOK'
  OBVIOUS
<1> USE DEF MainPoints, HandPoints, Locks, Counters
<1>0. th \in [Threads -> Thread]
  BY DEF TypeOK, Thread
<1>1. ASSUME NEW t \in Threads, Calls(t) \/ Progress(t) PROVE TypeOK'
  <2>1. CASE EnterMalloc(t)
    <3>1. th' \in [Threads -> Thread]
      BY <1>0, <2>1 DEF EnterMalloc, Thread
    <3> QED
      BY <3>1, <2>1 DEF EnterMalloc, TypeOK, Thread
  <2>2. CASE LeaveMalloc(t)
    <3>1. th' \in [Threads -> Thread]
      BY <1>0, <2>2 DEF LeaveMalloc, Thread
    <3> QED
      BY <3>1, <2>2 DEF LeaveMalloc, TypeOK, Thread
  <2>3. CASE CheckWaiting(t)
    <3>1. th' \in [Threads -> Thread]
      <4>1. CASE th[t].waiting
        BY <1>0, <2>3, <4>1 DEF CheckWaiting, Thread
      <4>2. CASE ~th[t].waiting
        <5>1. th' = [th EXCEPT ![t].main.at = "user"]
          BY <2>3, <4>2 DEF CheckWaiting
        <5> QED
          BY <1>0, <5>1 DEF Thread
      <4> QED
        BY <4>1, <4>2
    <3> QED
      BY <3>1, <2>3 DEF CheckWaiting, TypeOK, Thread
  <2>4. CASE ClearWaiting(t)
    <3>1. th' \in [Threads -> Thread]
      <4> DEFINE r == [th[t] EXCEPT !.main = [th[t].main EXCEPT !.at = "ackread"],
                                    !.waiting = FALSE]
      <4>1. [th[t].main EXCEPT !.at = "ackread"] \in [at : MainPoints, old : Nat]
        BY <1>0 DEF Thread
      <4>2. r \in Thread
        BY <1>0, <4>1 DEF Thread
      <4>3. th' = [th EXCEPT ![t] = r]
        BY <2>4 DEF ClearWaiting
      <4> HIDE DEF r
      <4> QED
        BY <1>0, <4>2, <4>3
    <3> QED
      BY <3>1, <2>4 DEF ClearWaiting, TypeOK, Thread
  <2>5. CASE LockThreadList(t)
    <3>1. th' \in [Threads -> Thread]
      BY <1>0, <2>5 DEF LockThreadList, Thread
    <3> QED
      BY <3>1, <2>5 DEF LockThreadList, TypeOK, Thread
  <2>6. CASE UnlockThreadList(t)
    <3>1. th' \in [Threads -> Thread]
      BY <1>0, <2>6 DEF UnlockThreadList, Thread
    <3> QED
      BY <3>1, <2>6 DEF UnlockThreadList, TypeOK, Thread
  <2>7. CASE LockAllocList(t)
    <3>1. th' \in [Threads -> Thread]
      BY <1>0, <2>7 DEF LockAllocList, Thread
    <3> QED
      BY <3>1, <2>7 DEF LockAllocList, TypeOK, Thread
  <2>8. CASE UnlockAllocList(t)
    <3>1. th' \in [Threads -> Thread]
      BY <1>0, <2>8 DEF UnlockAllocList, Thread
    <3> QED
      BY <3>1, <2>8 DEF UnlockAllocList, TypeOK, Thread
  <2>9. CASE StartThread(t)
    <3>1. th' \in [Threads -> Thread]
      BY <1>0, <2>9 DEF StartThread, Thread
    <3> QED
      BY <3>1, <2>9 DEF StartThread, TypeOK, Thread
  <2>10. CASE LeaveThread(t)
    <3>1. th' \in [Threads -> Thread]
      BY <1>0, <2>10 DEF LeaveThread, Thread
    <3> QED
      BY <3>1, <2>10 DEF LeaveThread, TypeOK, Thread
  <2>11. CASE RemoveThread(t)
    <3>1. th' \in [Threads -> Thread]
      BY <1>0, <2>11 DEF RemoveThread, Thread
    <3> QED
      BY <3>1, <2>11 DEF RemoveThread, TypeOK, Thread
  <2>12. CASE DeliverSignal(t)
    <3>1. th' \in [Threads -> Thread]
      BY <1>0, <2>12 DEF DeliverSignal, Frame, Thread
    <3> QED
      BY <3>1, <2>12 DEF DeliverSignal, TypeOK, Thread
  <2>13. CASE HandleSignal(t)
    <3>1. th' \in [Threads -> Thread]
      BY <1>0, <2>13 DEF HandleSignal, Frame, Thread
    <3> QED
      BY <3>1, <2>13 DEF HandleSignal, TypeOK, Thread
  <2>14. CASE AckRead(t)
    <3>1. th' \in [Threads -> Thread]
      <4>1. g_cleanup_counter \in Nat
        BY DEF TypeOK
      <4>2. CASE InHandler(t)
        BY <1>0, <2>14, <4>1, <4>2 DEF AckRead, SetTop, Thread
      <4>3. CASE ~InHandler(t)
        BY <1>0, <2>14, <4>1, <4>3 DEF AckRead, SetTop, Thread
      <4> QED
        BY <4>2, <4>3
    <3> QED
      BY <3>1, <2>14 DEF AckRead, TypeOK, Thread
  <2>15. CASE AckIncrement(t)
    <3>1. th' \in [Threads -> Thread]
      BY <1>0, <2>15 DEF AckIncrement, SetTop, Top, Thread
    <3> QED
      BY <3>1, <2>15 DEF AckIncrement, TypeOK, Thread
  <2>16. CASE AckReturn(t)
    <3>1. th' \in [Threads -> Thread]
      <4>1. CASE InHandler(t)
        BY <1>0, <2>16, <4>1 DEF AckReturn, SetTop, Frame, Thread
      <4>2. CASE ~InHandler(t)
        BY <1>0, <2>16, <4>2 DEF AckReturn, SetTop, Frame, Thread
      <4> QED
        BY <4>1, <4>2
    <3> QED
      BY <3>1, <2>16 DEF AckReturn, TypeOK, Thread
  <2>17. ASSUME NEW new \in Threads, CreateThread(t, new) PROVE TypeOK'
    BY <2>17 DEF CreateThread, TypeOK
  <2> QED
    BY <1>1, <2>1, <2>2, <2>3, <2>4, <2>5, <2>6, <2>7, <2>8, <2>9,
       <2>10, <2>11, <2>12, <2>13, <2>14, <2>15, <2>16, <2>17 DEF Calls, Progress
<1>2. CASE StartRound
  BY <1>2 DEF StartRound, TypeOK
<1>3. CASE BeginSignalling
  BY <1>3 DEF BeginSignalling, TypeOK
<1>4. CASE EndSignalling
  BY <1>4 DEF EndSignalling, TypeOK
<1>5. CASE Spin
  BY <1>5 DEF Spin, TypeOK
<1>6. CASE GetDeadReferences
  BY <1>6 DEF GetDeadReferences, TypeOK
<1>7. CASE Fork
  BY <1>7 DEF Fork, TypeOK
<1>8. CASE ReleaseThreads
  BY <1>8 DEF ReleaseThreads, TypeOK
<1>9. ASSUME NEW t \in Threads, SignalThread(t) PROVE TypeOK'
  <2>1. CASE th[t].status = "active"
    <3>1. th' \in [Threads -> Thread]
      <4>1. th' = [th EXCEPT ![t].pending = TRUE]
        BY <1>9, <2>1 DEF SignalThread
      <4> QED
        BY <1>0, <4>1 DEF Thread
    <3>2. gc' = [gc EXCEPT !.todo = gc.todo \ {t}, !.signalled = gc.signalled \cup {t}]
      BY <1>9, <2>1 DEF SignalThread
    <3>3. UNCHANGED <<Locks, Counters, deadrefs>>
      BY <1>9 DEF SignalThread
    <3> QED
      BY <3>1, <3>2, <3>3 DEF TypeOK, Thread
  <2>2. CASE th[t].status # "active"
    BY <1>9, <2>2 DEF SignalThread, TypeOK
  <2> QED
    BY <2>1, <2>2
<1>10. CASE UNCHANGED vars
  BY <1>10 DEF vars, TypeOK
<1> QED
  BY <1>1, <1>2, <1>3, <1>4, <1>5, <1>6, <1>7, <1>8, <1>9, <1>10 DEF Next, Collector

-----------------------------------------------------------------------------
(***************************************************************************)
(* The steps of the threads.                                               *)
(***************************************************************************)

\* A thread that executes ordinary code goes from one point to another, neither
\* of which has to do with an acknowledgement.
Ordinary == {"user", "in", "out", "list", "alloc"}

\* Such a step preserves the invariant.
LEMMA OrdinaryStep ==
    ASSUME IInv, TypeOK', NEW t \in Threads, NEW point \in Ordinary,
           ~InHandler(t), th[t].main.at \in Ordinary,
           th' = [th EXCEPT ![t].main.at = point],
           th[t].waiting => point \in {"in", "out"},
           UNCHANGED <<gc, g_cleanup_counter, g_received_signal>>
    PROVE  IInv'
<1>1. th \in [Threads -> Thread] /\ DebtInv(t) /\ PlaceInv(t) /\ CounterInv(t)
  BY DEF IInv, TypeOK, Thread
<1>2. /\ th'[t].main.at = point /\ th'[t].hand = th[t].hand
      /\ th'[t].waiting = th[t].waiting /\ th'[t].pending = th[t].pending
      /\ \A u \in Threads \ {t} : th'[u] = th[u]
  BY <1>1 DEF Thread
<1>3. DebtInv(t)' /\ PlaceInv(t)' /\ CounterInv(t)' /\ (Stopped(t)' <=> Stopped(t))
  BY <1>1, <1>2
  DEF DebtInv, PlaceInv, CounterInv, Owes, Stopped, Top, InHandler, InRound,
      InMalloc, Acknowledging, Handling, Ordinary
<1> QED
  BY <1>2, <1>3, ThreadStep

\* A step that changes nothing but the status of threads preserves it, too.
LEMMA StatusStep ==
    ASSUME IInv, TypeOK', NEW t \in Threads, NEW status,
           th' = [th EXCEPT ![t].status = status],
           UNCHANGED <<gc, g_cleanup_counter, g_received_signal>>
    PROVE  IInv'
<1>1. th \in [Threads -> Thread] /\ DebtInv(t) /\ PlaceInv(t) /\ CounterInv(t)
  BY DEF IInv, TypeOK, Thread
<1>2. /\ th'[t].main = th[t].main /\ th'[t].hand = th[t].hand
      /\ th'[t].waiting = th[t].waiting /\ th'[t].pending = th[t].pending
      /\ \A u \in Threads \ {t} : th'[u] = th[u]
  BY <1>1 DEF Thread
<1>3. DebtInv(t)' /\ PlaceInv(t)' /\ CounterInv(t)' /\ (Stopped(t)' <=> Stopped(t))
  BY <1>1, <1>2, SameFrames
<1> QED
  BY <1>2, <1>3, ThreadStep

\* Looking at the flag, and clearing it.
LEMMA FlagStep ==
    ASSUME IInv, TypeOK', NEW t \in Threads, CheckWaiting(t) \/ ClearWaiting(t)
    PROVE  IInv'
<1>1. th \in [Threads -> Thread] /\ DebtInv(t) /\ PlaceInv(t) /\ CounterInv(t)
  BY DEF IInv, TypeOK, Thread
<1>2. UNCHANGED <<gc, g_cleanup_counter, g_received_signal>>
  BY DEF CheckWaiting, ClearWaiting, Counters
<1>3. CASE CheckWaiting(t)
  <2>1. /\ th'[t].main.at = IF th[t].waiting THEN "saw" ELSE "user"
        /\ th[t].main.at = "out" /\ ~InHandler(t)
        /\ th'[t].hand = th[t].hand
        /\ th'[t].waiting = th[t].waiting /\ th'[t].pending = th[t].pending
        /\ \A u \in Threads \ {t} : th'[u] = th[u]
    BY <1>1, <1>3 DEF CheckWaiting, At, Thread
  <2>2. DebtInv(t)' /\ PlaceInv(t)' /\ CounterInv(t)' /\ (Stopped(t)' <=> Stopped(t))
    BY <1>1, <1>2, <2>1
    DEF DebtInv, PlaceInv, CounterInv, Owes, Stopped, Top, InHandler, InRound,
        InMalloc, Acknowledging, Handling
  <2> QED
    BY <1>2, <2>1, <2>2, ThreadStep
<1>4. CASE ClearWaiting(t)
  <2>1. /\ th'[t].main.at = "ackread"
        /\ th[t].main.at = "saw" /\ ~InHandler(t)
        /\ th'[t].hand = th[t].hand
        /\ th'[t].waiting = FALSE /\ th'[t].pending = th[t].pending
        /\ \A u \in Threads \ {t} : th'[u] = th[u]
    BY <1>1, <1>4 DEF ClearWaiting, At, Thread
  <2>2. DebtInv(t)' /\ PlaceInv(t)' /\ CounterInv(t)' /\ (Stopped(t)' <=> Stopped(t))
    BY <1>1, <1>2, <2>1
    DEF DebtInv, PlaceInv, CounterInv, Owes, Stopped, Top, InHandler, InRound,
        InMalloc, Acknowledging, Handling
  <2> QED
    BY <1>2, <2>1, <2>2, ThreadStep
<1> QED
  BY <1>3, <1>4

\* The handler is entered, and decides.
LEMMA HandlerStep ==
    ASSUME IInv, TypeOK', NEW t \in Threads, DeliverSignal(t) \/ HandleSignal(t)
    PROVE  IInv'
<1>1. th \in [Threads -> Thread] /\ DebtInv(t) /\ PlaceInv(t) /\ CounterInv(t)
  BY DEF IInv, TypeOK, Thread
<1>2. UNCHANGED <<gc, g_cleanup_counter, g_received_signal>>
  BY DEF DeliverSignal, HandleSignal, Counters
<1>3. CASE DeliverSignal(t)
  <2>1. /\ th[t].pending /\ th[t].hand.at = "none"
        /\ th'[t].hand.at = "enter" /\ th'[t].main = th[t].main
        /\ th'[t].waiting = th[t].waiting /\ th'[t].pending = FALSE
        /\ \A u \in Threads \ {t} : th'[u] = th[u]
    BY <1>1, <1>3 DEF DeliverSignal, Frame, Thread
  <2>2. DebtInv(t)' /\ PlaceInv(t)' /\ CounterInv(t)' /\ (Stopped(t)' <=> Stopped(t))
    BY <1>1, <1>2, <2>1
    DEF DebtInv, PlaceInv, CounterInv, Owes, Stopped, Top, InHandler, InRound,
        InMalloc, Acknowledging, Handling
  <2> QED
    BY <1>2, <2>1, <2>2, ThreadStep
<1>4. CASE HandleSignal(t) /\ InMalloc(t)
  <2>1. /\ th[t].hand.at = "enter" /\ th[t].main.at = "in"
        /\ th'[t].hand.at = "none" /\ th'[t].main = th[t].main
        /\ th'[t].waiting = TRUE /\ th'[t].pending = th[t].pending
        /\ \A u \in Threads \ {t} : th'[u] = th[u]
    BY <1>1, <1>4 DEF HandleSignal, InMalloc, Frame, Thread
  <2>2. DebtInv(t)' /\ PlaceInv(t)' /\ CounterInv(t)' /\ (Stopped(t)' <=> Stopped(t))
    BY <1>1, <1>2, <2>1
    DEF DebtInv, PlaceInv, CounterInv, Owes, Stopped, Top, InHandler, InRound,
        InMalloc, Acknowledging, Handling
  <2> QED
    BY <1>2, <2>1, <2>2, ThreadStep
<1>5. CASE HandleSignal(t) /\ ~InMalloc(t)
  <2>1. /\ th[t].hand.at = "enter"
        /\ th'[t].hand.at = "ackread" /\ th'[t].main = th[t].main
        /\ th'[t].waiting = th[t].waiting /\ th'[t].pending = th[t].pending
        /\ \A u \in Threads \ {t} : th'[u] = th[u]
    BY <1>1, <1>5 DEF HandleSignal, Thread
  <2>2. DebtInv(t)' /\ PlaceInv(t)' /\ CounterInv(t)' /\ (Stopped(t)' <=> Stopped(t))
    BY <1>1, <1>2, <1>5, <2>1
    DEF DebtInv, PlaceInv, CounterInv, Owes, Stopped, Top, InHandler, InRound,
        InMalloc, Acknowledging, Handling
  <2> QED
    BY <1>2, <2>1, <2>2, ThreadStep
<1> QED
  BY <1>3, <1>4, <1>5

\* The acknowledgement remembers the counter, and returns in a later round.
LEMMA AckStep ==
    ASSUME IInv, TypeOK', NEW t \in Threads, AckRead(t) \/ AckReturn(t)
    PROVE  IInv'
<1>1. th \in [Threads -> Thread] /\ DebtInv(t) /\ PlaceInv(t) /\ CounterInv(t)
  BY DEF IInv, TypeOK, Thread
<1>2. UNCHANGED <<gc, g_cleanup_counter, g_received_signal>> /\ g_cleanup_counter \in Nat
  BY DEF AckRead, AckReturn, Counters, IInv, TypeOK
<1>3. CASE AckRead(t) /\ InHandler(t)
  <2>1. /\ th[t].hand.at = "ackread" /\ th'[t].hand.at = "ackinc"
        /\ th'[t].hand.old = g_cleanup_counter /\ th'[t].main = th[t].main
        /\ th'[t].waiting = th[t].waiting /\ th'[t].pending = th[t].pending
        /\ \A u \in Threads \ {t} : th'[u] = th[u]
    BY <1>1, <1>3 DEF AckRead, SetTop, Top, Thread
  <2>2. DebtInv(t)' /\ PlaceInv(t)' /\ CounterInv(t)' /\ (Stopped(t)' <=> Stopped(t))
    BY <1>1, <1>2, <1>3, <2>1
    DEF DebtInv, PlaceInv, CounterInv, Owes, Stopped, Top, InHandler, InRound,
        InMalloc, Acknowledging, Handling
  <2> QED
    BY <1>2, <2>1, <2>2, ThreadStep
<1>4. CASE AckRead(t) /\ ~InHandler(t)
  <2>1. /\ th[t].main.at = "ackread" /\ th'[t].main.at = "ackinc"
        /\ th'[t].main.old = g_cleanup_counter /\ th'[t].hand = th[t].hand
        /\ th'[t].waiting = th[t].waiting /\ th'[t].pending = th[t].pending
        /\ \A u \in Threads \ {t} : th'[u] = th[u]
    BY <1>1, <1>4 DEF AckRead, SetTop, Top, Thread
  <2>2. DebtInv(t)' /\ PlaceInv(t)' /\ CounterInv(t)' /\ (Stopped(t)' <=> Stopped(t))
    BY <1>1, <1>2, <1>4, <2>1
    DEF DebtInv, PlaceInv, CounterInv, Owes, Stopped, Top, InHandler, InRound,
        InMalloc, Acknowledging, Handling
  <2> QED
    BY <1>2, <2>1, <2>2, ThreadStep
<1>5. CASE AckReturn(t) /\ InHandler(t)
  <2>1. /\ th[t].hand.at = "ackwait" /\ th[t].hand.old # g_cleanup_counter
        /\ th'[t].hand.at = "none" /\ th'[t].main = th[t].main
        /\ th'[t].waiting = th[t].waiting /\ th'[t].pending = th[t].pending
        /\ \A u \in Threads \ {t} : th'[u] = th[u]
    BY <1>1, <1>5 DEF AckReturn, SetTop, Top, Thread, Frame
  <2>2. DebtInv(t)' /\ PlaceInv(t)' /\ CounterInv(t)' /\ (Stopped(t)' <=> Stopped(t))
    BY <1>1, <1>2, <1>5, <2>1
    DEF DebtInv, PlaceInv, CounterInv, Owes, Stopped, Top, InHandler, InRound,
        InMalloc, Acknowledging, Handling
  <2> QED
    BY <1>2, <2>1, <2>2, ThreadStep
<1>6. CASE AckReturn(t) /\ ~InHandler(t)
  <2>1. /\ th[t].main.at = "ackwait" /\ th[t].main.old # g_cleanup_counter
        /\ th'[t].main.at = "user" /\ th'[t].hand = th[t].hand
        /\ th'[t].waiting = th[t].waiting /\ th'[t].pending = th[t].pending
        /\ \A u \in Threads \ {t} : th'[u] = th[u]
    BY <1>1, <1>6 DEF AckReturn, SetTop, Top, Thread, Frame
  <2>2. DebtInv(t)' /\ PlaceInv(t)' /\ CounterInv(t)' /\ (Stopped(t)' <=> Stopped(t))
    BY <1>1, <1>2, <1>6, <2>1
    DEF DebtInv, PlaceInv, CounterInv, Owes, Stopped, Top, InHandler, InRound,
        InMalloc, Acknowledging, Handling
  <2> QED
    BY <1>2, <2>1, <2>2, ThreadStep
<1> QED
  BY <1>3, <1>4, <1>5, <1>6

\* A thread is counted, and stands still from then on.
LEMMA CountStep ==
    ASSUME IInv, TypeOK', NEW t \in Threads, AckIncrement(t)
    PROVE  IInv'
<1>1. th \in [Threads -> Thread] /\ DebtInv(t) /\ PlaceInv(t) /\ CounterInv(t)
  BY DEF IInv, TypeOK, Thread
<1>2. /\ UNCHANGED <<gc, g_cleanup_counter>>
      /\ g_received_signal' = g_received_signal + 1
      /\ g_cleanup_counter \in Nat /\ g_received_signal \in Nat
  BY DEF AckIncrement, IInv, TypeOK
<1>3. /\ DebtInv(t)' /\ PlaceInv(t)' /\ CounterInv(t)'
      /\ \A u \in Threads \ {t} : th'[u] = th[u]
      /\ Owes(t) /\ Stopped(t)'
  <2>1. CASE InHandler(t)
    <3>1. /\ th[t].hand.at = "ackinc" /\ th'[t].hand.at = "ackwait"
          /\ th'[t].hand.old = th[t].hand.old /\ th'[t].main = th[t].main
          /\ th'[t].waiting = th[t].waiting /\ th'[t].pending = th[t].pending
          /\ \A u \in Threads \ {t} : th'[u] = th[u]
      BY <1>1, <2>1 DEF AckIncrement, SetTop, Top, Thread
    <3> QED
      BY <1>1, <1>2, <2>1, <3>1
      DEF DebtInv, PlaceInv, CounterInv, Owes, Stopped, Top, InHandler, InRound,
          InMalloc, Acknowledging, Handling
  <2>2. CASE ~InHandler(t)
    <3>1. /\ th[t].main.at = "ackinc" /\ th'[t].main.at = "ackwait"
          /\ th'[t].main.old = th[t].main.old /\ th'[t].hand = th[t].hand
          /\ th'[t].waiting = th[t].waiting /\ th'[t].pending = th[t].pending
          /\ \A u \in Threads \ {t} : th'[u] = th[u]
      BY <1>1, <2>2 DEF AckIncrement, SetTop, Top, Thread
    <3> QED
      BY <1>1, <1>2, <2>2, <3>1
      DEF DebtInv, PlaceInv, CounterInv, Owes, Stopped, Top, InHandler, InRound,
          InMalloc, Acknowledging, Handling
  <2> QED
    BY <2>1, <2>2
<1>4. /\ gc.pc \in {"signal", "spin"} /\ t \in gc.signalled /\ ~Stopped(t)
  BY <1>1, <1>3 DEF DebtInv
<1>5. ASSUME NEW u \in Threads \ {t}
      PROVE  /\ DebtInv(u)' /\ PlaceInv(u)' /\ CounterInv(u)'
             /\ Stopped(u)' <=> Stopped(u)
  <2>1. th'[u] = th[u] /\ DebtInv(u) /\ PlaceInv(u) /\ CounterInv(u)
    BY <1>3 DEF IInv
  <2> QED
    BY <1>2, <2>1, SameFrames
<1>6. AckExact'
  <2> DEFINE S == {u \in gc.signalled : Stopped(u)}
             T == {u \in gc'.signalled : Stopped(u)'}
  <2>1. gc.signalled \subseteq Threads
    BY DEF IInv, TypeOK
  <2>2. T = S \cup {t} /\ t \notin S
    BY <1>2, <1>3, <1>4, <1>5, <2>1
  <2>3. IsFiniteSet(S)
    BY <2>1, ThreadsAssumption, FS_Subset
  <2>4. Cardinality(T) = Cardinality(S) + 1
    BY <2>2, <2>3, FS_AddElement
  <2>5. g_received_signal = Cardinality(S)
    BY <1>4 DEF IInv, AckExact, InRound
  <2> QED
    BY <1>2, <2>4, <2>5 DEF AckExact
<1>7. TodoInv'
  BY <1>2, <1>4 DEF IInv, TodoInv
<1> QED
  BY <1>3, <1>5, <1>6, <1>7 DEF IInv

-----------------------------------------------------------------------------
(***************************************************************************)
(* The steps of the collector.                                             *)
(***************************************************************************)

\* A thread is signalled: it now owes an acknowledgement.
LEMMA SignalStep ==
    ASSUME IInv, TypeOK', NEW t \in Threads, SignalThread(t)
    PROVE  IInv'
<1>1. /\ th \in [Threads -> Thread] /\ gc.signalled \subseteq Threads
      /\ gc \in [pc : {"idle", "lock", "signal", "spin", "dead", "fork", "bump"},
                 todo : SUBSET Threads, signalled : SUBSET Threads]
  BY DEF IInv, TypeOK, Thread
<1>2. gc.pc = "signal" /\ t \in gc.todo /\ t \notin gc.signalled
  BY DEF SignalThread, IInv, TodoInv
<1>3. UNCHANGED <<g_cleanup_counter, g_received_signal>>
  BY DEF SignalThread, Counters
<1>4. \A u \in Threads : DebtInv(u) /\ PlaceInv(u) /\ CounterInv(u)
  BY DEF IInv
<1>5. ~Owes(t) /\ ~Stopped(t)
  BY <1>2, <1>4 DEF DebtInv
<1>6. CASE th[t].status = "active"
  <2>1. /\ th'[t].pending = TRUE /\ th'[t].main = th[t].main
        /\ th'[t].hand = th[t].hand /\ th'[t].waiting = th[t].waiting
        /\ \A u \in Threads \ {t} : th'[u] = th[u]
    BY <1>1, <1>6 DEF SignalThread, Thread
  <2>2. gc'.pc = "signal" /\ gc'.signalled = gc.signalled \cup {t} /\ gc'.todo = gc.todo \ {t}
    BY <1>1, <1>2, <1>6 DEF SignalThread
  <2>3. DebtInv(t)' /\ PlaceInv(t)' /\ CounterInv(t)' /\ ~Stopped(t)'
    BY <1>3, <1>4, <1>5, <2>1, <2>2
    DEF DebtInv, PlaceInv, CounterInv, Owes, Stopped, Top, InHandler, InRound,
        InMalloc, Acknowledging, Handling
  <2>4. ASSUME NEW u \in Threads \ {t}
        PROVE  /\ DebtInv(u)' /\ PlaceInv(u)' /\ CounterInv(u)'
               /\ Stopped(u)' <=> Stopped(u)
    BY <1>2, <1>3, <1>4, <2>1, <2>2
    DEF DebtInv, PlaceInv, CounterInv, Owes, Stopped, Top, InHandler, InRound, InMalloc
  <2>5. {u \in gc'.signalled : Stopped(u)'} = {u \in gc.signalled : Stopped(u)}
    BY <1>1, <1>2, <1>5, <2>2, <2>3, <2>4
  <2>6. AckExact'
    BY <1>2, <1>3, <2>5 DEF IInv, AckExact, InRound
  <2>7. TodoInv'
    BY <1>2, <2>2 DEF IInv, TodoInv
  <2> QED
    BY <2>3, <2>4, <2>6, <2>7 DEF IInv
<1>7. CASE th[t].status # "active"
  <2>1. /\ th' = th /\ gc'.pc = gc.pc /\ gc'.signalled = gc.signalled
        /\ gc'.todo = gc.todo \ {t}
    BY <1>1, <1>7 DEF SignalThread
  <2>2. ASSUME NEW u \in Threads
        PROVE  /\ DebtInv(u)' /\ PlaceInv(u)' /\ CounterInv(u)'
               /\ Stopped(u)' <=> Stopped(u)
    BY <1>3, <1>4, <2>1
    DEF DebtInv, PlaceInv, CounterInv, Owes, Stopped, Top, InHandler, InRound, InMalloc
  <2>3. {u \in gc'.signalled : Stopped(u)'} = {u \in gc.signalled : Stopped(u)}
    BY <1>1, <2>1, <2>2
  <2>4. AckExact'
    BY <1>3, <2>1, <2>3 DEF IInv, AckExact, InRound
  <2>5. TodoInv'
    BY <1>2, <2>1 DEF IInv, TodoInv
  <2> QED
    BY <2>2, <2>4, <2>5 DEF IInv
<1> QED
  BY <1>6, <1>7

\* When the counts agree, all the threads that were signalled have been counted.
LEMMA AllCounted ==
    ASSUME IInv, gc.pc = "spin", g_received_signal >= Cardinality(gc.signalled)
    PROVE  \A t \in gc.signalled : Stopped(t)
<1> DEFINE S == {t \in gc.signalled : Stopped(t)}
<1>1. gc.signalled \subseteq Threads /\ g_received_signal \in Nat
  BY DEF IInv, TypeOK
<1>2. IsFiniteSet(gc.signalled)
  BY <1>1, ThreadsAssumption, FS_Subset
<1>3. g_received_signal = Cardinality(S)
  BY DEF IInv, AckExact, InRound
<1>4. S \subseteq gc.signalled
  OBVIOUS
<1>5. /\ Cardinality(S) <= Cardinality(gc.signalled)
      /\ Cardinality(S) = Cardinality(gc.signalled) => S = gc.signalled
  BY <1>2, <1>4, FS_Subset
<1>6. Cardinality(S) \in Nat /\ Cardinality(gc.signalled) \in Nat
  BY <1>2, <1>4, FS_Subset, FS_CardinalityType
<1>7. S = gc.signalled
  BY <1>3, <1>5, <1>6
<1> QED
  BY <1>7

\* The other steps of the collector.
LEMMA CollectorStep ==
    ASSUME IInv, TypeOK',
           \/ StartRound \/ BeginSignalling \/ EndSignalling \/ Spin
           \/ GetDeadReferences \/ Fork \/ ReleaseThreads
    PROVE  IInv'
<1>1. /\ gc.signalled \subseteq Threads /\ th' = th
      /\ gc \in [pc : {"idle", "lock", "signal", "spin", "dead", "fork", "bump"},
                 todo : SUBSET Threads, signalled : SUBSET Threads]
      /\ th \in [Threads -> Thread] /\ g_cleanup_counter \in Nat
  BY DEF IInv, TypeOK, Thread, StartRound, BeginSignalling, EndSignalling, Spin,
         GetDeadReferences, Fork, ReleaseThreads
<1>2. \A t \in Threads : DebtInv(t) /\ PlaceInv(t) /\ CounterInv(t)
  BY DEF IInv
<1> USE DEF DebtInv, PlaceInv, CounterInv, Owes, Stopped, Top, InHandler, InRound, InMalloc
<1>3. CASE StartRound
  <2>1. /\ gc.pc = "idle" /\ gc' = [pc |-> "lock", todo |-> {}, signalled |-> {}]
        /\ g_received_signal' = 0 /\ g_cleanup_counter' = g_cleanup_counter
    BY <1>3 DEF StartRound
  <2>2. ASSUME NEW t \in Threads PROVE DebtInv(t)' /\ PlaceInv(t)' /\ CounterInv(t)'
    BY <1>1, <1>2, <2>1
  <2> QED
    BY <2>1, <2>2 DEF IInv, TodoInv, AckExact
<1>4. CASE BeginSignalling
  <2>1. /\ gc.pc = "lock" /\ gc.signalled = {} /\ gc'.signalled = {} /\ gc'.pc = "signal"
        /\ g_received_signal = 0
        /\ UNCHANGED <<g_received_signal, g_cleanup_counter>>
    BY <1>1, <1>4 DEF BeginSignalling, IInv, TodoInv, Counters
  <2>2. ASSUME NEW t \in Threads PROVE DebtInv(t)' /\ PlaceInv(t)' /\ CounterInv(t)'
    BY <1>1, <1>2, <2>1
  <2>3. AckExact'
    <3>1. {t \in gc'.signalled : Stopped(t)'} = {}
      BY <2>1
    <3> QED
      BY <2>1, <3>1, FS_EmptySet DEF AckExact
  <2> QED
    BY <2>1, <2>2, <2>3 DEF IInv, TodoInv
<1>5. CASE EndSignalling
  <2>1. /\ gc.pc = "signal" /\ gc'.pc = "spin" /\ gc'.signalled = gc.signalled
        /\ gc'.todo = gc.todo /\ UNCHANGED <<g_received_signal, g_cleanup_counter>>
    BY <1>1, <1>5 DEF EndSignalling, Counters
  <2>2. ASSUME NEW t \in Threads PROVE DebtInv(t)' /\ PlaceInv(t)' /\ CounterInv(t)'
    BY <1>1, <1>2, <2>1
  <2>3. {t \in gc'.signalled : Stopped(t)'} = {t \in gc.signalled : Stopped(t)}
    BY <1>1, <2>1
  <2> QED
    BY <2>1, <2>2, <2>3 DEF IInv, TodoInv, AckExact
<1>6. CASE Spin
  <2>1. /\ gc.pc = "spin" /\ gc'.pc = "dead" /\ gc'.signalled = gc.signalled
        /\ gc'.todo = gc.todo /\ UNCHANGED <<g_received_signal, g_cleanup_counter>>
        /\ g_received_signal >= Cardinality(gc.signalled)
    BY <1>1, <1>6 DEF Spin, Counters
  <2>2. \A t \in gc.signalled : Stopped(t)
    BY <2>1, AllCounted
  <2>3. ASSUME NEW t \in Threads PROVE DebtInv(t)' /\ PlaceInv(t)' /\ CounterInv(t)'
    BY <1>1, <1>2, <2>1, <2>2
  <2>4. {t \in gc'.signalled : Stopped(t)'} = {t \in gc.signalled : Stopped(t)}
    BY <1>1, <2>1
  <2> QED
    BY <2>1, <2>3, <2>4 DEF IInv, TodoInv, AckExact
<1>7. CASE GetDeadReferences \/ Fork
  <2>1. /\ gc.pc \in {"dead", "fork"} /\ gc'.pc \in {"fork", "bump"}
        /\ gc'.signalled = gc.signalled /\ gc'.todo = gc.todo
        /\ UNCHANGED <<g_received_signal, g_cleanup_counter>>
    BY <1>1, <1>7 DEF GetDeadReferences, Fork, Counters
  <2>2. ASSUME NEW t \in Threads PROVE DebtInv(t)' /\ PlaceInv(t)' /\ CounterInv(t)'
    BY <1>1, <1>2, <2>1
  <2>3. {t \in gc'.signalled : Stopped(t)'} = {t \in gc.signalled : Stopped(t)}
    BY <1>1, <2>1
  <2> QED
    BY <2>1, <2>2, <2>3 DEF IInv, TodoInv, AckExact
<1>8. CASE ReleaseThreads
  <2>1. /\ gc.pc = "bump" /\ gc'.pc = "idle" /\ gc'.signalled = gc.signalled
        /\ gc'.todo = gc.todo /\ g_cleanup_counter' = g_cleanup_counter + 1
    BY <1>1, <1>8 DEF ReleaseThreads
  <2>2. ASSUME NEW t \in Threads PROVE DebtInv(t)' /\ PlaceInv(t)' /\ CounterInv(t)'
    <3>1. ~Owes(t)
      BY <1>2, <2>1
    <3>2. th[t].main.old \in Nat /\ th[t].hand.old \in Nat
      BY <1>1 DEF Thread
    <3>3. CounterInv(t)'
      BY <1>1, <1>2, <2>1, <3>1, <3>2 DEF Acknowledging, Handling
    <3>4. ~Stopped(t)'
      BY <1>1, <1>2, <2>1, <3>2
    <3> QED
      BY <1>1, <1>2, <2>1, <3>1, <3>3, <3>4
  <2> QED
    BY <2>1, <2>2 DEF IInv, TodoInv, AckExact
<1> QED
  BY <1>3, <1>4, <1>5, <1>6, <1>7, <1>8

-----------------------------------------------------------------------------
\* Initially nobody owes or stands still.
LEMMA InitIInv == Init => IInv
<1> SUFFICES ASSUME Init PROVE IInv
  OBVIOUS
<1>1. TypeOK
  BY ThreadsAssumption, OptionsAssumption
  DEF Init, TypeOK, NewThread, Frame, MainPoints, HandPoints
<1>2. ASSUME NEW t \in Threads PROVE DebtInv(t) /\ PlaceInv(t) /\ CounterInv(t)
  BY DEF Init, NewThread, Frame, DebtInv, PlaceInv, CounterInv, Owes, Stopped, Top,
         InHandler, InRound, InMalloc, Acknowledging, Handling
<1>3. TodoInv /\ AckExact
  BY DEF Init, TodoInv, AckExact, InRound
<1> QED
  BY <1>1, <1>2, <1>3 DEF IInv

\* Every step preserves the invariant.
LEMMA NextIInv == IInv /\ [Next]_vars => IInv'
<1> SUFFICES ASSUME IInv, [Next]_vars PROVE IInv'
  OBVIOUS
<1>0. TypeOK'
  BY TypeStep DEF IInv
<1>1. ASSUME NEW t \in Threads, Calls(t) \/ Progress(t) PROVE IInv'
  <2>0. PlaceInv(t)
    BY DEF IInv
  <2>1. CASE \/ EnterMalloc(t) \/ LockThreadList(t) \/ UnlockThreadList(t)
             \/ LockAllocList(t) \/ UnlockAllocList(t) \/ LeaveMalloc(t)
    <3>1. PICK point \in Ordinary :
            /\ th' = [th EXCEPT ![t].main.at = point]
            /\ th[t].waiting => point \in {"in", "out"}
      BY <2>0, <2>1
      DEF EnterMalloc, LockThreadList, UnlockThreadList, LockAllocList,
          UnlockAllocList, LeaveMalloc, At, Ordinary, PlaceInv
    <3>2. /\ ~InHandler(t) /\ th[t].main.at \in Ordinary
          /\ UNCHANGED <<gc, g_cleanup_counter, g_received_signal>>
      BY <2>1
      DEF EnterMalloc, LockThreadList, UnlockThreadList, LockAllocList,
          UnlockAllocList, LeaveMalloc, At, Ordinary, Counters
    <3> QED
      BY <1>0, <3>1, <3>2, OrdinaryStep
  <2>2. CASE StartThread(t) \/ LeaveThread(t) \/ RemoveThread(t)
    BY <1>0, <2>2, StatusStep DEF StartThread, LeaveThread, RemoveThread, Counters
  <2>3. ASSUME NEW new \in Threads, CreateThread(t, new) PROVE IInv'
    BY <1>0, <2>3, StatusStep DEF CreateThread, Counters
  <2>4. CASE CheckWaiting(t) \/ ClearWaiting(t)
    BY <1>0, <2>4, FlagStep
  <2>5. CASE DeliverSignal(t) \/ HandleSignal(t)
    BY <1>0, <2>5, HandlerStep
  <2>6. CASE AckRead(t) \/ AckReturn(t)
    BY <1>0, <2>6, AckStep
  <2>7. CASE AckIncrement(t)
    BY <1>0, <2>7, CountStep
  <2> QED
    BY <1>1, <2>1, <2>2, <2>3, <2>4, <2>5, <2>6, <2>7 DEF Calls, Progress
<1>2. CASE Collector
  <2>1. ASSUME NEW t \in Threads, SignalThread(t) PROVE IInv'
    BY <1>0, <2>1, SignalStep
  <2> QED
    BY <1>0, <1>2, <2>1, CollectorStep DEF Collector
<1>3. CASE UNCHANGED vars
  <2>1. \A t \in Threads : DebtInv(t)' /\ PlaceInv(t)' /\ CounterInv(t)'
    BY <1>3
    DEF vars, IInv, DebtInv, PlaceInv, CounterInv, Owes, Stopped, Top, InHandler,
        InRound, InMalloc
  <2>2. AckExact' /\ TodoInv'
    BY <1>3
    DEF vars, IInv, AckExact, TodoInv, Stopped, Top, InHandler, InRound
  <2> QED
    BY <1>0, <2>1, <2>2 DEF IInv
<1> QED
  BY <1>1, <1>2, <1>3 DEF Next

\* The invariant holds of every behaviour.
LEMMA IInvHolds == Spec => []IInv
BY InitIInv, NextIInv, PTL DEF Spec

\* Every variable of the handshake keeps its type.
THEOREM TypeCorrect == Spec => []TypeOK
<1>1. IInv => TypeOK
  BY DEF IInv
<1> QED
  BY <1>1, IInvHolds, PTL

\* Each thread that is signalled is counted exactly once per round, whether its
\* handler answers at once, defers the answer to the end of an allocator call,
\* or interrupts the wait of the round before.
THEOREM AcknowledgementsExact == Spec => []AckExact
<1>1. IInv => AckExact
  BY DEF IInv
<1> QED
  BY <1>1, IInvHolds, PTL

\* From the end of the collector's wait to the release of the threads, every
\* thread that was signalled stands still outside the allocator: the fork sees
\* no allocator lock of theirs held and all their registers saved.
THEOREM BarrierHolds == Spec => []Barrier
<1>1. IInv => Barrier
  <2> SUFFICES ASSUME IInv, gc.pc \in {"dead", "fork", "bump"}, NEW t \in gc.signalled
               PROVE  Stopped(t) /\ ~InMalloc(t)
    BY DEF Barrier
  <2>1. t \in Threads
    BY DEF IInv, TypeOK
  <2>2. DebtInv(t) /\ PlaceInv(t)
    BY <2>1 DEF IInv
  <2>3. Stopped(t)
    BY <2>2 DEF DebtInv, InRound
  <2>4. ~InMalloc(t)
    BY <2>2, <2>3 DEF PlaceInv, Stopped, Top, InHandler, InMalloc
  <2> QED
    BY <2>3, <2>4
<1> QED
  BY <1>1, IInvHolds, PTL

\* The flag g_waiting_to_fork never outlives the round that raised it.
THEOREM FlagNeverStale == Spec => []NoStaleFlag
<1>1. IInv => NoStaleFlag
  BY DEF IInv, NoStaleFlag, DebtInv, Owes
<1> QED
  BY <1>1, IInvHolds, PTL
=============================================================================
