-------------------------- MODULE Retirees_proofs --------------------------
(***************************************************************************)
(* Proofs about Retirees, for every set of threads, addresses and buffers  *)
(* and every size: the list of retiree buffers stays in order, reference   *)
(* counts are exact, only buffers that nobody can reach are released, and  *)
(* no retired address is lost or freed twice.                              *)
(***************************************************************************)
EXTENDS Retirees, FiniteSetTheorems, WellFoundedInduction, TLAPS

-----------------------------------------------------------------------------
(***************************************************************************)
(* Sequences without duplicates.                                           *)
(***************************************************************************)
Distinct(seq) == \A j, k \in 1 .. Len(seq) : seq[j] = seq[k] => j = k

LEMMA ElemsEmpty == Elems(<<>>) = {} /\ Distinct(<<>>)
BY DEF Elems, Distinct

LEMMA AppendElems ==
    ASSUME NEW B, NEW seq \in Seq(B), NEW b \in B
    PROVE  /\ Append(seq, b) \in Seq(B)
           /\ Len(Append(seq, b)) = Len(seq) + 1
           /\ Append(seq, b)[Len(seq) + 1] = b
           /\ \A k \in 1 .. Len(seq) : Append(seq, b)[k] = seq[k]
           /\ Elems(Append(seq, b)) = Elems(seq) \cup {b}
           /\ Distinct(seq) /\ b \notin Elems(seq) => Distinct(Append(seq, b))
<1> DEFINE app == Append(seq, b)
<1>1. /\ app \in Seq(B) /\ Len(app) = Len(seq) + 1 /\ Len(seq) \in Nat
      /\ app[Len(seq) + 1] = b
      /\ \A k \in 1 .. Len(seq) : app[k] = seq[k]
  OBVIOUS
<1> HIDE DEF app
<1>2. Elems(app) = Elems(seq) \cup {b}
  BY <1>1 DEF Elems
<1>3. ASSUME Distinct(seq), b \notin Elems(seq) PROVE Distinct(app)
  BY <1>1, <1>3 DEF Elems, Distinct
<1> QED
  BY <1>1, <1>2, <1>3 DEF app

LEMMA PrependElems ==
    ASSUME NEW B, NEW seq \in Seq(B), NEW b \in B
    PROVE  /\ <<b>> \o seq \in Seq(B)
           /\ Elems(<<b>> \o seq) = Elems(seq) \cup {b}
           /\ Distinct(seq) /\ b \notin Elems(seq) => Distinct(<<b>> \o seq)
<1> DEFINE pre == <<b>> \o seq
<1>1. /\ pre \in Seq(B) /\ Len(pre) = Len(seq) + 1 /\ Len(seq) \in Nat
      /\ pre[1] = b
      /\ \A k \in 1 .. Len(seq) : pre[k + 1] = seq[k]
  OBVIOUS
<1> HIDE DEF pre
<1>2. \A k \in 1 .. Len(pre) : k # 1 => k - 1 \in 1 .. Len(seq) /\ pre[k] = seq[k - 1]
  BY <1>1
<1>3. Elems(pre) = Elems(seq) \cup {b}
  <2>1. Elems(pre) \subseteq Elems(seq) \cup {b}
    BY <1>1, <1>2 DEF Elems
  <2>2. b \in Elems(pre)
    BY <1>1 DEF Elems
  <2>3. \A k \in 1 .. Len(seq) : seq[k] \in Elems(pre)
    BY <1>1 DEF Elems
  <2> QED
    BY <2>1, <2>2, <2>3 DEF Elems
<1>4. ASSUME Distinct(seq), b \notin Elems(seq) PROVE Distinct(pre)
  <2>1. \A k \in 1 .. Len(seq) : seq[k] # b
    BY <1>4 DEF Elems
  <2> SUFFICES ASSUME NEW j \in 1 .. Len(pre), NEW k \in 1 .. Len(pre), pre[j] = pre[k]
               PROVE  j = k
    BY DEF Distinct
  <2>2. CASE j = 1 \/ k = 1
    BY <1>1, <1>2, <2>1, <2>2
  <2>3. CASE j # 1 /\ k # 1
    <3>1. seq[j - 1] = seq[k - 1] /\ j - 1 \in 1 .. Len(seq) /\ k - 1 \in 1 .. Len(seq)
      BY <1>2, <2>3
    <3>2. j - 1 = k - 1
      BY <1>4, <3>1 DEF Distinct
    <3> QED
      BY <1>1, <3>2
  <2> QED
    BY <2>2, <2>3
<1> QED
  BY <1>1, <1>3, <1>4 DEF pre

LEMMA SpliceHead ==
    ASSUME NEW B, NEW seq \in Seq(B), seq # <<>>, Distinct(seq)
    PROVE  /\ Splice(seq, 1) \in Seq(B)
           /\ Len(Splice(seq, 1)) = Len(seq) - 1
           /\ Len(seq) # 1 => Splice(seq, 1)[Len(seq) - 1] = seq[Len(seq)]
           /\ Elems(Splice(seq, 1)) = Elems(seq) \ {seq[1]}
           /\ Distinct(Splice(seq, 1))
<1> DEFINE spl == Splice(seq, 1)
<1>1. Len(seq) \in Nat \ {0}
  OBVIOUS
<1>2. spl = [j \in 1 .. (Len(seq) - 1) |-> seq[j + 1]]
  BY <1>1 DEF Splice
<1>3. /\ spl \in Seq(B) /\ Len(spl) = Len(seq) - 1
      /\ \A k \in 1 .. (Len(seq) - 1) : spl[k] = seq[k + 1]
  BY <1>1, <1>2
<1> HIDE DEF spl
<1>4. Distinct(spl)
  BY <1>1, <1>3 DEF Distinct
<1>5. Elems(spl) = Elems(seq) \ {seq[1]}
  <2>1. Elems(spl) \subseteq Elems(seq) \ {seq[1]}
    BY <1>1, <1>3 DEF Elems, Distinct
  <2>2. \A k \in 1 .. Len(seq) : k # 1 => seq[k] = spl[k - 1] /\ k - 1 \in 1 .. Len(spl)
    BY <1>1, <1>3
  <2>3. ASSUME NEW k \in 1 .. Len(seq), seq[k] # seq[1] PROVE seq[k] \in Elems(spl)
    BY <2>2, <2>3 DEF Elems
  <2>4. Elems(seq) \ {seq[1]} \subseteq Elems(spl)
    BY <2>3 DEF Elems
  <2> QED
    BY <2>1, <2>4
<1> QED
  BY <1>1, <1>3, <1>4, <1>5 DEF spl

LEMMA SubSeqElems ==
    ASSUME NEW B, NEW seq \in Seq(B), NEW k \in 1 .. Len(seq), Distinct(seq)
    PROVE  LET rest == SubSeq(seq, k + 1, Len(seq)) IN
           /\ rest \in Seq(B)
           /\ Elems(rest) \subseteq Elems(seq)
           /\ \A j \in 1 .. k : seq[j] \notin Elems(rest)
           /\ Distinct(rest)
<1> DEFINE rest == SubSeq(seq, k + 1, Len(seq))
<1>1. /\ rest \in Seq(B) /\ Len(rest) = Len(seq) - k /\ Len(seq) \in Nat
      /\ \A j \in 1 .. (Len(seq) - k) : rest[j] = seq[k + j]
  OBVIOUS
<1> HIDE DEF rest
<1>2. Elems(rest) \subseteq Elems(seq) /\ \A j \in 1 .. k : seq[j] \notin Elems(rest)
  <2>1. \A j \in 1 .. Len(rest) : k + j \in 1 .. Len(seq) /\ rest[j] = seq[k + j]
    BY <1>1
  <2>2. \A i \in 1 .. k, j \in 1 .. Len(rest) : i \in 1 .. Len(seq) /\ i # k + j
    BY <1>1
  <2>3. \A i \in 1 .. k, j \in 1 .. Len(rest) : seq[i] # rest[j]
    BY <2>1, <2>2 DEF Distinct
  <2> QED
    BY <2>1, <2>3 DEF Elems
<1>3. Distinct(rest)
  BY <1>1 DEF Distinct
<1> QED
  BY <1>1, <1>2, <1>3 DEF rest

-----------------------------------------------------------------------------
(***************************************************************************)
(* Rounding up.                                                            *)
(***************************************************************************)
LEMMA RoundUpProperties ==
    ASSUME NEW c \in Nat
    PROVE  /\ RoundUp(c) \in Nat /\ RoundUp(c) >= c
           /\ RoundUp(RoundUp(c)) = RoundUp(c)
           /\ RoundUp(0) = 0
<1> DEFINE P == PageAddrs
<1> DEFINE k == (c + P - 1) \div P
<1>1. P \in Nat \ {0}
  BY SizesAssumption
<1>2. k \in Nat /\ k * P <= c + P - 1 /\ c + P - 1 < k * P + P
  BY <1>1
<1>3. (k * P + P - 1) \div P = k
  BY <1>1, <1>2
<1>4. (P - 1) \div P = 0
  BY <1>1
<1> QED
  BY <1>1, <1>2, <1>3, <1>4 DEF RoundUp

-----------------------------------------------------------------------------
(***************************************************************************)
(* The inductive invariant.  A mapped buffer is at any time either owned   *)
(* (in the pool, or in the hands of the collector alone) or in use (in the *)
(* list of retirees, held by a thread, or being carried over).             *)
(***************************************************************************)
Thread == [pc : PcValues, ab : Buffers \cup {NULL}, begin : 0 .. MaxCapacity,
           end : 0 .. MaxCapacity, seen : 0 .. MaxCapacity, s : Slot]

Gc == [pc : {"wait", "scan", "push", "make", "carry"},
       working : Buffers \cup {NULL}, i : 0 .. MaxCapacity, round : 0 .. MaxRounds]

Held(b) == \E t \in Threads : td[t].ab = b
Carrying(b) == gc.working = b /\ gc.pc \in {"make", "carry"}
InUse(b) == b \in Elems(retirees) \/ Held(b) \/ Carrying(b)
Owned(b) == \/ b \in Elems(available)
            \/ b = g_uncollected
            \/ gc.working = b /\ gc.pc \in {"scan", "push"}

\* All of the buffer has been handed out.
Spent(b) == buf[b].free_idx >= buf[b].n_addrs

\* What a thread knows of its buffer: one that it is about to give up is spent,
\* and after pop_retiree_buffer no longer in the list.
ThreadInv ==
    \A t \in Threads :
        /\ td[t].pc \in {"read", "cas", "take", "free", "pop", "unref"} => td[t].ab # NULL
        /\ td[t].pc \in {"pop", "unref"} => Spent(td[t].ab)
        /\ td[t].pc = "unref" => td[t].ab \notin Elems(retirees)

\* What the collector knows of its buffers: the one it publishes is not empty,
\* and the one it carries over to has room.
CollectorInv ==
    /\ gc.pc = "wait" <=> gc.working = NULL
    /\ gc.pc \in {"scan", "push", "make"} => g_uncollected = NULL
    /\ gc.pc \in {"scan", "push"} => buf[gc.working].n_addrs > 0
    /\ gc.pc = "carry" => /\ g_uncollected # NULL
                          /\ buf[g_uncollected].n_addrs <= gc.i

\* The list of retirees and the pool, and that a spent buffer stays in the list
\* only as long as somebody holds it who will take it out.
ListInv ==
    /\ ListSound
    /\ \A b \in Elems(retirees) : Spent(b) => Held(b)

PoolInv ==
    /\ Distinct(available)
    /\ g_uncollected \notin Elems(available)
    /\ gc.working \notin Elems(available)

OwnedInv ==
    \A b \in Buffers : Owned(b) => IsMapped(b) /\ buf[b].ref_count = 0 /\ ~InUse(b)

UseInv ==
    \A b \in Buffers : InUse(b) =>
        IsMapped(b) /\ buf[b].ref_count = Cardinality(Holders(b)) + CollectorRef(b)

\* Capacities are whole pages.
PageInv == \A b \in Buffers : RoundUp(buf[b].capacity) = buf[b].capacity

IInv == /\ TypeOK
        /\ ThreadInv /\ CollectorInv
        /\ ListInv /\ PoolInv
        /\ OwnedInv /\ UseInv /\ PageInv

LEMMA InitIInv == Init => IInv
<1> SUFFICES ASSUME Init PROVE IInv
  OBVIOUS
<1> USE SizesAssumption, NullAssumption, ElemsEmpty DEF Init
<1>1. Unmapped \in Buffer
  BY DEF Unmapped, Buffer, Slot, Tags, Zero
<1>2. TypeOK
  BY <1>1 DEF TypeOK, PcValues, Slot, Tags, Zero
<1>3. ThreadInv /\ CollectorInv /\ PoolInv
  BY DEF ThreadInv, CollectorInv, PoolInv
<1>4. ListInv
  BY DEF ListInv, ListSound
<1>5. OwnedInv /\ UseInv
  BY DEF OwnedInv, UseInv, Owned, InUse, Held, Carrying
<1>6. PageInv
  BY RoundUpProperties DEF PageInv, Unmapped
<1> QED
  BY <1>2, <1>3, <1>4, <1>5, <1>6 DEF IInv

-----------------------------------------------------------------------------
(***************************************************************************)
(* The steps of the threads inside their buffers: no reference and no list *)
(* changes, and a buffer becomes spent by a thread that holds it.          *)
(***************************************************************************)
LEMMA QuietStep ==
    ASSUME IInv, TypeOK', ThreadInv',
           UNCHANGED <<retirees, g_last, available, g_uncollected, gc>>,
           \A t \in Threads : td'[t].ab = td[t].ab,
           \A b \in Buffers : /\ buf'[b].n_addrs = buf[b].n_addrs
                              /\ buf'[b].capacity = buf[b].capacity
                              /\ buf'[b].ref_count = buf[b].ref_count
                              /\ Spent(b)' => Spent(b) \/ Held(b)
    PROVE  IInv'
<1> USE NullAssumption DEF IInv
<1>1. /\ \A b : /\ Held(b)' = Held(b)
                /\ Holders(b)' = Holders(b)
                /\ Carrying(b)' = Carrying(b)
                /\ CollectorRef(b)' = CollectorRef(b)
      /\ Elems(retirees)' = Elems(retirees) /\ Elems(available)' = Elems(available)
  BY DEF Held, Holders, Holds, Carrying, CollectorRef
<1>2. \A b : InUse(b)' = InUse(b) /\ Owned(b)' = Owned(b)
  BY <1>1 DEF InUse, Owned
<1>3. Elems(retirees) \subseteq Buffers
  BY DEF TypeOK, Elems
<1>4. CollectorInv'
  BY DEF CollectorInv, TypeOK, Gc
<1>5. ListInv'
  BY <1>1, <1>3 DEF ListInv, ListSound
<1>6. PoolInv'
  BY DEF PoolInv
<1>7. OwnedInv' /\ UseInv' /\ PageInv'
  BY <1>1, <1>2 DEF OwnedInv, UseInv, PageInv, IsMapped
<1> QED
  BY <1>4, <1>5, <1>6, <1>7

\* The types, function by function.
LEMMA Types ==
    ASSUME TypeOK
    PROVE  /\ buf \in [Buffers -> Buffer]
           /\ td \in [Threads -> Thread]
           /\ gc \in Gc
           /\ retirees \in Seq(Buffers) /\ available \in Seq(Buffers)
           /\ Elems(retirees) \subseteq Buffers /\ Elems(available) \subseteq Buffers
BY DEF TypeOK, Thread, Gc, Elems

\* A thread that only moves its pc, and to one that asks for nothing.
LEMMA MovePc ==
    ASSUME IInv, NEW t \in Threads, NEW c \in PcValues,
           td' = [td EXCEPT ![t].pc = c],
           c \in {"idle", "exited", "wild"} \/ td[t].ab # NULL,
           c = "pop" => Spent(td[t].ab), c # "unref",
           UNCHANGED <<heap, buf, retirees, g_last, available, g_uncollected, gc>>
    PROVE  IInv'
<1>1. TypeOK'
  BY DEF IInv, TypeOK
<1>2. ThreadInv'
  BY Types DEF IInv, ThreadInv, Thread, Spent
<1> QED
  BY <1>1, <1>2, QuietStep, Types DEF IInv, Spent, Thread

LEMMA CheckRangeStep ==
    ASSUME IInv, NEW t \in Threads, CheckRange(t)
    PROVE  IInv'
<1>1. CASE Spent(td[t].ab)
  BY <1>1, MovePc DEF CheckRange, Spent, PcValues
<1>2. CASE ~Spent(td[t].ab)
  BY <1>2, MovePc DEF CheckRange, Spent, PcValues
<1> QED
  BY <1>1, <1>2

LEMMA TakeBeyondStep ==
    ASSUME IInv, NEW t \in Threads, TakeBeyond(t)
    PROVE  IInv'
BY MovePc DEF TakeBeyond, PcValues

LEMMA ThreadExitStep ==
    ASSUME IInv, NEW t \in Threads, ThreadExit(t)
    PROVE  IInv'
BY MovePc DEF ThreadExit, PcValues

LEMMA ReadFreeIdxStep ==
    ASSUME IInv, NEW t \in Threads, ReadFreeIdx(t)
    PROVE  IInv'
<1>1. /\ TypeOK /\ ThreadInv /\ buf \in [Buffers -> Buffer]
      /\ td \in [Threads -> Thread] /\ td[t] \in Thread
  BY Types DEF IInv
<1>2. td[t].ab \in Buffers
  BY <1>1 DEF ReadFreeIdx, ThreadInv, Thread
<1>3. PICK n \in 0 .. MaxCapacity : td' = [td EXCEPT ![t].seen = n, ![t].pc = "cas"]
  BY <1>1, <1>2 DEF ReadFreeIdx, Buffer
<1>4. td' \in [Threads -> Thread]
  <2>1. [td[t] EXCEPT !.seen = n, !.pc = "cas"] \in Thread
    BY <1>1 DEF Thread, PcValues
  <2>2. td' = [td EXCEPT ![t] = [td[t] EXCEPT !.seen = n, !.pc = "cas"]]
    BY <1>3, Zenon
  <2> QED
    BY <1>1, <2>1, <2>2
<1>5. TypeOK'
  BY <1>1, <1>4 DEF ReadFreeIdx, TypeOK, Thread
<1>6. /\ \A u \in Threads : td'[u].ab = td[u].ab /\ (u # t => td'[u].pc = td[u].pc)
      /\ td'[t].pc = "cas" /\ UNCHANGED <<buf, retirees>>
  BY <1>1, <1>3 DEF ReadFreeIdx, Thread
<1>7. ThreadInv'
  BY <1>1, <1>2, <1>6, NullAssumption DEF ThreadInv, Spent
<1> QED
  BY <1>5, <1>6, <1>7, QuietStep DEF ReadFreeIdx, Spent

LEMMA ClaimRangeStep ==
    ASSUME IInv, NEW t \in Threads, ClaimRange(t)
    PROVE  IInv'
<1> DEFINE b == td[t].ab
           end == RangeEnd(b, td[t].seen)
<1>1. /\ TypeOK /\ ThreadInv /\ buf \in [Buffers -> Buffer]
      /\ td \in [Threads -> Thread] /\ td[t] \in Thread
  BY Types DEF IInv
<1>2. b \in Buffers /\ td[t].seen \in 0 .. MaxCapacity
  BY <1>1 DEF ClaimRange, ThreadInv, Thread
<1>3. /\ end \in 0 .. MaxCapacity
      /\ td[t].seen >= buf[b].n_addrs => end = buf[b].n_addrs
  BY <1>1, <1>2, SizesAssumption DEF RangeEnd, MinOf, Buffer
<1>4. CASE buf[b].free_idx = td[t].seen
  <2>1. /\ td' = [td EXCEPT ![t].begin = td[t].seen, ![t].end = end,
                            ![t].pc = "take", ![t].seen = 0]
        /\ buf' = [buf EXCEPT ![b].free_idx = end]
    BY <1>4 DEF ClaimRange
  <2> HIDE DEF end
  <2>2. td' \in [Threads -> Thread]
    <3> DEFINE r == [td[t] EXCEPT !.begin = td[t].seen, !.end = end, !.pc = "take",
                                  !.seen = 0]
    <3>1. r \in Thread
      <4>1. "take" \in PcValues /\ 0 \in 0 .. MaxCapacity
        BY SizesAssumption DEF PcValues
      <4> QED
        BY <1>1, <1>2, <1>3, <4>1 DEF Thread
    <3>2. td' = [td EXCEPT ![t] = r]
      BY <2>1, Zenon
    <3> QED
      BY <1>1, <3>1, <3>2
  <2>3. buf' \in [Buffers -> Buffer]
    BY <1>1, <1>2, <1>3, <2>1 DEF Buffer
  <2>4. TypeOK'
    BY <1>1, <2>2, <2>3 DEF ClaimRange, TypeOK, Thread
  <2>5. /\ \A u \in Threads : /\ td'[u].ab = td[u].ab
                              /\ u # t => td'[u] = td[u]
        /\ td'[t].pc = "take"
    BY <1>1, <2>1 DEF Thread
  <2>6. \A x \in Buffers : /\ buf'[x].n_addrs = buf[x].n_addrs
                           /\ buf'[x].capacity = buf[x].capacity
                           /\ buf'[x].ref_count = buf[x].ref_count
                           /\ x # b => buf'[x].free_idx = buf[x].free_idx
                           /\ x = b => buf'[x].free_idx = end
    BY <1>1, <1>2, <2>1 DEF Buffer
  <2>7. ASSUME NEW x \in Buffers
        PROVE  (Spent(x) => Spent(x)') /\ (Spent(x)' => Spent(x) \/ Held(x))
    <3>1. CASE x = b
      <4>1. Held(x)
        BY <3>1 DEF Held
      <4>2. buf[b].n_addrs \in Nat
        BY <1>1, <1>2 DEF Buffer
      <4> QED
        BY <1>3, <1>4, <2>6, <3>1, <4>1, <4>2 DEF Spent
    <3>2. CASE x # b
      BY <2>6, <3>2 DEF Spent
    <3> QED
      BY <3>1, <3>2
  <2>8. ThreadInv'
    BY <1>1, <1>2, <2>5, <2>7 DEF ClaimRange, ThreadInv, Thread
  <2> QED
    BY <2>4, <2>5, <2>6, <2>7, <2>8, QuietStep DEF ClaimRange
<1>5. CASE buf[b].free_idx # td[t].seen
  <2>1. td' = [td EXCEPT ![t].pc = "idle", ![t].seen = 0] /\ UNCHANGED buf
    BY <1>5 DEF ClaimRange
  <2>2. td' \in [Threads -> Thread]
    <3> DEFINE r == [td[t] EXCEPT !.pc = "idle", !.seen = 0]
    <3>1. r \in Thread
      <4>1. "idle" \in PcValues /\ 0 \in 0 .. MaxCapacity
        BY SizesAssumption DEF PcValues
      <4> QED
        BY <1>1, <4>1 DEF Thread
    <3>2. td' = [td EXCEPT ![t] = r]
      BY <2>1, Zenon
    <3> QED
      BY <1>1, <3>1, <3>2
  <2>3. TypeOK'
    BY <1>1, <2>1, <2>2 DEF ClaimRange, TypeOK, Thread
  <2>4. ThreadInv' /\ \A u \in Threads : td'[u].ab = td[u].ab
    BY <1>1, <2>1 DEF ClaimRange, ThreadInv, Thread, Spent
  <2> QED
    BY <2>1, <2>3, <2>4, QuietStep DEF ClaimRange, Spent
<1> QED
  BY <1>4, <1>5

LEMMA TakeSlotStep ==
    ASSUME IInv, NEW t \in Threads, TakeSlot(t)
    PROVE  IInv'
<1> DEFINE b == td[t].ab
           i == td[t].begin
           s == buf[b].slots[i]
<1>1. /\ TypeOK /\ ThreadInv /\ buf \in [Buffers -> Buffer]
      /\ td \in [Threads -> Thread] /\ td[t] \in Thread
  BY Types DEF IInv
<1>2. b \in Buffers
  BY <1>1 DEF TakeSlot, AtSlot, ThreadInv, Thread
<1>3. buf[b] \in Buffer
  BY <1>1, <1>2
<1>4. i \in Index /\ i + 1 \in 0 .. MaxCapacity
  <2>1. i \in 0 .. MaxCapacity /\ buf[b].capacity \in 0 .. MaxCapacity
    BY <1>1, <1>3 DEF Thread, Buffer
  <2>2. i < buf[b].capacity /\ MaxCapacity \in Nat
    BY SizesAssumption DEF TakeSlot
  <2> HIDE DEF i
  <2> QED
    BY <2>1, <2>2 DEF Index
<1>5. s \in Slot
  BY <1>3, <1>4 DEF Buffer
<1>6. {"idle", "free"} \subseteq PcValues
  BY DEF PcValues
<1>7. CASE s.tag = "marked"
  <2>1. td' = [td EXCEPT ![t].begin = i + 1, ![t].pc = "idle"] /\ UNCHANGED buf
    BY <1>7 DEF TakeSlot
  <2>2. td' \in [Threads -> Thread]
    <3>1. [td[t] EXCEPT !.begin = i + 1, !.pc = "idle"] \in Thread
      BY <1>1, <1>4, <1>6 DEF Thread
    <3>2. td' = [td EXCEPT ![t] = [td[t] EXCEPT !.begin = i + 1, !.pc = "idle"]]
      BY <2>1, Zenon
    <3> QED
      BY <1>1, <3>1, <3>2
  <2>3. TypeOK'
    BY <1>1, <2>1, <2>2 DEF TakeSlot, TypeOK, Thread
  <2>4. ThreadInv' /\ \A u \in Threads : td'[u].ab = td[u].ab
    BY <1>1, <2>1 DEF TakeSlot, ThreadInv, Thread, Spent
  <2> QED
    BY <2>1, <2>3, <2>4, QuietStep DEF TakeSlot, Spent
<1>8. CASE s.tag # "marked"
  <2>1. /\ td' = [td EXCEPT ![t].begin = i + 1, ![t].pc = "free", ![t].s = s]
        /\ buf' = [buf EXCEPT ![b].slots[i] = Gone]
    BY <1>8 DEF TakeSlot
  <2> HIDE DEF s
  <2>2. td' \in [Threads -> Thread]
    <3> DEFINE r == [td[t] EXCEPT !.begin = i + 1, !.pc = "free", !.s = s]
    <3>1. r \in Thread
      BY <1>1, <1>4, <1>5, <1>6 DEF Thread
    <3>2. td' = [td EXCEPT ![t] = r]
      BY <2>1, Zenon
    <3> QED
      BY <1>1, <3>1, <3>2
  <2>3. buf' = [buf EXCEPT ![b] =
                   [buf[b] EXCEPT !.slots = [buf[b].slots EXCEPT ![i] = Gone]]]
    BY <2>1
  <2>4. [buf[b].slots EXCEPT ![i] = Gone] \in [Index -> Slot]
    BY <1>3, <1>4 DEF Buffer, Gone, Slot, Tags
  <2>5. buf' \in [Buffers -> Buffer]
    BY <1>1, <1>3, <2>3, <2>4 DEF Buffer
  <2>6. TypeOK'
    BY <1>1, <2>2, <2>5 DEF TakeSlot, TypeOK, Thread
  <2>7. /\ \A u \in Threads : /\ td'[u].ab = td[u].ab
                              /\ u # t => td'[u] = td[u]
        /\ td'[t].pc = "free"
    BY <1>1, <2>1 DEF Thread
  <2>8. \A x \in Buffers : /\ buf'[x].n_addrs = buf[x].n_addrs
                           /\ buf'[x].capacity = buf[x].capacity
                           /\ buf'[x].ref_count = buf[x].ref_count
                           /\ buf'[x].free_idx = buf[x].free_idx
    BY <1>1, <1>2, <2>3 DEF Buffer
  <2>9. \A x \in Buffers : Spent(x)' = Spent(x)
    BY <2>8 DEF Spent
  <2>10. ThreadInv'
    <3>1. \A u \in Threads : td[u].ab # NULL => td[u].ab \in Buffers
      BY <1>1 DEF Thread
    <3> QED
      BY <1>1, <1>2, <2>7, <2>9, <3>1, NullAssumption DEF TakeSlot, ThreadInv
  <2> QED
    BY <2>6, <2>7, <2>8, <2>9, <2>10, QuietStep DEF TakeSlot
<1> QED
  BY <1>7, <1>8

LEMMA FreeSlotStep ==
    ASSUME IInv, NEW t \in Threads, FreeSlot(t)
    PROVE  IInv'
<1>1. /\ TypeOK /\ ThreadInv /\ td \in [Threads -> Thread] /\ td[t] \in Thread
  BY Types DEF IInv
<1>2. PICK c \in {"idle", "wild"} : td' = [td EXCEPT ![t].s = Zero, ![t].pc = c]
  BY DEF FreeSlot
<1>3. td' \in [Threads -> Thread]
  <2>1. Zero \in Slot /\ c \in PcValues
    BY DEF Zero, Slot, Tags, PcValues
  <2>2. [td[t] EXCEPT !.s = Zero, !.pc = c] \in Thread
    BY <1>1, <2>1 DEF Thread
  <2>3. td' = [td EXCEPT ![t] = [td[t] EXCEPT !.s = Zero, !.pc = c]]
    BY <1>2, Zenon
  <2> QED
    BY <1>1, <2>2, <2>3
<1>4. heap' \in [Addrs -> {"free", "allocated", "retired"}]
  BY <1>1 DEF FreeSlot, TypeOK
<1>5. TypeOK'
  BY <1>1, <1>3, <1>4 DEF FreeSlot, TypeOK, Thread
<1>6. ThreadInv' /\ \A u \in Threads : td'[u].ab = td[u].ab
  BY <1>1, <1>2 DEF FreeSlot, ThreadInv, Thread, Spent
<1> QED
  BY <1>5, <1>6, QuietStep DEF FreeSlot, Spent

-----------------------------------------------------------------------------
(***************************************************************************)
(* The steps of the threads that move references.                          *)
(***************************************************************************)

\* The holders are some of the threads, and finitely many.
LEMMA HoldersFinite ==
    ASSUME NEW b
    PROVE  /\ IsFiniteSet(Holders(b)) /\ Cardinality(Holders(b)) \in Nat
           /\ Cardinality(Holders(b)) = 0 <=> Holders(b) = {}
           /\ Holders(b) # {} <=> Held(b)
<1>1. Holders(b) \in SUBSET Threads
  BY DEF Holders
<1>2. IsFiniteSet(Holders(b))
  BY <1>1, FS_Subset, FiniteAssumption
<1> QED
  BY <1>2, FS_CardinalityType, FS_EmptySet DEF Holders, Holds, Held

\* Reference counts are plain ints.
LEMMA RefCountTyped ==
    ASSUME buf \in [Buffers -> Buffer], NEW b \in Buffers
    PROVE  /\ [buf EXCEPT ![b].ref_count = @ + 1] \in [Buffers -> Buffer]
           /\ [buf EXCEPT ![b].ref_count = @ - 1] \in [Buffers -> Buffer]
<1>1. ASSUME NEW f \in [Buffers -> Buffer], NEW n \in Int
      PROVE  [f EXCEPT ![b].ref_count = n] \in [Buffers -> Buffer]
  BY DEF Buffer
<1>2. buf[b].ref_count + 1 \in Int /\ buf[b].ref_count - 1 \in Int
  BY DEF Buffer
<1>3. /\ [buf EXCEPT ![b].ref_count = @ + 1]
            = [buf EXCEPT ![b].ref_count = buf[b].ref_count + 1]
      /\ [buf EXCEPT ![b].ref_count = @ - 1]
            = [buf EXCEPT ![b].ref_count = buf[b].ref_count - 1]
  OBVIOUS
<1> QED
  BY <1>1, <1>2, <1>3

LEMMA GetRetireeStep ==
    ASSUME IInv, NEW t \in Threads, GetRetiree(t)
    PROVE  IInv'
<1>1. /\ TypeOK /\ ThreadInv /\ CollectorInv /\ ListInv /\ PoolInv /\ OwnedInv /\ UseInv
      /\ PageInv /\ buf \in [Buffers -> Buffer] /\ td \in [Threads -> Thread]
      /\ td[t] \in Thread /\ gc \in Gc /\ retirees \in Seq(Buffers)
      /\ Elems(retirees) \subseteq Buffers
  BY Types DEF IInv
<1>2. PICK b \in Buffers : b = Head(retirees) /\ b \in Elems(retirees)
  BY <1>1 DEF GetRetiree, Elems
<1>3. /\ td' = [td EXCEPT ![t].ab = b] /\ td[t].pc = "idle" /\ td[t].ab = NULL
      /\ buf' = [buf EXCEPT ![b].ref_count = @ + 1]
      /\ UNCHANGED <<heap, retirees, g_last, available, g_uncollected, gc>>
  BY <1>2 DEF GetRetiree
<1>4. TypeOK'
  <2>1. td' \in [Threads -> Thread]
    BY <1>1, <1>2, <1>3 DEF Thread
  <2>2. buf' \in [Buffers -> Buffer]
    BY <1>1, <1>3, RefCountTyped
  <2> QED
    BY <1>1, <1>3, <2>1, <2>2 DEF TypeOK, Thread
<1>5. /\ \A u \in Threads : /\ u # t => td'[u] = td[u]
                            /\ td'[u].pc = td[u].pc
      /\ td'[t].ab = b
      /\ \A x \in Buffers : /\ buf'[x].n_addrs = buf[x].n_addrs
                            /\ buf'[x].capacity = buf[x].capacity
                            /\ buf'[x].free_idx = buf[x].free_idx
                            /\ x # b => buf'[x].ref_count = buf[x].ref_count
      /\ buf'[b].ref_count = buf[b].ref_count + 1
  BY <1>1, <1>2, <1>3 DEF Thread, Buffer
<1>6. /\ \A x \in Buffers : /\ Spent(x)' = Spent(x)
                            /\ IsMapped(x)' = IsMapped(x)
      /\ \A x : Carrying(x)' = Carrying(x) /\ Owned(x)' = Owned(x)
                /\ CollectorRef(x)' = CollectorRef(x)
  BY <1>3, <1>5 DEF Spent, IsMapped, Carrying, Owned, CollectorRef
<1>7. /\ \A x \in Buffers : x # b => Holders(x)' = Holders(x) /\ Held(x)' = Held(x)
      /\ Holders(b)' = Holders(b) \cup {t} /\ t \notin Holders(b)
      /\ Held(b)'
  BY <1>2, <1>3, <1>5, NullAssumption DEF Holders, Holds, Held
<1>8. ThreadInv'
  <2>1. \A u \in Threads : td[u].ab # NULL => td[u].ab \in Buffers
    BY <1>1 DEF Thread
  <2> QED
    BY <1>1, <1>3, <1>5, <1>6, <2>1 DEF ThreadInv
<1>9. CollectorInv'
  BY <1>1, <1>3, <1>5 DEF CollectorInv, TypeOK, Gc
<1>10. ListInv'
  <2>1. ListSound'
    BY <1>1, <1>2, <1>3, <1>5 DEF ListInv, ListSound
  <2>2. \A x \in Elems(retirees)' : Spent(x)' => Held(x)'
    BY <1>1, <1>3, <1>6, <1>7 DEF ListInv
  <2> QED
    BY <2>1, <2>2 DEF ListInv
<1>11. PoolInv'
  BY <1>1, <1>3 DEF PoolInv
<1>12. OwnedInv'
  <2>1. ~Owned(b)
    BY <1>1, <1>2 DEF OwnedInv, InUse
  <2> QED
    BY <1>1, <1>3, <1>5, <1>6, <1>7, <2>1 DEF OwnedInv, InUse
<1>13. UseInv'
  <2>1. ASSUME NEW x \in Buffers, x # b, InUse(x)'
        PROVE  /\ IsMapped(x)'
               /\ buf'[x].ref_count = Cardinality(Holders(x)') + CollectorRef(x)'
    BY <1>1, <1>3, <1>5, <1>6, <1>7, <2>1 DEF UseInv, InUse
  <2>2. IsMapped(b) /\ buf[b].ref_count = Cardinality(Holders(b)) + CollectorRef(b)
    BY <1>1, <1>2 DEF UseInv, InUse
  <2>3. Cardinality(Holders(b) \cup {t}) = Cardinality(Holders(b)) + 1
    BY <1>7, HoldersFinite, FS_AddElement
  <2>4. IsMapped(b)' /\ buf'[b].ref_count = Cardinality(Holders(b)') + CollectorRef(b)'
    <3>1. Cardinality(Holders(b)) \in Nat /\ CollectorRef(b) \in Int
      BY HoldersFinite DEF CollectorRef
    <3>2. Cardinality(Holders(b)') = Cardinality(Holders(b)) + 1
      BY <1>7, <2>3
    <3>3. CollectorRef(b)' = CollectorRef(b) /\ IsMapped(b)'
      BY <1>6, <2>2
    <3> QED
      BY <1>5, <2>2, <3>1, <3>2, <3>3
  <2> QED
    BY <2>1, <2>4 DEF UseInv
<1>14. PageInv'
  BY <1>1, <1>5 DEF PageInv
<1> QED
  BY <1>4, <1>8, <1>9, <1>10, <1>11, <1>12, <1>13, <1>14 DEF IInv

LEMMA PopRetireeStep ==
    ASSUME IInv, NEW t \in Threads, PopRetiree(t)
    PROVE  IInv'
<1> DEFINE b == td[t].ab
<1>1. /\ TypeOK /\ ThreadInv /\ CollectorInv /\ ListInv /\ PoolInv /\ OwnedInv /\ UseInv
      /\ PageInv /\ buf \in [Buffers -> Buffer] /\ td \in [Threads -> Thread]
      /\ td[t] \in Thread /\ gc \in Gc /\ retirees \in Seq(Buffers)
      /\ Elems(retirees) \subseteq Buffers
  BY Types DEF IInv
<1>2. b \in Buffers /\ Spent(b)
  BY <1>1 DEF PopRetiree, ThreadInv, Thread
<1>3. /\ td' = [td EXCEPT ![t].pc = "unref"] /\ td[t].pc = "pop"
      /\ UNCHANGED <<heap, buf, available, g_uncollected, gc>>
  BY DEF PopRetiree
<1>4. /\ retirees' \in Seq(Buffers) /\ ListSound'
      /\ g_last' \in Buffers \cup {NULL}
      /\ Elems(retirees)' = Elems(retirees) \ {b}
  <2>0. \A u \in Threads : td'[u].ab = td[u].ab
    BY <1>1, <1>3 DEF Thread
  <2>1. CASE b \notin Elems(retirees)
    <3>1. UNCHANGED <<retirees, g_last>>
      BY <2>1 DEF PopRetiree, Elems
    <3> QED
      <4>1. ListSound'
        BY <1>1, <2>0, <3>1 DEF ListInv, ListSound
      <4> QED
        BY <1>1, <2>1, <3>1, <4>1 DEF TypeOK
  <2>2. CASE b \in Elems(retirees)
    <3>1. b = retirees[1] /\ retirees # <<>> /\ 1 \in 1 .. Len(retirees)
      BY <1>1, <2>2 DEF ListInv, ListSound, Elems
    <3>2. Distinct(retirees)
      BY <1>1 DEF ListInv, ListSound, Distinct
    <3>3. /\ retirees' = Splice(retirees, 1)
          /\ g_last' = IF Len(retirees) = 1 THEN NULL ELSE g_last
      <4>1. PICK k \in 1 .. Len(retirees) :
               /\ retirees[k] = b
               /\ retirees' = Splice(retirees, k)
               /\ g_last' = IF Len(retirees) = 1 THEN NULL ELSE g_last
        BY <2>2 DEF PopRetiree
      <4>2. k = 1
        BY <3>1, <3>2, <4>1 DEF Distinct
      <4> QED
        BY <4>1, <4>2
    <3>4. /\ retirees' \in Seq(Buffers) /\ Distinct(retirees')
          /\ Len(retirees') = Len(retirees) - 1
          /\ Len(retirees) # 1 => retirees'[Len(retirees) - 1] = retirees[Len(retirees)]
          /\ Elems(retirees') = Elems(retirees) \ {b}
      BY <1>1, <3>1, <3>2, <3>3, SpliceHead
    <3>5. g_last = retirees[Len(retirees)]
      BY <1>1, <3>1 DEF ListInv, ListSound
    <3>6. g_last' = IF retirees' = <<>> THEN NULL ELSE retirees'[Len(retirees')]
      BY <1>1, <3>1, <3>3, <3>4, <3>5
    <3>7. \A u \in Threads : td[u].ab \in Elems(retirees) => td[u].ab = b
      BY <1>1, <3>1 DEF ListInv, ListSound
    <3>8. ListSound'
      BY <2>0, <3>4, <3>6, <3>7 DEF ListSound, Distinct
    <3> QED
      BY <1>1, <3>3, <3>4, <3>8 DEF TypeOK
  <2> QED
    BY <2>1, <2>2
<1>5. TypeOK'
  <2>1. td' \in [Threads -> Thread]
    BY <1>1, <1>3 DEF Thread, PcValues
  <2> QED
    BY <1>1, <1>3, <1>4, <2>1 DEF TypeOK, Thread
<1>6. \A u \in Threads : /\ td'[u].ab = td[u].ab
                         /\ u # t => td'[u] = td[u]
  BY <1>1, <1>3 DEF Thread
<1>7. \A x : /\ Spent(x)' = Spent(x) /\ IsMapped(x)' = IsMapped(x)
             /\ Carrying(x)' = Carrying(x) /\ Owned(x)' = Owned(x)
             /\ CollectorRef(x)' = CollectorRef(x)
             /\ Holders(x)' = Holders(x) /\ Held(x)' = Held(x)
             /\ InUse(x)' => InUse(x)
  BY <1>3, <1>4, <1>6
     DEF Spent, IsMapped, Carrying, Owned, CollectorRef, Holders, Holds, Held, InUse
<1>8. ThreadInv'
  BY <1>1, <1>2, <1>4, <1>6, <1>7, NullAssumption DEF ThreadInv, Thread
<1>9. CollectorInv' /\ PoolInv' /\ PageInv'
  BY <1>1, <1>3 DEF CollectorInv, PoolInv, PageInv
<1>10. ListInv'
  BY <1>1, <1>4, <1>7 DEF ListInv
<1>11. OwnedInv' /\ UseInv'
  BY <1>1, <1>3, <1>7 DEF OwnedInv, UseInv
<1> QED
  BY <1>5, <1>8, <1>9, <1>10, <1>11 DEF IInv

LEMMA UnrefRetireeStep ==
    ASSUME IInv, NEW t \in Threads, UnrefRetiree(t)
    PROVE  IInv'
<1>1. /\ TypeOK /\ ThreadInv /\ CollectorInv /\ ListInv /\ PoolInv /\ OwnedInv /\ UseInv
      /\ PageInv /\ buf \in [Buffers -> Buffer] /\ td \in [Threads -> Thread]
      /\ td[t] \in Thread /\ gc \in Gc /\ available \in Seq(Buffers)
      /\ Elems(retirees) \subseteq Buffers
  BY Types DEF IInv
<1>2. PICK b \in Buffers : b = td[t].ab /\ Spent(b) /\ b \notin Elems(retirees)
  BY <1>1 DEF UnrefRetiree, ThreadInv, Thread
<1>3. /\ td' = [td EXCEPT ![t].ab = NULL, ![t].begin = 0, ![t].end = 0, ![t].pc = "idle"]
      /\ buf' = [buf EXCEPT ![b].ref_count = @ - 1]
      /\ available' = IF IsLastRef(b) THEN <<b>> \o available ELSE available
      /\ UNCHANGED <<heap, retirees, g_last, g_uncollected, gc>>
  BY <1>2 DEF UnrefRetiree, AvailableAfterUnref
<1>4. t \in Holders(b) /\ Held(b) /\ InUse(b) /\ ~Owned(b)
  BY <1>1, <1>2 DEF Holders, Holds, Held, InUse, OwnedInv
<1>5. b \notin Elems(available) /\ b # g_uncollected
  BY <1>4 DEF Owned
<1>6. /\ available' \in Seq(Buffers) /\ Distinct(available')
      /\ Elems(available') = IF IsLastRef(b) THEN Elems(available) \cup {b}
                             ELSE Elems(available)
  BY <1>1, <1>3, <1>5, PrependElems DEF PoolInv
<1>7. TypeOK'
  <2>1. td' \in [Threads -> Thread]
    <3> DEFINE r == [td[t] EXCEPT !.ab = NULL, !.begin = 0, !.end = 0, !.pc = "idle"]
    <3>1. "idle" \in PcValues /\ 0 \in 0 .. MaxCapacity
      BY SizesAssumption DEF PcValues
    <3>2. r \in Thread
      BY <1>1, <3>1 DEF Thread
    <3>3. td' = [td EXCEPT ![t] = r]
      BY <1>3, Zenon
    <3> QED
      BY <1>1, <3>2, <3>3
  <2>2. buf' \in [Buffers -> Buffer]
    BY <1>1, <1>3, RefCountTyped
  <2> QED
    BY <1>1, <1>3, <1>6, <2>1, <2>2 DEF TypeOK, Thread
<1>8. /\ \A u \in Threads : u # t => td'[u] = td[u]
      /\ td'[t].ab = NULL /\ td'[t].pc = "idle"
      /\ \A x \in Buffers : /\ buf'[x].n_addrs = buf[x].n_addrs
                            /\ buf'[x].capacity = buf[x].capacity
                            /\ buf'[x].free_idx = buf[x].free_idx
                            /\ x # b => buf'[x].ref_count = buf[x].ref_count
      /\ buf'[b].ref_count = buf[b].ref_count - 1
  BY <1>1, <1>3 DEF Thread, Buffer
<1>9. /\ \A x \in Buffers : Spent(x)' = Spent(x) /\ IsMapped(x)' = IsMapped(x)
      /\ \A x : Carrying(x)' = Carrying(x) /\ CollectorRef(x)' = CollectorRef(x)
  BY <1>3, <1>8 DEF Spent, IsMapped, Carrying, CollectorRef
<1>10. /\ \A x \in Buffers : x # b => Holders(x)' = Holders(x) /\ Held(x)' = Held(x)
       /\ Holders(b)' = Holders(b) \ {t}
  BY <1>2, <1>8, NullAssumption DEF Holders, Holds, Held
<1>11. /\ buf[b].ref_count = Cardinality(Holders(b)) + CollectorRef(b)
       /\ IsMapped(b)
       /\ Cardinality(Holders(b)') = Cardinality(Holders(b)) - 1
       /\ Cardinality(Holders(b)) \in Nat \ {0}
       /\ CollectorRef(b) = IF Carrying(b) THEN 1 ELSE 0
  BY <1>1, <1>4, <1>10, HoldersFinite, FS_RemoveElement
     DEF UseInv, CollectorRef, Carrying
<1>12. ASSUME IsLastRef(b)
       PROVE  /\ ~Carrying(b) /\ ~Held(b)' /\ b # gc.working
              /\ buf'[b].ref_count = 0
  <2>1. Cardinality(Holders(b)') = 0 /\ ~Carrying(b)
    BY <1>11, <1>12 DEF IsLastRef
  <2>2. Holders(b)' = {}
    BY <1>4, <1>10, <2>1, HoldersFinite, FS_RemoveElement, FS_EmptySet
  <2>3. ~Held(b)'
    BY <2>2 DEF Held, Holders, Holds
  <2>4. b # gc.working
    BY <1>1, <1>4, <2>1, NullAssumption DEF Owned, Carrying, CollectorInv, Gc
  <2> QED
    BY <1>8, <1>12, <2>1, <2>3, <2>4 DEF IsLastRef
<1>13. ThreadInv'
  <2>1. \A u \in Threads : td[u].ab # NULL => td[u].ab \in Buffers
    BY <1>1 DEF Thread
  <2> QED
    BY <1>1, <1>3, <1>8, <1>9, <2>1 DEF ThreadInv
<1>14. CollectorInv'
  BY <1>1, <1>3, <1>8 DEF CollectorInv, TypeOK, Gc
<1>15. ListInv'
  <2>1. ListSound'
    <3>1. \A u \in Threads : td'[u].ab = td[u].ab \/ td'[u].ab = NULL
      BY <1>8
    <3>2. NULL \notin Elems(retirees)
      BY <1>1, NullAssumption
    <3> QED
      BY <1>1, <1>3, <3>1, <3>2 DEF ListInv, ListSound
  <2>2. \A x \in Elems(retirees) : Spent(x)' => Held(x)'
    BY <1>1, <1>2, <1>9, <1>10 DEF ListInv
  <2> QED
    BY <1>3, <2>1, <2>2 DEF ListInv
<1>16. PoolInv'
  BY <1>1, <1>3, <1>5, <1>6, <1>12 DEF PoolInv
<1>17. OwnedInv'
  <2>1. ASSUME NEW x \in Buffers, x # b, Owned(x)'
        PROVE  IsMapped(x)' /\ buf'[x].ref_count = 0 /\ ~InUse(x)'
    <3>1. Owned(x)
      BY <1>3, <1>6, <2>1 DEF Owned
    <3>2. IsMapped(x) /\ buf[x].ref_count = 0 /\ ~InUse(x)
      BY <1>1, <3>1 DEF OwnedInv
    <3> QED
      BY <1>3, <1>8, <1>9, <1>10, <2>1, <3>2 DEF InUse
  <2>2. ASSUME Owned(b)' PROVE IsMapped(b)' /\ buf'[b].ref_count = 0 /\ ~InUse(b)'
    <3>1. IsLastRef(b)
      BY <1>3, <1>4, <1>6, <2>2 DEF Owned
    <3> QED
      BY <1>2, <1>3, <1>9, <1>11, <1>12, <3>1 DEF InUse
  <2> QED
    BY <2>1, <2>2 DEF OwnedInv
<1>18. UseInv'
  <2>1. ASSUME NEW x \in Buffers, x # b, InUse(x)'
        PROVE  /\ IsMapped(x)'
               /\ buf'[x].ref_count = Cardinality(Holders(x)') + CollectorRef(x)'
    BY <1>1, <1>3, <1>8, <1>9, <1>10, <2>1 DEF UseInv, InUse
  <2>2. IsMapped(b)' /\ buf'[b].ref_count = Cardinality(Holders(b)') + CollectorRef(b)'
    BY <1>8, <1>9, <1>11
  <2> QED
    BY <2>1, <2>2 DEF UseInv
<1>19. PageInv'
  BY <1>1, <1>8 DEF PageInv
<1> QED
  BY <1>7, <1>13, <1>14, <1>15, <1>16, <1>17, <1>18, <1>19 DEF IInv

-----------------------------------------------------------------------------
(***************************************************************************)
(* The steps of the collector in the buffers it has.                       *)
(***************************************************************************)
LEMMA UnrefWorkingStep ==
    ASSUME IInv, UnrefWorking
    PROVE  IInv'
<1>1. /\ TypeOK /\ ThreadInv /\ CollectorInv /\ ListInv /\ PoolInv /\ OwnedInv /\ UseInv
      /\ PageInv /\ buf \in [Buffers -> Buffer] /\ td \in [Threads -> Thread]
      /\ gc \in Gc /\ available \in Seq(Buffers) /\ Elems(retirees) \subseteq Buffers
      /\ Elems(available) \subseteq Buffers
  BY Types DEF IInv
<1>2. PICK b \in Buffers : b = gc.working
  BY <1>1 DEF UnrefWorking, CollectorInv, Gc
<1>3. /\ gc' = [gc EXCEPT !.pc = "wait", !.working = NULL, !.i = 0] /\ gc.pc = "carry"
      /\ buf' = [buf EXCEPT ![b].ref_count = @ - 1]
      /\ available' = IF IsLastRef(b) THEN <<b>> \o available ELSE available
      /\ UNCHANGED <<heap, retirees, g_last, g_uncollected, td>>
  BY <1>2 DEF UnrefWorking, AvailableAfterUnref
<1>4. Carrying(b) /\ InUse(b) /\ ~Owned(b)
  BY <1>1, <1>2, <1>3 DEF Carrying, InUse, OwnedInv
<1>5. b \notin Elems(available) /\ b # g_uncollected
  BY <1>4 DEF Owned
<1>6. /\ available' \in Seq(Buffers) /\ Distinct(available')
      /\ Elems(available') = IF IsLastRef(b) THEN Elems(available) \cup {b}
                             ELSE Elems(available)
  BY <1>1, <1>3, <1>5, PrependElems DEF PoolInv
<1>7. gc' \in Gc /\ gc'.pc = "wait" /\ gc'.working = NULL
  <2>1. 0 \in 0 .. MaxCapacity
    BY SizesAssumption
  <2> QED
    BY <1>1, <1>3, <2>1 DEF Gc
<1>8. TypeOK'
  <2>1. buf' \in [Buffers -> Buffer]
    BY <1>1, <1>3, RefCountTyped
  <2> QED
    BY <1>1, <1>3, <1>6, <1>7, <2>1 DEF TypeOK, Gc
<1>9. /\ \A x \in Buffers : /\ buf'[x].n_addrs = buf[x].n_addrs
                            /\ buf'[x].capacity = buf[x].capacity
                            /\ buf'[x].free_idx = buf[x].free_idx
                            /\ x # b => buf'[x].ref_count = buf[x].ref_count
      /\ buf'[b].ref_count = buf[b].ref_count - 1
  BY <1>1, <1>3 DEF Buffer
<1>10. /\ \A x \in Buffers : Spent(x)' = Spent(x) /\ IsMapped(x)' = IsMapped(x)
       /\ \A x : Holders(x)' = Holders(x) /\ Held(x)' = Held(x)
       /\ \A x \in Buffers : ~Carrying(x)' /\ CollectorRef(x)' = 0
       /\ \A x \in Buffers : x # b => ~Carrying(x) /\ CollectorRef(x) = 0
       /\ CollectorRef(b) = 1
  BY <1>2, <1>3, <1>7, <1>9, NullAssumption
     DEF Spent, IsMapped, Holders, Holds, Held, Carrying, CollectorRef
<1>11. /\ buf[b].ref_count = Cardinality(Holders(b)) + 1 /\ IsMapped(b)
       /\ Cardinality(Holders(b)) \in Nat
  BY <1>1, <1>4, <1>10, HoldersFinite DEF UseInv
<1>12. ASSUME IsLastRef(b)
       PROVE  ~Held(b) /\ b \notin Elems(retirees) /\ buf'[b].ref_count = 0
  <2>1. Cardinality(Holders(b)) = 0 /\ Spent(b)
    BY <1>11, <1>12 DEF IsLastRef, Spent
  <2>2. ~Held(b)
    BY <2>1, HoldersFinite
  <2> QED
    BY <1>1, <1>9, <1>12, <2>1, <2>2 DEF IsLastRef, ListInv
<1>13. ThreadInv'
  <2>1. \A u \in Threads : td[u].ab # NULL => td[u].ab \in Buffers
    BY <1>1 DEF Thread
  <2> QED
    BY <1>1, <1>3, <1>10, <2>1 DEF ThreadInv
<1>14. CollectorInv'
  BY <1>7 DEF CollectorInv
<1>15. ListInv'
  <2>1. ListSound'
    BY <1>1, <1>3 DEF ListInv, ListSound
  <2> QED
    BY <1>1, <1>3, <1>10, <2>1 DEF ListInv
<1>16. PoolInv'
  BY <1>1, <1>3, <1>5, <1>6, <1>7, NullAssumption DEF PoolInv
<1>17. OwnedInv'
  <2>1. ASSUME NEW x \in Buffers, x # b, Owned(x)'
        PROVE  IsMapped(x)' /\ buf'[x].ref_count = 0 /\ ~InUse(x)'
    <3>1. Owned(x)
      BY <1>3, <1>6, <1>7, <2>1 DEF Owned
    <3>2. IsMapped(x) /\ buf[x].ref_count = 0 /\ ~InUse(x)
      BY <1>1, <3>1 DEF OwnedInv
    <3> QED
      BY <1>3, <1>9, <1>10, <2>1, <3>2 DEF InUse
  <2>2. ASSUME Owned(b)' PROVE IsMapped(b)' /\ buf'[b].ref_count = 0 /\ ~InUse(b)'
    <3>1. IsLastRef(b)
      BY <1>3, <1>5, <1>6, <1>7, <2>2 DEF Owned
    <3> QED
      BY <1>3, <1>10, <1>11, <1>12, <3>1 DEF InUse
  <2> QED
    BY <2>1, <2>2 DEF OwnedInv
<1>18. UseInv'
  <2>1. ASSUME NEW x \in Buffers, x # b, InUse(x)'
        PROVE  /\ IsMapped(x)'
               /\ buf'[x].ref_count = Cardinality(Holders(x)') + CollectorRef(x)'
    BY <1>1, <1>3, <1>9, <1>10, <2>1 DEF UseInv, InUse
  <2>2. IsMapped(b)' /\ buf'[b].ref_count = Cardinality(Holders(b)') + CollectorRef(b)'
    BY <1>9, <1>10, <1>11
  <2> QED
    BY <2>1, <2>2 DEF UseInv
<1>19. PageInv'
  BY <1>1, <1>9 DEF PageInv
<1> QED
  BY <1>8, <1>13, <1>14, <1>15, <1>16, <1>17, <1>18, <1>19 DEF IInv

\* Without the lists' losing a buffer, last->next = b appends b.
LEMMA AppendAtEnd ==
    ASSUME NEW seq \in Seq(Buffers), Distinct(seq), NEW b \in Buffers,
           NEW last, last = IF seq = <<>> THEN NULL ELSE seq[Len(seq)]
    PROVE  AppendAfter(seq, last, b) = Append(seq, b)
<1>1. CASE seq = <<>>
  BY <1>1 DEF AppendAfter
<1>2. CASE seq # <<>>
  <2>1. Len(seq) \in 1 .. Len(seq) /\ seq[Len(seq)] = last /\ last \in Buffers
    BY <1>2
  <2>2. last # NULL /\ last \in Elems(seq)
    BY <2>1, NullAssumption DEF Elems
  <2>3. \A k \in 1 .. Len(seq) : seq[k] = last => k = Len(seq)
    BY <2>1 DEF Distinct
  <2>4. (CHOOSE k \in 1 .. Len(seq) : seq[k] = last) = Len(seq)
    BY <2>1, <2>3
  <2>5. SubSeq(seq, 1, Len(seq)) = seq
    OBVIOUS
  <2> QED
    BY <2>2, <2>4, <2>5 DEF AppendAfter
<1> QED
  BY <1>1, <1>2

\* Steps that only fill a buffer the collector has for itself.
LEMMA OwnedUpdate ==
    ASSUME IInv, TypeOK', CollectorInv', NEW b \in Buffers, Owned(b),
           UNCHANGED <<retirees, g_last, available, g_uncollected, td>>,
           \A x \in Buffers : /\ x # b => buf'[x] = buf[x]
                              /\ buf'[x].capacity = buf[x].capacity
                              /\ buf'[x].ref_count = buf[x].ref_count,
           gc'.working = gc.working,
           gc'.pc \in {"scan", "push"} <=> gc.pc \in {"scan", "push"},
           gc'.pc \in {"make", "carry"} <=> gc.pc \in {"make", "carry"}
    PROVE  IInv'
<1>1. /\ TypeOK /\ ThreadInv /\ ListInv /\ PoolInv /\ OwnedInv /\ UseInv /\ PageInv
      /\ td \in [Threads -> Thread] /\ Elems(retirees) \subseteq Buffers
  BY Types DEF IInv
<1>2. b \notin Elems(retirees) /\ \A t \in Threads : td[t].ab # b
  BY <1>1 DEF OwnedInv, InUse, Held
<1>3. \A x : /\ Holders(x)' = Holders(x) /\ Held(x)' = Held(x)
             /\ Carrying(x)' = Carrying(x) /\ CollectorRef(x)' = CollectorRef(x)
             /\ InUse(x)' = InUse(x) /\ Owned(x)' = Owned(x)
  BY DEF Holders, Holds, Held, Carrying, CollectorRef, InUse, Owned
<1>4. \A x \in Buffers : x # b => Spent(x)' = Spent(x)
  BY DEF Spent
<1>5. ThreadInv'
  <2>1. \A t \in Threads : td[t].ab # NULL => td[t].ab \in Buffers /\ td[t].ab # b
    BY <1>1, <1>2 DEF Thread
  <2> QED
    BY <1>1, <1>4, <2>1 DEF ThreadInv
<1>6. ListInv'
  <2>1. ListSound'
    BY <1>1 DEF ListInv, ListSound
  <2> QED
    BY <1>1, <1>2, <1>3, <1>4, <2>1 DEF ListInv
<1>7. PoolInv'
  BY <1>1 DEF PoolInv
<1>8. OwnedInv' /\ UseInv' /\ PageInv'
  BY <1>1, <1>3 DEF OwnedInv, UseInv, PageInv, IsMapped
<1> QED
  BY <1>5, <1>6, <1>7, <1>8 DEF IInv

LEMMA ScanStep ==
    ASSUME IInv, NEW M \in SUBSET Index, Scan(M)
    PROVE  IInv'
<1>1. /\ TypeOK /\ CollectorInv /\ buf \in [Buffers -> Buffer] /\ gc \in Gc
  BY Types DEF IInv
<1>2. PICK b \in Buffers : b = gc.working
  BY <1>1 DEF Scan, CollectorInv, Gc
<1>3. Owned(b)
  BY <1>2 DEF Scan, Owned
<1> DEFINE sl == [i \in Index |-> IF i \in M THEN Marked(buf[b].slots[i].addr)
                                  ELSE buf[b].slots[i]]
<1>4. buf' = [buf EXCEPT ![b].slots = sl]
  BY <1>1, <1>2 DEF Scan
<1>5. sl \in [Index -> Slot]
  <2>1. \A i \in Index : buf[b].slots[i] \in Slot
    BY <1>1 DEF Buffer
  <2> QED
    BY <2>1 DEF Marked, Slot, Tags
<1> HIDE DEF sl
<1>6. buf' \in [Buffers -> Buffer]
  BY <1>1, <1>4, <1>5 DEF Buffer
<1>7. gc' \in Gc /\ gc'.pc = "push" /\ gc'.working = gc.working /\ gc.pc = "scan"
  BY <1>1 DEF Scan, Gc
<1>8. TypeOK'
  BY <1>1, <1>6, <1>7 DEF Scan, TypeOK, Gc
<1>9. \A x \in Buffers : /\ x # b => buf'[x] = buf[x]
                         /\ buf'[x].capacity = buf[x].capacity
                         /\ buf'[x].ref_count = buf[x].ref_count
                         /\ buf'[x].n_addrs = buf[x].n_addrs
  BY <1>1, <1>4 DEF Buffer
<1>10. CollectorInv'
  BY <1>1, <1>2, <1>7, <1>9 DEF CollectorInv, Scan
<1> QED
  BY <1>3, <1>7, <1>8, <1>9, <1>10, OwnedUpdate DEF Scan

LEMMA CarrySlotStep ==
    ASSUME IInv, CarrySlot
    PROVE  IInv'
<1>1. /\ TypeOK /\ CollectorInv /\ buf \in [Buffers -> Buffer] /\ gc \in Gc
      /\ OwnedInv
  BY Types DEF IInv
<1>2. PICK b \in Buffers : b = g_uncollected
  BY <1>1 DEF CarrySlot, CollectorInv, TypeOK
<1>3. PICK w \in Buffers : w = gc.working
  BY <1>1 DEF CarrySlot, CollectorInv, Gc
<1>4. Owned(b) /\ b # w
  <2>1. Carrying(w) /\ Owned(b)
    BY <1>2, <1>3 DEF CarrySlot, Carrying, Owned
  <2> QED
    BY <1>1, <2>1 DEF OwnedInv, InUse
<1> DEFINE i == gc.i
           n == buf[b].n_addrs
           s == buf[w].slots[i]
<1>5. /\ i \in Index /\ i + 1 \in 0 .. MaxCapacity
      /\ n \in Index /\ n + 1 \in 0 .. MaxCapacity /\ n <= i
  <2>1. n \in 0 .. MaxCapacity /\ buf[w].n_addrs \in 0 .. MaxCapacity
    BY <1>1 DEF Buffer
  <2>2. i \in 0 .. MaxCapacity /\ n <= i /\ i < buf[w].n_addrs
    BY <1>1, <1>2, <1>3 DEF CarrySlot, CollectorInv, Gc
  <2>3. MaxCapacity \in Nat
    BY SizesAssumption
  <2> HIDE DEF i, n
  <2> QED
    BY <2>1, <2>2, <2>3 DEF Index
<1>6. Clean(s.addr) \in Slot
  BY <1>1, <1>5 DEF Buffer, Slot, Clean, Tags
<1>7. /\ gc' = [gc EXCEPT !.i = i + 1] /\ gc.pc = "carry"
      /\ buf' = IF s.tag = "marked"
                THEN [buf EXCEPT ![b].slots[n] = Clean(s.addr), ![b].n_addrs = n + 1]
                ELSE buf
      /\ UNCHANGED <<heap, retirees, g_last, available, g_uncollected, td>>
  BY <1>2, <1>3 DEF CarrySlot
<1>8. gc' \in Gc /\ gc'.pc = "carry" /\ gc'.working = w /\ gc'.i = i + 1
  BY <1>1, <1>3, <1>5, <1>7 DEF Gc
<1>9. /\ buf' \in [Buffers -> Buffer]
      /\ \A x \in Buffers : /\ x # b => buf'[x] = buf[x]
                            /\ buf'[x].capacity = buf[x].capacity
                            /\ buf'[x].ref_count = buf[x].ref_count
      /\ buf'[b].n_addrs <= n + 1
  <2>1. CASE s.tag # "marked"
    BY <1>1, <1>5, <1>7, <2>1 DEF Index
  <2>2. CASE s.tag = "marked"
    <3> DEFINE c == Clean(s.addr)
               sl == [buf[b].slots EXCEPT ![n] = c]
               r == [buf[b] EXCEPT !.slots = sl, !.n_addrs = n + 1]
    <3>1. buf' = [buf EXCEPT ![b] = r]
      BY <1>7, <2>2, Zenon
    <3> HIDE DEF c
    <3>2. sl \in [Index -> Slot]
      BY <1>1, <1>6 DEF Buffer, c
    <3> HIDE DEF sl
    <3>3. /\ r \in Buffer /\ r.capacity = buf[b].capacity
          /\ r.ref_count = buf[b].ref_count /\ r.n_addrs = n + 1
      BY <1>1, <1>5, <3>2 DEF Buffer
    <3> HIDE DEF r
    <3> QED
      BY <1>1, <1>5, <3>1, <3>3
  <2> QED
    BY <2>1, <2>2
<1>10. TypeOK'
  BY <1>1, <1>7, <1>8, <1>9 DEF TypeOK, Gc
<1>11. CollectorInv'
  <2>1. buf'[b].n_addrs <= i + 1
    BY <1>5, <1>9 DEF Index, Buffer
  <2> QED
    BY <1>2, <1>7, <1>8, <2>1, NullAssumption DEF CollectorInv
<1> QED
  BY <1>3, <1>4, <1>7, <1>8, <1>9, <1>10, <1>11, OwnedUpdate

LEMMA PushBackStep ==
    ASSUME IInv, PushBack
    PROVE  IInv'
<1>1. /\ TypeOK /\ ThreadInv /\ CollectorInv /\ ListInv /\ PoolInv /\ OwnedInv /\ UseInv
      /\ PageInv /\ buf \in [Buffers -> Buffer] /\ td \in [Threads -> Thread]
      /\ gc \in Gc /\ retirees \in Seq(Buffers) /\ Elems(retirees) \subseteq Buffers
      /\ Elems(available) \subseteq Buffers
  BY Types DEF IInv
<1>2. PICK b \in Buffers : b = gc.working
  BY <1>1 DEF PushBack, CollectorInv, Gc
<1>3. /\ gc' = [gc EXCEPT !.pc = "make"] /\ gc.pc = "push"
      /\ buf' = [buf EXCEPT ![b].ref_count = 1, ![b].free_idx = 0]
      /\ retirees' = AppendAfter(retirees, g_last, b)
      /\ g_last' = b
      /\ UNCHANGED <<heap, available, g_uncollected, td>>
  BY <1>2 DEF PushBack
<1>4. Owned(b) /\ IsMapped(b) /\ ~InUse(b) /\ buf[b].n_addrs > 0
  BY <1>1, <1>2, <1>3 DEF Owned, OwnedInv, CollectorInv
<1>5. b \notin Elems(retirees) /\ \A t \in Threads : td[t].ab # b
  BY <1>4 DEF InUse, Held
<1>6. /\ retirees' = Append(retirees, b)
      /\ retirees' \in Seq(Buffers) /\ Distinct(retirees')
      /\ Len(retirees') = Len(retirees) + 1 /\ Len(retirees) \in Nat
      /\ retirees'[Len(retirees) + 1] = b
      /\ \A k \in 1 .. Len(retirees) : retirees'[k] = retirees[k]
      /\ Elems(retirees') = Elems(retirees) \cup {b}
  <2>1. Distinct(retirees)
    BY <1>1 DEF ListInv, ListSound, Distinct
  <2>2. retirees' = Append(retirees, b)
    BY <1>1, <1>3, <2>1, AppendAtEnd DEF ListInv, ListSound
  <2> QED
    BY <1>1, <1>5, <2>1, <2>2, AppendElems
<1>7. gc' \in Gc /\ gc'.pc = "make" /\ gc'.working = b
  BY <1>1, <1>2, <1>3 DEF Gc
<1>8. /\ buf' \in [Buffers -> Buffer]
      /\ \A x \in Buffers : /\ buf'[x].n_addrs = buf[x].n_addrs
                            /\ buf'[x].capacity = buf[x].capacity
                            /\ x # b => buf'[x] = buf[x]
      /\ buf'[b].ref_count = 1 /\ buf'[b].free_idx = 0
  <2> DEFINE r == [buf[b] EXCEPT !.ref_count = 1, !.free_idx = 0]
  <2>1. buf' = [buf EXCEPT ![b] = r]
    BY <1>3, Zenon
  <2>2. 0 \in 0 .. MaxCapacity
    BY SizesAssumption
  <2>3. /\ r \in Buffer /\ r.capacity = buf[b].capacity /\ r.n_addrs = buf[b].n_addrs
        /\ r.ref_count = 1 /\ r.free_idx = 0
    <3>1. buf[b] \in Buffer /\ 1 \in Int
      BY <1>1
    <3> QED
      BY <2>2, <3>1 DEF Buffer
  <2> HIDE DEF r
  <2> QED
    BY <1>1, <2>1, <2>3
<1>9. TypeOK'
  BY <1>1, <1>3, <1>6, <1>7, <1>8 DEF TypeOK, Gc
<1>10. /\ \A x \in Buffers : /\ IsMapped(x)' = IsMapped(x)
                             /\ x # b => Spent(x)' = Spent(x)
                             /\ x # b => /\ ~Carrying(x)' /\ ~Carrying(x)
                                         /\ CollectorRef(x)' = 0 /\ CollectorRef(x) = 0
                             /\ Holders(x)' = Holders(x) /\ Held(x)' = Held(x)
       /\ CollectorRef(b)' = 1 /\ Carrying(b)' /\ ~Spent(b)'
  BY <1>2, <1>3, <1>4, <1>7, <1>8
     DEF IsMapped, Spent, Carrying, CollectorRef, Holders, Holds, Held, Buffer
<1>11. ThreadInv'
  <2>1. \A t \in Threads : td[t].ab # NULL => td[t].ab \in Buffers /\ td[t].ab # b
    BY <1>1, <1>5 DEF Thread
  <2> QED
    BY <1>1, <1>3, <1>6, <1>10, <2>1 DEF ThreadInv
<1>12. CollectorInv'
  BY <1>1, <1>3, <1>7, NullAssumption DEF CollectorInv
<1>13. ListInv'
  <2>1. \A t \in Threads : td'[t].ab \in Elems(retirees') => td'[t].ab = Head(retirees')
    <3>1. ASSUME NEW t \in Threads, td[t].ab \in Elems(retirees')
          PROVE  td[t].ab = Head(retirees')
      <4>1. td[t].ab \in Elems(retirees) /\ td[t].ab = Head(retirees)
        BY <1>1, <1>5, <1>6, <3>1 DEF ListInv, ListSound
      <4>2. 1 \in 1 .. Len(retirees)
        BY <1>6, <4>1 DEF Elems
      <4> QED
        BY <1>6, <4>1, <4>2
    <3> QED
      BY <1>3, <3>1
  <2>2. retirees' # <<>>
    BY <1>6
  <2>3. ListSound'
    BY <1>3, <1>6, <2>1, <2>2 DEF ListSound, Distinct
  <2> QED
    BY <1>1, <1>6, <1>10, <2>3 DEF ListInv
<1>14. PoolInv'
  BY <1>1, <1>2, <1>3, <1>7 DEF PoolInv
<1>15. OwnedInv'
  <2>1. ~Owned(b)'
    BY <1>1, <1>2, <1>3, <1>7, NullAssumption DEF Owned, PoolInv, CollectorInv
  <2>2. ASSUME NEW x \in Buffers, x # b, Owned(x)'
        PROVE  IsMapped(x)' /\ buf'[x].ref_count = 0 /\ ~InUse(x)'
    <3>1. Owned(x)
      BY <1>3, <1>7, <2>2 DEF Owned
    <3> QED
      BY <1>1, <1>6, <1>8, <1>10, <2>2, <3>1 DEF OwnedInv, InUse
  <2> QED
    BY <2>1, <2>2 DEF OwnedInv
<1>16. UseInv'
  <2>1. ASSUME NEW x \in Buffers, x # b, InUse(x)'
        PROVE  /\ IsMapped(x)'
               /\ buf'[x].ref_count = Cardinality(Holders(x)') + CollectorRef(x)'
    BY <1>1, <1>6, <1>8, <1>10, <2>1 DEF UseInv, InUse
  <2>2. IsMapped(b)' /\ buf'[b].ref_count = Cardinality(Holders(b)') + CollectorRef(b)'
    <3>1. Cardinality(Holders(b)) = 0
      BY <1>5, HoldersFinite DEF Held
    <3> QED
      BY <1>4, <1>8, <1>10, <3>1
  <2> QED
    BY <2>1, <2>2 DEF UseInv
<1>17. PageInv'
  BY <1>1, <1>8 DEF PageInv
<1> QED
  BY <1>9, <1>11, <1>12, <1>13, <1>14, <1>15, <1>16, <1>17 DEF IInv

-----------------------------------------------------------------------------
(***************************************************************************)
(* forkscan_make_aggregate_buffer: the buffer it returns is used by nobody *)
(* and large enough, and the buffers it unmaps were in the pool.           *)
(***************************************************************************)
LEMMA LeastExists ==
    ASSUME NEW S \in SUBSET Nat, S # {}
    PROVE  \E m \in S : \A j \in S : m <= j
<1> DEFINE R == OpToRel(<, Nat)
<1>1. IsWellFoundedOn(R, Nat)
  BY NatLessThanWellFounded, Zenon
<1>2. \A y, x \in Nat : y < x => <<y, x>> \in R
  BY DEF OpToRel
<1> HIDE DEF R
<1>3. PICK m \in S : \A y \in S : ~(<<y, m>> \in R)
  BY <1>1, WFMin, Zenon
<1>4. \A j \in S : ~(j < m)
  BY <1>2, <1>3
<1>5. \A j \in S : m <= j
  BY <1>4
<1> QED
  BY <1>5

LEMMA FirstFitFits ==
    ASSUME TypeOK, NEW req, Fits(req) # {}
    PROVE  FirstFit(req) \in Fits(req) /\ FirstFit(req) \in 1 .. Len(available)
<1>1. Fits(req) \subseteq 1 .. Len(available)
  BY DEF Fits
<1>2. Fits(req) \in SUBSET Nat
  BY <1>1
<1>3. \E k \in Fits(req) : \A j \in Fits(req) : k <= j
  BY <1>2, LeastExists
<1>4. FirstFit(req) \in Fits(req)
  BY <1>3 DEF FirstFit
<1> QED
  BY <1>1, <1>4

LEMMA MakeProperties ==
    ASSUME IInv, NEW req \in Nat \ {0}, RoundUp(req) <= MaxCapacity,
           NEW ab \in AggregateChoices(req)
    PROVE  /\ ab \in Buffers /\ ~InUse(ab) /\ ab # g_uncollected /\ ab # gc.working
           /\ Dropped(req) \subseteq Elems(available)
           /\ RestAvailable(req) \in Seq(Buffers)
           /\ Distinct(RestAvailable(req))
           /\ Elems(RestAvailable(req))
                 \subseteq Elems(available) \ (Dropped(req) \cup {ab})
           /\ Aggregate(req, ab) \in Buffer
           /\ Aggregate(req, ab).n_addrs = 0
           /\ Aggregate(req, ab).ref_count = 0
           /\ Aggregate(req, ab).capacity >= RoundUp(req)
           /\ RoundUp(Aggregate(req, ab).capacity) = Aggregate(req, ab).capacity
<1>1. /\ TypeOK /\ CollectorInv /\ PoolInv /\ OwnedInv /\ UseInv /\ PageInv
      /\ buf \in [Buffers -> Buffer] /\ gc \in Gc /\ available \in Seq(Buffers)
      /\ Elems(available) \subseteq Buffers /\ Distinct(available)
  BY Types DEF IInv, PoolInv
<1>2. /\ RoundUp(req) \in 1 .. MaxCapacity /\ RoundUp(req) >= req
      /\ RoundUp(RoundUp(req)) = RoundUp(req)
  BY RoundUpProperties, SizesAssumption
<1>3. CASE Fits(req) = {}
  <2>1. /\ Dropped(req) = Elems(available) /\ RestAvailable(req) = <<>>
        /\ Aggregate(req, ab) = [Unmapped EXCEPT !.capacity = RoundUp(req)]
        /\ ab \in Buffers /\ (~IsMapped(ab) \/ ab \in Elems(available))
    BY <1>1, <1>3 DEF Dropped, RestAvailable, Aggregate, AggregateChoices
  <2>2. [Unmapped EXCEPT !.capacity = RoundUp(req)] \in Buffer
    <3>1. Unmapped \in Buffer
      BY SizesAssumption DEF Unmapped, Buffer, Slot, Tags, Zero
    <3>2. RoundUp(req) \in 0 .. MaxCapacity
      BY <1>2, SizesAssumption
    <3> QED
      BY <3>1, <3>2 DEF Buffer
  <2>3. /\ Aggregate(req, ab).n_addrs = 0 /\ Aggregate(req, ab).ref_count = 0
        /\ Aggregate(req, ab).capacity = RoundUp(req)
    BY <2>1 DEF Unmapped
  <2>4. ~InUse(ab) /\ ab # g_uncollected /\ ab # gc.working
    <3>1. CASE ~IsMapped(ab)
      BY <1>1, <2>1, <3>1, NullAssumption
         DEF UseInv, OwnedInv, Owned, CollectorInv, InUse, Carrying, Gc
    <3>2. CASE ab \in Elems(available)
      BY <1>1, <3>2, <2>1 DEF OwnedInv, Owned, PoolInv
    <3> QED
      BY <2>1, <3>1, <3>2
  <2>5. <<>> \in Seq(Buffers) /\ Elems(<<>>) = {} /\ Distinct(<<>>)
    BY ElemsEmpty
  <2> QED
    BY <1>2, <2>1, <2>2, <2>3, <2>4, <2>5
<1>4. CASE Fits(req) # {}
  <2> DEFINE k == FirstFit(req)
  <2>1. k \in 1 .. Len(available) /\ buf[available[k]].capacity >= RoundUp(req)
    BY <1>1, <1>4, FirstFitFits DEF Fits
  <2>2. /\ Dropped(req) = {available[j] : j \in 1 .. (k - 1)}
        /\ RestAvailable(req) = SubSeq(available, k + 1, Len(available))
        /\ Aggregate(req, ab) = [buf[ab] EXCEPT !.n_addrs = 0]
        /\ ab = available[k]
    BY <1>4 DEF Dropped, RestAvailable, Aggregate, AggregateChoices
  <2> HIDE DEF k
  <2>3. Len(available) \in Nat
    BY <1>1
  <2>4. ab \in Elems(available) /\ ab \in Buffers
    BY <1>1, <2>1, <2>2 DEF Elems
  <2>5. Dropped(req) \subseteq Elems(available)
    BY <2>1, <2>2, <2>3 DEF Elems
  <2>6. /\ RestAvailable(req) \in Seq(Buffers) /\ Distinct(RestAvailable(req))
        /\ Elems(RestAvailable(req)) \subseteq Elems(available)
        /\ \A j \in 1 .. k : available[j] \notin Elems(RestAvailable(req))
    BY <1>1, <2>1, <2>2, SubSeqElems
  <2>7. Elems(RestAvailable(req)) \subseteq Elems(available) \ (Dropped(req) \cup {ab})
    <3>1. k \in 1 .. k /\ \A j \in 1 .. (k - 1) : j \in 1 .. k
      BY <2>1, <2>3
    <3>2. ab \notin Elems(RestAvailable(req))
      BY <2>2, <2>6, <3>1
    <3>3. \A x \in Dropped(req) : x \notin Elems(RestAvailable(req))
      BY <2>2, <2>6, <3>1
    <3> QED
      BY <2>6, <3>2, <3>3
  <2>8. /\ ~InUse(ab) /\ ab # g_uncollected /\ ab # gc.working
        /\ buf[ab].ref_count = 0
    BY <1>1, <2>4 DEF OwnedInv, Owned, PoolInv
  <2>9. /\ Aggregate(req, ab) \in Buffer /\ Aggregate(req, ab).n_addrs = 0
        /\ Aggregate(req, ab).ref_count = 0
        /\ Aggregate(req, ab).capacity = buf[ab].capacity
    <3>1. 0 \in 0 .. MaxCapacity /\ buf[ab] \in Buffer
      BY <1>1, <2>4, SizesAssumption
    <3> QED
      BY <2>2, <2>8, <3>1 DEF Buffer
  <2>10. RoundUp(buf[ab].capacity) = buf[ab].capacity /\ buf[ab].capacity >= RoundUp(req)
    BY <1>1, <2>1, <2>2, <2>4 DEF PageInv
  <2> QED
    BY <2>4, <2>5, <2>6, <2>7, <2>8, <2>9, <2>10
<1> QED
  BY <1>3, <1>4

\* What the other buffers look like after it.
LEMMA MakeFrame ==
    ASSUME IInv, NEW req \in Nat \ {0}, RoundUp(req) <= MaxCapacity,
           NEW ab \in AggregateChoices(req),
           NEW c \in Buffer, RoundUp(c.capacity) = c.capacity,
           buf' = BufAfterMake(req, ab, c)
    PROVE  /\ buf' \in [Buffers -> Buffer]
           /\ buf'[ab] = c
           /\ PageInv'
           /\ \A x \in Buffers :
                 (x \notin Elems(available) /\ x # ab) \/ x \in Elems(RestAvailable(req))
                    => buf'[x] = buf[x]
<1>1. /\ ab \in Buffers /\ Dropped(req) \subseteq Elems(available)
      /\ Elems(RestAvailable(req)) \subseteq Elems(available) \ (Dropped(req) \cup {ab})
  BY MakeProperties
<1>2. buf \in [Buffers -> Buffer] /\ PageInv
  BY Types DEF IInv
<1>3. Unmapped \in Buffer /\ Unmapped.capacity = 0 /\ RoundUp(0) = 0
  BY SizesAssumption, RoundUpProperties DEF Unmapped, Buffer, Slot, Tags, Zero
<1>4. \A x \in Buffers :
         buf'[x] = IF x = ab THEN c ELSE IF x \in Dropped(req) THEN Unmapped ELSE buf[x]
  BY DEF BufAfterMake
<1>5. buf' \in [Buffers -> Buffer]
  BY <1>2, <1>3 DEF BufAfterMake
<1>6. PageInv'
  BY <1>2, <1>3, <1>4 DEF PageInv
<1> QED
  BY <1>1, <1>4, <1>5, <1>6

LEMMA MakeUncollectedStep ==
    ASSUME IInv, MakeUncollected
    PROVE  IInv'
<1>1. /\ TypeOK /\ ThreadInv /\ CollectorInv /\ ListInv /\ PoolInv /\ OwnedInv /\ UseInv
      /\ PageInv /\ buf \in [Buffers -> Buffer] /\ td \in [Threads -> Thread]
      /\ gc \in Gc /\ Elems(retirees) \subseteq Buffers
      /\ Elems(available) \subseteq Buffers
  BY Types DEF IInv
<1>2. PICK w \in Buffers : w = gc.working /\ Carrying(w)
  BY <1>1 DEF MakeUncollected, CollectorInv, Gc, Carrying
<1>3. PICK req \in Nat \ {0} : req = buf[w].capacity /\ RoundUp(req) <= MaxCapacity
  <2>1. IsMapped(w) /\ RoundUp(buf[w].capacity) = buf[w].capacity
    BY <1>1, <1>2 DEF UseInv, InUse, PageInv
  <2> QED
    BY <1>1, <2>1, SizesAssumption DEF IsMapped, Buffer
<1>4. PICK ab \in AggregateChoices(req) :
         /\ buf' = BufAfterMake(req, ab, Aggregate(req, ab))
         /\ g_uncollected' = ab
         /\ available' = RestAvailable(req)
  BY <1>2, <1>3 DEF MakeUncollected
<1>5. /\ gc' = [gc EXCEPT !.pc = "carry", !.i = 0] /\ gc.pc = "make"
      /\ UNCHANGED <<heap, retirees, g_last, td>>
  BY DEF MakeUncollected
<1>6. /\ ab \in Buffers /\ ~InUse(ab) /\ ab # w
      /\ available' \in Seq(Buffers) /\ Distinct(available')
      /\ Elems(available') \subseteq Elems(available) \ {ab}
  BY <1>2, <1>3, <1>4, MakeProperties
<1>7. PICK c \in Buffer :
         /\ c = Aggregate(req, ab) /\ c.n_addrs = 0 /\ c.ref_count = 0 /\ c.capacity > 0
         /\ RoundUp(c.capacity) = c.capacity
  <2> DEFINE c == Aggregate(req, ab)
  <2>1. /\ c \in Buffer /\ c.n_addrs = 0 /\ c.ref_count = 0 /\ c.capacity >= RoundUp(req)
        /\ RoundUp(c.capacity) = c.capacity
    BY <1>3, MakeProperties
  <2>2. RoundUp(req) \in Nat /\ RoundUp(req) >= req
    BY RoundUpProperties
  <2> HIDE DEF c
  <2>3. c.capacity > 0
    BY <2>1, <2>2 DEF Buffer
  <2> QED
    BY <2>1, <2>3 DEF c
<1>8. /\ buf' \in [Buffers -> Buffer] /\ buf'[ab] = c /\ PageInv'
      /\ \A x \in Buffers :
            (x \notin Elems(available) /\ x # ab) \/ x \in Elems(available')
               => buf'[x] = buf[x]
  BY <1>3, <1>4, <1>7, MakeFrame
<1>9. gc' \in Gc /\ gc'.pc = "carry" /\ gc'.working = w /\ gc'.i = 0
  <2>1. 0 \in 0 .. MaxCapacity
    BY SizesAssumption
  <2> QED
    BY <1>1, <1>2, <1>5, <2>1 DEF Gc
<1>10. TypeOK'
  BY <1>1, <1>4, <1>5, <1>6, <1>8, <1>9 DEF TypeOK, Gc
<1>11. \A x : /\ Holders(x)' = Holders(x) /\ Held(x)' = Held(x)
              /\ Carrying(x)' = Carrying(x) /\ CollectorRef(x)' = CollectorRef(x)
              /\ InUse(x)' = InUse(x)
  BY <1>2, <1>5, <1>9 DEF Holders, Holds, Held, Carrying, CollectorRef, InUse
<1>12. \A x \in Buffers : InUse(x) => buf'[x] = buf[x] /\ Spent(x)' = Spent(x)
  BY <1>1, <1>6, <1>8 DEF OwnedInv, Owned, Spent
<1>13. ThreadInv'
  <2>1. \A t \in Threads : td[t].ab # NULL => td[t].ab \in Buffers /\ InUse(td[t].ab)
    BY <1>1 DEF Thread, InUse, Held
  <2> QED
    BY <1>1, <1>5, <1>12, <2>1 DEF ThreadInv
<1>14. CollectorInv'
  BY <1>4, <1>6, <1>7, <1>8, <1>9, NullAssumption DEF CollectorInv
<1>15. ListInv'
  <2>1. ListSound'
    BY <1>1, <1>5 DEF ListInv, ListSound
  <2>2. \A x \in Elems(retirees) : x \in Buffers /\ InUse(x)
    BY <1>1 DEF InUse
  <2> QED
    BY <1>1, <1>5, <1>11, <1>12, <2>1, <2>2 DEF ListInv
<1>16. PoolInv'
  BY <1>1, <1>2, <1>4, <1>6, <1>9 DEF PoolInv
<1>17. OwnedInv'
  <2>1. ASSUME NEW x \in Buffers, Owned(x)'
        PROVE  IsMapped(x)' /\ buf'[x].ref_count = 0 /\ ~InUse(x)'
    <3>1. CASE x = ab
      BY <1>6, <1>7, <1>8, <1>11, <3>1 DEF IsMapped
    <3>2. CASE x \in Elems(available')
      BY <1>1, <1>6, <1>8, <1>11, <3>2 DEF OwnedInv, Owned, IsMapped
    <3> QED
      BY <1>4, <1>9, <2>1, <3>1, <3>2 DEF Owned
  <2> QED
    BY <2>1 DEF OwnedInv
<1>18. UseInv'
  BY <1>1, <1>11, <1>12 DEF UseInv, IsMapped
<1> QED
  BY <1>8, <1>10, <1>13, <1>14, <1>15, <1>16, <1>17, <1>18 DEF IInv

\* A buffer with addresses copied into it.
LEMMA FilledTyped ==
    ASSUME NEW c \in Buffer, NEW T \in SUBSET (Addrs \cup {NULL}),
           NEW n \in 0 .. MaxCapacity, NEW f \in [0 .. (n - 1) -> T]
    PROVE  /\ Filled(c, f, n) \in Buffer
           /\ Filled(c, f, n).n_addrs = n
           /\ Filled(c, f, n).capacity = c.capacity
           /\ Filled(c, f, n).ref_count = c.ref_count
<1> DEFINE sl == [i \in Index |-> IF i < n THEN Clean(f[i]) ELSE c.slots[i]]
<1>1. sl \in [Index -> Slot]
  <2>1. \A i \in Index : c.slots[i] \in Slot
    BY DEF Buffer
  <2>2. \A i \in Index : i < n => f[i] \in Addrs \cup {NULL}
    BY SizesAssumption DEF Index
  <2>3. \A a \in Addrs \cup {NULL} : Clean(a) \in Slot
    BY DEF Clean, Slot, Tags
  <2> QED
    BY <2>1, <2>2, <2>3
<1>2. Filled(c, f, n) = [c EXCEPT !.slots = sl, !.n_addrs = n]
  BY DEF Filled
<1> HIDE DEF sl
<1> QED
  BY <1>1, <1>2 DEF Buffer

LEMMA CarriedFinite ==
    ASSUME IInv, NEW S \in SUBSET Addrs
    PROVE  /\ S \cup Carried \in SUBSET (Addrs \cup {NULL})
           /\ Cardinality(S \cup Carried) \in Nat
<1>1. buf \in [Buffers -> Buffer] /\ TypeOK
  BY Types DEF IInv
<1>2. Carried \subseteq Addrs \cup {NULL}
  <2>1. CASE g_uncollected = NULL
    BY <2>1 DEF Carried
  <2>2. CASE g_uncollected # NULL
    <3>1. buf[g_uncollected] \in Buffer
      BY <1>1, <2>2 DEF TypeOK
    <3>2. \A i \in 0 .. (buf[g_uncollected].n_addrs - 1) :
             buf[g_uncollected].slots[i] \in Slot
      BY <3>1, SizesAssumption DEF Buffer, Index
    <3>3. \A i \in 0 .. (buf[g_uncollected].n_addrs - 1) :
             buf[g_uncollected].slots[i].addr \in Addrs \cup {NULL}
      BY <3>2 DEF Slot
    <3> QED
      BY <2>2, <3>3 DEF Carried
  <2> QED
    BY <2>1, <2>2
<1>3. IsFiniteSet(Addrs \cup {NULL})
  BY FS_AddElement, FiniteAssumption
<1> QED
  BY <1>2, <1>3, FS_Subset, FS_CardinalityType

LEMMA CollectStep ==
    ASSUME IInv, NEW S \in SUBSET Addrs, Collect(S)
    PROVE  IInv'
<1> DEFINE T == S \cup Carried
           n == Cardinality(T)
           req == MaxOf(n, DefaultCapacity)
           Fresh(w) ==
             /\ w # NULL /\ ~InUse(w)
             /\ gc' = [gc EXCEPT !.pc = "scan", !.working = w, !.round = @ + 1]
             /\ buf' \in [Buffers -> Buffer] /\ PageInv'
             /\ buf'[w].ref_count = 0 /\ buf'[w].n_addrs > 0 /\ buf'[w].capacity > 0
             /\ available' \in Seq(Buffers) /\ Distinct(available')
             /\ w \notin Elems(available')
             /\ \A x \in Elems(available') : Owned(x)
             /\ \A x \in Buffers : InUse(x) => buf'[x] = buf[x]
             /\ \A x \in Elems(available') : buf'[x] = buf[x]
<1>1. /\ TypeOK /\ ThreadInv /\ CollectorInv /\ ListInv /\ PoolInv /\ OwnedInv /\ UseInv
      /\ PageInv /\ buf \in [Buffers -> Buffer] /\ td \in [Threads -> Thread]
      /\ gc \in Gc /\ Elems(retirees) \subseteq Buffers
      /\ Elems(available) \subseteq Buffers /\ available \in Seq(Buffers)
  BY Types DEF IInv
<1>2. /\ gc.pc = "wait" /\ gc.working = NULL /\ gc.round < MaxRounds
      /\ g_uncollected' = NULL /\ UNCHANGED <<retirees, g_last, td>>
      /\ heap' = [a \in Addrs |-> IF a \in S THEN "retired" ELSE heap[a]]
  BY <1>1 DEF Collect, CollectorInv
<1>3. T \in SUBSET (Addrs \cup {NULL}) /\ n \in Nat \ {0}
  BY CarriedFinite DEF Collect
<1>4. PICK f \in Layouts(T) :
         \/ /\ g_uncollected # NULL /\ buf[g_uncollected].capacity > n
            /\ buf' = [buf EXCEPT ![g_uncollected] = Filled(@, f, n)]
            /\ gc' = [gc EXCEPT !.pc = "scan", !.working = g_uncollected, !.round = @ + 1]
            /\ UNCHANGED available
         \/ /\ g_uncollected # NULL => buf[g_uncollected].capacity <= n
            /\ RoundUp(req) <= MaxCapacity
            /\ \E ab \in AggregateChoices(req) :
                  /\ buf' = BufAfterMake(req, ab, Filled(Aggregate(req, ab), f, n))
                  /\ gc' = [gc EXCEPT !.pc = "scan", !.working = ab, !.round = @ + 1]
            /\ available' = IF g_uncollected = NULL THEN RestAvailable(req)
                            ELSE <<g_uncollected>> \o RestAvailable(req)
  BY DEF Collect
<1>5. f \in [0 .. (n - 1) -> T]
  BY DEF Layouts
<1>6. \A x \in Elems(available) : Owned(x) /\ ~InUse(x)
  BY <1>1 DEF Owned, OwnedInv
<1>7. g_uncollected # NULL =>
         /\ g_uncollected \in Buffers /\ Owned(g_uncollected) /\ ~InUse(g_uncollected)
         /\ IsMapped(g_uncollected) /\ buf[g_uncollected].ref_count = 0
         /\ g_uncollected \notin Elems(available)
  BY <1>1 DEF Owned, OwnedInv, TypeOK, PoolInv
<1> HIDE DEF T, n, req
<1>8. \E w \in Buffers : Fresh(w)
  <2>1. CASE /\ g_uncollected # NULL /\ buf[g_uncollected].capacity > n
             /\ buf' = [buf EXCEPT ![g_uncollected] = Filled(@, f, n)]
             /\ gc' = [gc EXCEPT !.pc = "scan", !.working = g_uncollected, !.round = @ + 1]
             /\ UNCHANGED available
    <3>1. PICK b \in Buffers : b = g_uncollected
      BY <1>7, <2>1
    <3>2. buf[b] \in Buffer /\ buf[b].capacity \in 0 .. MaxCapacity
      BY <1>1 DEF Buffer
    <3>3. n \in 0 .. MaxCapacity
      <4>1. buf[b].capacity > n
        BY <2>1, <3>1
      <4> QED
        BY <1>3, <3>2, <4>1, SizesAssumption
    <3>4. PICK c \in Buffer :
             /\ c = Filled(buf[b], f, n) /\ c.n_addrs = n
             /\ c.capacity = buf[b].capacity /\ c.ref_count = buf[b].ref_count
      <4>0. PICK g \in Buffer : g = buf[b]
        BY <3>2
      <4> DEFINE c == Filled(g, f, n)
      <4>1. /\ c \in Buffer /\ c.n_addrs = n /\ c.capacity = g.capacity
            /\ c.ref_count = g.ref_count
        BY <1>3, <1>5, <3>3, FilledTyped, Zenon
      <4> HIDE DEF c
      <4> QED
        BY <4>0, <4>1 DEF c
    <3>5. buf' = [buf EXCEPT ![b] = c]
      BY <2>1, <3>1, <3>4
    <3>6. PageInv'
      BY <1>1, <3>4, <3>5 DEF PageInv
    <3>7. \A x \in Buffers : x # b => buf'[x] = buf[x]
      BY <1>1, <3>5
    <3>8. /\ buf'[b] = c /\ buf' \in [Buffers -> Buffer] /\ c.capacity > 0
      BY <1>1, <1>7, <2>1, <3>1, <3>4, <3>5 DEF IsMapped
    <3>9. available' = available /\ Distinct(available) /\ b \notin Elems(available)
      BY <1>1, <1>7, <2>1, <3>1 DEF PoolInv
    <3>10. /\ b # NULL /\ ~InUse(b) /\ buf[b].ref_count = 0
           /\ gc' = [gc EXCEPT !.pc = "scan", !.working = b, !.round = @ + 1]
      BY <1>7, <2>1, <3>1
    <3>11. c.n_addrs > 0
      BY <1>3, <3>4
    <3>12. \A x \in Elems(available') : Owned(x) /\ buf'[x] = buf[x]
      BY <1>1, <1>6, <3>7, <3>9
    <3>13. \A x \in Buffers : InUse(x) => buf'[x] = buf[x]
      BY <3>7, <3>10
    <3>14. Fresh(b)
      BY <1>1, <3>4, <3>6, <3>8, <3>9, <3>10, <3>11, <3>12, <3>13
    <3> QED
      BY <3>14
  <2>2. CASE /\ g_uncollected # NULL => buf[g_uncollected].capacity <= n
             /\ RoundUp(req) <= MaxCapacity
             /\ \E ab \in AggregateChoices(req) :
                   /\ buf' = BufAfterMake(req, ab, Filled(Aggregate(req, ab), f, n))
                   /\ gc' = [gc EXCEPT !.pc = "scan", !.working = ab, !.round = @ + 1]
             /\ available' = IF g_uncollected = NULL THEN RestAvailable(req)
                             ELSE <<g_uncollected>> \o RestAvailable(req)
    <3>1. req \in Nat \ {0} /\ n <= req
      BY <1>3, SizesAssumption DEF req, MaxOf
    <3>2. PICK ab \in AggregateChoices(req) :
             /\ buf' = BufAfterMake(req, ab, Filled(Aggregate(req, ab), f, n))
             /\ gc' = [gc EXCEPT !.pc = "scan", !.working = ab, !.round = @ + 1]
      BY <2>2
    <3> DEFINE rest == RestAvailable(req)
    <3>3. /\ ab \in Buffers /\ ~InUse(ab) /\ ab # g_uncollected
          /\ rest \in Seq(Buffers) /\ Distinct(rest)
          /\ Elems(rest) \subseteq Elems(available) \ {ab}
      BY <2>2, <3>1, MakeProperties
    <3>4. PICK c \in Buffer :
             /\ c = Filled(Aggregate(req, ab), f, n) /\ c.n_addrs = n /\ c.ref_count = 0
             /\ c.capacity > 0 /\ RoundUp(c.capacity) = c.capacity
      <4>1. PICK g \in Buffer :
               /\ g = Aggregate(req, ab) /\ g.ref_count = 0 /\ g.capacity >= RoundUp(req)
               /\ RoundUp(g.capacity) = g.capacity
        BY <2>2, <3>1, MakeProperties
      <4>2. RoundUp(req) \in Nat /\ RoundUp(req) >= req
        BY <3>1, RoundUpProperties
      <4>3. n \in 0 .. MaxCapacity /\ g.capacity > 0
        BY <1>3, <2>2, <3>1, <4>1, <4>2, SizesAssumption DEF Buffer
      <4> QED
        <5> DEFINE c == Filled(g, f, n)
        <5>1. /\ c \in Buffer /\ c.n_addrs = n /\ c.capacity = g.capacity
              /\ c.ref_count = g.ref_count
          BY <1>3, <1>5, <4>3, FilledTyped, Zenon
        <5> HIDE DEF c
        <5> QED
          BY <4>1, <4>3, <5>1 DEF c
    <3>5. /\ buf' \in [Buffers -> Buffer] /\ buf'[ab] = c /\ PageInv'
          /\ \A x \in Buffers :
                (x \notin Elems(available) /\ x # ab) \/ x \in Elems(rest) => buf'[x] = buf[x]
      BY <2>2, <3>1, <3>2, <3>4, MakeFrame
    <3>6. /\ available' \in Seq(Buffers) /\ Distinct(available')
          /\ Elems(available') \subseteq Elems(rest) \cup ({g_uncollected} \ {NULL})
      <4>1. CASE g_uncollected = NULL
        BY <2>2, <3>3, <4>1
      <4>2. CASE g_uncollected # NULL
        <5>1. g_uncollected \in Buffers /\ g_uncollected \notin Elems(rest)
          BY <1>7, <3>3, <4>2
        <5>2. available' = <<g_uncollected>> \o rest
          BY <2>2, <4>2
        <5> HIDE DEF rest
        <5> QED
          BY <3>3, <4>2, <5>1, <5>2, PrependElems
      <4> QED
        BY <4>1, <4>2
    <3> HIDE DEF rest
    <3>7. ab \notin Elems(available') /\ ab # NULL
      BY <3>3, <3>6, NullAssumption
    <3>8. \A x \in Elems(available') : x \in Buffers /\ Owned(x) /\ buf'[x] = buf[x]
      <4>1. ASSUME NEW x \in Elems(rest) PROVE x \in Buffers /\ Owned(x) /\ buf'[x] = buf[x]
        BY <1>1, <1>6, <3>3, <3>5
      <4>2. ASSUME g_uncollected # NULL
            PROVE  /\ g_uncollected \in Buffers /\ Owned(g_uncollected)
                   /\ buf'[g_uncollected] = buf[g_uncollected]
        BY <1>7, <3>3, <3>5, <4>2
      <4> QED
        BY <3>6, <4>1, <4>2
    <3>9. \A x \in Buffers : InUse(x) => buf'[x] = buf[x]
      BY <1>6, <3>3, <3>5
    <3>10. c.n_addrs > 0
      BY <1>3, <3>4
    <3>11. Fresh(ab)
      BY <3>2, <3>3, <3>4, <3>5, <3>6, <3>7, <3>8, <3>9, <3>10
    <3> QED
      BY <3>3, <3>11
  <2> QED
    BY <1>4, <2>1, <2>2
<1>9. PICK w \in Buffers : Fresh(w)
  BY <1>8
<1>10. gc' \in Gc /\ gc'.pc = "scan" /\ gc'.working = w
  <2>1. gc.round + 1 \in 0 .. MaxRounds
    BY <1>1, <1>2, SizesAssumption DEF Gc
  <2>2. gc' = [gc EXCEPT !.pc = "scan", !.working = w, !.round = gc.round + 1]
    BY <1>9
  <2> QED
    BY <1>1, <2>1, <2>2 DEF Gc
<1>11. TypeOK'
  <2>1. heap' \in [Addrs -> {"free", "allocated", "retired"}]
    BY <1>1, <1>2 DEF TypeOK
  <2> QED
    BY <1>1, <1>2, <1>9, <1>10, <2>1 DEF TypeOK, Gc
<1>12. /\ \A x : /\ Holders(x)' = Holders(x) /\ Held(x)' = Held(x)
       /\ \A x : ~Carrying(x)' /\ ~Carrying(x) /\ CollectorRef(x)' = CollectorRef(x)
       /\ \A x : InUse(x)' = InUse(x)
  BY <1>2, <1>10 DEF Holders, Holds, Held, Carrying, CollectorRef, InUse
<1>13. \A x \in Buffers : InUse(x) => buf'[x] = buf[x] /\ Spent(x)' = Spent(x)
  BY <1>9 DEF Spent
<1>14. ThreadInv'
  <2>1. \A t \in Threads : td[t].ab # NULL => td[t].ab \in Buffers /\ InUse(td[t].ab)
    BY <1>1 DEF Thread, InUse, Held
  <2> QED
    BY <1>1, <1>2, <1>13, <2>1 DEF ThreadInv
<1>15. CollectorInv'
  BY <1>2, <1>9, <1>10 DEF CollectorInv
<1>16. ListInv'
  <2>1. ListSound'
    BY <1>1, <1>2 DEF ListInv, ListSound
  <2>2. \A x \in Elems(retirees) : x \in Buffers /\ InUse(x)
    BY <1>1 DEF InUse
  <2> QED
    BY <1>1, <1>2, <1>12, <1>13, <2>1, <2>2 DEF ListInv
<1>17. PoolInv'
  <2>1. NULL \notin Elems(available')
    BY <1>9, NullAssumption DEF Elems
  <2> QED
    BY <1>2, <1>9, <1>10, <2>1 DEF PoolInv
<1>18. OwnedInv'
  <2>1. ASSUME NEW x \in Buffers, Owned(x)'
        PROVE  IsMapped(x)' /\ buf'[x].ref_count = 0 /\ ~InUse(x)'
    <3>1. CASE x = w
      BY <1>9, <1>12, <3>1 DEF IsMapped
    <3>2. CASE x \in Elems(available')
      BY <1>1, <1>9, <1>12, <3>2 DEF OwnedInv, IsMapped
    <3> QED
      BY <1>2, <1>10, <2>1, <3>1, <3>2, NullAssumption DEF Owned
  <2> QED
    BY <2>1 DEF OwnedInv
<1>19. UseInv'
  BY <1>1, <1>12, <1>13 DEF UseInv, IsMapped
<1> QED
  BY <1>9, <1>11, <1>14, <1>15, <1>16, <1>17, <1>18, <1>19 DEF IInv

-----------------------------------------------------------------------------
(***************************************************************************)
(* The theorems.                                                           *)
(***************************************************************************)
LEMMA StepIInv ==
    ASSUME IInv, [Next]_vars
    PROVE  IInv'
<1>1. CASE UNCHANGED vars
  <2>1. TypeOK' /\ ThreadInv'
    BY <1>1 DEF vars, IInv, TypeOK, ThreadInv, Spent
  <2> QED
    BY <1>1, <2>1, QuietStep DEF vars, Spent
<1>2. ASSUME NEW a \in Addrs, Malloc(a) \/ Free(a) PROVE IInv'
  <2>1. heap' \in [Addrs -> {"free", "allocated", "retired"}]
    BY <1>2 DEF Malloc, Free, IInv, TypeOK
  <2>2. UNCHANGED <<buf, retirees, g_last, available, g_uncollected, td, gc>>
    BY <1>2 DEF Malloc, Free
  <2>3. TypeOK' /\ ThreadInv'
    BY <2>1, <2>2 DEF IInv, TypeOK, ThreadInv, Spent
  <2> QED
    BY <2>2, <2>3, QuietStep DEF Spent
<1>3. ASSUME NEW t \in Threads, FreePtrs(t) \/ ThreadExit(t) PROVE IInv'
  BY <1>3, GetRetireeStep, CheckRangeStep, ReadFreeIdxStep, ClaimRangeStep,
     TakeSlotStep, TakeBeyondStep, FreeSlotStep, PopRetireeStep, UnrefRetireeStep,
     ThreadExitStep DEF FreePtrs
<1>4. ASSUME Collector PROVE IInv'
  BY <1>4, CollectStep, ScanStep, PushBackStep, MakeUncollectedStep, CarrySlotStep,
     UnrefWorkingStep DEF Collector
<1> QED
  BY <1>1, <1>2, <1>3, <1>4 DEF Next

LEMMA Invariance == Spec => []IInv
BY InitIInv, StepIInv, PTL DEF Spec

\* Every variable keeps its type: the indices of the ranges and of the copies
\* stay within the buffers' bounds, although a range may be claimed after the
\* buffer is spent (util.c:232-256, forkscan.c:231-246).
THEOREM TypeCorrect == Spec => []TypeOK
<1>1. IInv => TypeOK
  BY DEF IInv
<1> QED
  BY <1>1, Invariance, PTL

\* The list of retiree buffers stays in order, and a buffer that a thread holds
\* is at its front or gone from it: the answer to the question of buffer.c:176.
THEOREM ListOrdered == Spec => []ListSound
<1>1. IInv => ListSound
  BY DEF IInv, ListInv
<1> QED
  BY <1>1, Invariance, PTL

\* The reference count of a buffer in use is the number of its holders
\* (buffer.c:166-227).
THEOREM RefCountsExact == Spec => []RefCountExact
<1>1. IInv => RefCountExact
  BY HoldersFinite DEF IInv, UseInv, InUse, RefCountExact
<1> QED
  BY <1>1, Invariance, PTL

\* A buffer is released only when nobody can reach it any more, and once
\* (buffer.c:137-163, 211-227).
THEOREM ReleasesSafe == Spec => []ReleaseSafe
<1>1. IInv => ReleaseSafe
  <2> SUFFICES ASSUME IInv PROVE ReleaseSafe
    OBVIOUS
  <2>1. \A b \in Elems(available) : b \in Buffers /\ Owned(b)
    BY Types DEF IInv, Owned
  <2>2. \A b \in Elems(available) : IsMapped(b) /\ buf[b].ref_count = 0 /\ ~InUse(b)
    BY <2>1 DEF IInv, OwnedInv
  <2> QED
    BY <2>2, HoldersFinite DEF IInv, PoolInv, Distinct, InUse, ReleaseSafe
<1> QED
  BY <1>1, Invariance, PTL

-----------------------------------------------------------------------------
(***************************************************************************)
(* Where the retired addresses are.  A slot of a buffer waits when it is   *)
(* one that the collector scans or has still to carry over, one of the     *)
(* uncollected addresses, a clean one that is not handed out yet, or a     *)
(* clean one in the range of a thread.  Claiming a range, publishing a     *)
(* buffer and marking a slot move no address: it waits where it was.       *)
(***************************************************************************)
InWork(b, i) ==
    /\ b = gc.working /\ i < buf[b].n_addrs
    /\ \/ gc.pc \in {"scan", "push"}
       \/ gc.pc \in {"make", "carry"} /\ buf[b].slots[i].tag = "marked"
    /\ gc.pc = "carry" => gc.i <= i

InKept(b, i) == b = g_uncollected /\ i < buf[b].n_addrs

InList(b, i) ==
    /\ b \in Elems(retirees) /\ buf[b].free_idx <= i /\ i < buf[b].n_addrs
    /\ buf[b].slots[i].tag = "clean"

InRange(t, b, i) ==
    /\ td[t].ab = b /\ td[t].begin <= i /\ i < td[t].end
    /\ buf[b].slots[i].tag = "clean"

Waits(b, i) ==
    InWork(b, i) \/ InKept(b, i) \/ InList(b, i) \/ \E t \in Threads : InRange(t, b, i)

At(b, i) == buf[b].slots[i].addr

\* A thread is about to free an address.
InHand(t) == td[t].pc = "free" /\ td[t].s.tag = "clean"

\* A thread that looks for a range has none, and a buffer that is held and no longer
\* in the list has been handed out.
RestInv ==
    \A t \in Threads :
        /\ td[t].pc \in {"read", "cas", "pop", "unref"} => td[t].begin = td[t].end
        /\ td[t].ab = NULL => td[t].begin = 0 /\ td[t].end = 0
        /\ td[t].ab # NULL /\ td[t].ab \notin Elems(retirees) => Spent(td[t].ab)

\* The ranges of the threads are handed out and do not overlap.
RangeInv ==
    /\ \A t \in Threads : td[t].ab # NULL =>
          td[t].end <= buf[td[t].ab].free_idx /\ td[t].end <= buf[td[t].ab].n_addrs
    /\ \A t, u \in Threads : t # u /\ td[t].ab # NULL /\ td[t].ab = td[u].ab =>
          td[t].end <= td[u].begin \/ td[u].end <= td[t].begin

\* What waits, or is about to be freed, is retired.
RetiredInv ==
    /\ \A b \in Buffers, i \in Index : Waits(b, i) =>
          /\ buf[b].slots[i].tag \in {"clean", "marked"}
          /\ At(b, i) \in Addrs /\ heap[At(b, i)] = "retired"
    /\ \A t \in Threads : td[t].pc = "free" => td[t].s.tag # "marked"
    /\ \A t \in Threads : InHand(t) => td[t].s.addr \in Addrs /\ heap[td[t].s.addr] = "retired"

\* It is so in one place only.
OnceInv ==
    /\ \A b, c \in Buffers, i, j \in Index :
          Waits(b, i) /\ Waits(c, j) /\ At(b, i) = At(c, j) => b = c /\ i = j
    /\ \A t \in Threads, b \in Buffers, i \in Index :
          InHand(t) /\ Waits(b, i) => td[t].s.addr # At(b, i)
    /\ \A t, u \in Threads : InHand(t) /\ InHand(u) /\ td[t].s.addr = td[u].s.addr => t = u

\* And what is retired is in such a place.
KeptInv ==
    \A a \in Addrs : heap[a] = "retired" =>
        \/ \E b \in Buffers, i \in Index : Waits(b, i) /\ At(b, i) = a
        \/ \E t \in Threads : InHand(t) /\ td[t].s.addr = a

SlotInv == RetiredInv /\ OnceInv /\ KeptInv

AddrInv == RestInv /\ (NoOverrun => RangeInv /\ SlotInv)

(***************************************************************************)
(* Steps after which every address waits where it was.                     *)
(***************************************************************************)
LEMMA SlotsStay ==
    ASSUME SlotInv,
           \A a \in Addrs : heap'[a] = "retired" <=> heap[a] = "retired",
           \A b \in Buffers, i \in Index :
              /\ Waits(b, i)' <=> Waits(b, i)
              /\ Waits(b, i) => /\ At(b, i)' = At(b, i)
                                /\ buf'[b].slots[i].tag \in {"clean", "marked"},
           \A t \in Threads : /\ td'[t].pc = "free" => td'[t].s.tag # "marked"
                              /\ InHand(t)' <=> InHand(t)
                              /\ InHand(t) => td'[t].s.addr = td[t].s.addr
    PROVE  SlotInv'
<1>1. RetiredInv'
  BY DEF SlotInv, RetiredInv
<1>2. OnceInv'
  BY DEF SlotInv, OnceInv
<1>3. KeptInv'
  BY DEF SlotInv, KeptInv
<1> QED
  BY <1>1, <1>2, <1>3 DEF SlotInv

\* What a slot is, is all that matters when no list and no buffer changes hands.
LEMMA QuietSlots ==
    ASSUME SlotInv,
           \A a \in Addrs : heap'[a] = "retired" <=> heap[a] = "retired",
           UNCHANGED <<g_uncollected, gc>>,
           \A b \in Buffers : /\ buf'[b].slots = buf[b].slots
                              /\ buf'[b].n_addrs = buf[b].n_addrs,
           \A b \in Buffers, i \in Index : InList(b, i)' <=> InList(b, i),
           \A b \in Buffers, i \in Index :
              (\E t \in Threads : InRange(t, b, i)') <=> \E t \in Threads : InRange(t, b, i),
           \A t \in Threads : /\ td'[t].pc = "free" <=> td[t].pc = "free"
                              /\ td'[t].s = td[t].s
    PROVE  SlotInv'
<1>1. \A b \in Buffers, i \in Index : /\ InWork(b, i)' <=> InWork(b, i)
                                      /\ InKept(b, i)' <=> InKept(b, i)
  BY DEF InWork, InKept
<1>2. \A b \in Buffers, i \in Index : Waits(b, i)' <=> Waits(b, i)
  BY <1>1 DEF Waits
<1>3. \A b \in Buffers, i \in Index : Waits(b, i) =>
         At(b, i)' = At(b, i) /\ buf'[b].slots[i].tag \in {"clean", "marked"}
  BY DEF At, SlotInv, RetiredInv
<1>4. \A t \in Threads : /\ td'[t].pc = "free" => td'[t].s.tag # "marked"
                         /\ InHand(t)' <=> InHand(t)
                         /\ InHand(t) => td'[t].s.addr = td[t].s.addr
  BY DEF InHand, SlotInv, RetiredInv
<1> QED
  BY <1>2, <1>3, <1>4, SlotsStay

LEMMA QuietKeeps ==
    ASSUME IInv, AddrInv,
           \A a \in Addrs : heap'[a] = "retired" <=> heap[a] = "retired",
           UNCHANGED <<retirees, g_uncollected, gc>>,
           \A b \in Buffers : /\ buf'[b].slots = buf[b].slots
                              /\ buf'[b].n_addrs = buf[b].n_addrs
                              /\ buf'[b].free_idx = buf[b].free_idx,
           \A t \in Threads :
              /\ td'[t].ab = td[t].ab /\ td'[t].begin = td[t].begin
              /\ td'[t].end = td[t].end /\ td'[t].s = td[t].s
              /\ td'[t].pc = "free" <=> td[t].pc = "free"
              /\ Overran(t) => Overran(t)'
              /\ td'[t].pc \in {"read", "cas", "pop", "unref"} => td[t].begin = td[t].end
    PROVE  AddrInv'
<1>1. \A t \in Threads : td[t].ab # NULL => td[t].ab \in Buffers
  BY Types DEF IInv, Thread
<1>2. RestInv'
  BY <1>1 DEF AddrInv, RestInv, Spent
<1>3. ASSUME NoOverrun' PROVE RangeInv' /\ SlotInv'
  <2>1. RangeInv /\ SlotInv
    BY <1>3 DEF AddrInv, NoOverrun
  <2>2. RangeInv'
    BY <1>1, <2>1 DEF RangeInv
  <2>3. \A b \in Buffers, i \in Index : InList(b, i)' <=> InList(b, i)
    BY DEF InList
  <2>4. \A t \in Threads, b \in Buffers, i \in Index : InRange(t, b, i)' <=> InRange(t, b, i)
    BY DEF InRange
  <2>5. \A t \in Threads : /\ td'[t].pc = "free" <=> td[t].pc = "free"
                           /\ td'[t].s = td[t].s
    OBVIOUS
  <2> QED
    BY <2>1, <2>2, <2>3, <2>4, <2>5, QuietSlots
<1> QED
  BY <1>2, <1>3 DEF AddrInv

LEMMA AppKeeps ==
    ASSUME IInv, AddrInv, NEW a \in Addrs, Malloc(a) \/ Free(a)
    PROVE  AddrInv'
<1>1. UNCHANGED <<buf, retirees, g_last, available, g_uncollected, td, gc>>
  BY DEF Malloc, Free
<1>2. \A x \in Addrs : heap'[x] = "retired" <=> heap[x] = "retired"
  BY DEF Malloc, Free, IInv, TypeOK
<1>3. \A t \in Threads :
         td[t].pc \in {"read", "cas", "pop", "unref"} => td[t].begin = td[t].end
  BY DEF AddrInv, RestInv
<1> QED
  BY <1>1, <1>2, <1>3, QuietKeeps DEF Overran

LEMMA StutterKeeps ==
    ASSUME IInv, AddrInv, UNCHANGED vars
    PROVE  AddrInv'
<1>1. \A t \in Threads :
         td[t].pc \in {"read", "cas", "pop", "unref"} => td[t].begin = td[t].end
  BY DEF AddrInv, RestInv
<1> QED
  BY <1>1, QuietKeeps DEF Overran, vars

\* A thread that only moves its pc.
Moves(t, c, n) == td' = [td EXCEPT ![t].pc = c, ![t].seen = n]

LEMMA MoveKeeps ==
    ASSUME IInv, AddrInv, NEW t \in Threads, NEW c, NEW n, Moves(t, c, n),
           td[t].pc # "wild", td[t].pc # "free", td[t].pc # "take" \/ c = "wild", c # "free",
           c \in {"read", "cas", "pop", "unref"} => td[t].begin = td[t].end,
           UNCHANGED <<heap, buf, retirees, g_uncollected, gc>>
    PROVE  AddrInv'
<1>1. td \in [Threads -> Thread]
  BY Types DEF IInv
<1>2. \A u \in Threads :
         /\ td'[u].ab = td[u].ab /\ td'[u].begin = td[u].begin
         /\ td'[u].end = td[u].end /\ td'[u].s = td[u].s
         /\ td'[u].pc = IF u = t THEN c ELSE td[u].pc
  BY <1>1 DEF Thread, Moves
<1>3. \A u \in Threads :
         /\ td'[u].pc = "free" <=> td[u].pc = "free"
         /\ Overran(u) => Overran(u)'
         /\ td'[u].pc \in {"read", "cas", "pop", "unref"} => td[u].begin = td[u].end
  BY <1>2 DEF Overran, AddrInv, RestInv
<1> QED
  BY <1>2, <1>3, QuietKeeps

LEMMA MovesKeeps ==
    ASSUME IInv, AddrInv, NEW t \in Threads,
           CheckRange(t) \/ ReadFreeIdx(t) \/ TakeBeyond(t) \/ ThreadExit(t)
    PROVE  AddrInv'
<1>1. td \in [Threads -> Thread]
  BY Types DEF IInv
<1>2. \A c : [td EXCEPT ![t].pc = c] = [td EXCEPT ![t].pc = c, ![t].seen = td[t].seen]
  BY <1>1 DEF Thread
<1>3. CASE CheckRange(t)
  <2>1. PICK c \in {"pop", "read"} : td' = [td EXCEPT ![t].pc = c]
    BY <1>3 DEF CheckRange
  <2>2. Moves(t, c, td[t].seen)
    BY <1>2, <2>1 DEF Moves
  <2> QED
    BY <1>3, <2>2, MoveKeeps DEF CheckRange
<1>4. CASE ReadFreeIdx(t)
  <2>1. Moves(t, "cas", buf[td[t].ab].free_idx)
    BY <1>1, <1>4 DEF ReadFreeIdx, Thread, Moves
  <2>2. td[t].begin = td[t].end
    BY <1>4 DEF ReadFreeIdx, AddrInv, RestInv
  <2> QED
    BY <1>4, <2>1, <2>2, MoveKeeps DEF ReadFreeIdx
<1>5. CASE TakeBeyond(t)
  <2>1. Moves(t, "wild", td[t].seen)
    BY <1>2, <1>5 DEF TakeBeyond, Moves
  <2> QED
    BY <1>5, <2>1, MoveKeeps DEF TakeBeyond, AtSlot
<1>6. CASE ThreadExit(t)
  <2>1. Moves(t, "exited", td[t].seen)
    BY <1>2, <1>6 DEF ThreadExit, Moves
  <2> QED
    BY <1>6, <2>1, MoveKeeps DEF ThreadExit
<1> QED
  BY <1>3, <1>4, <1>5, <1>6

LEMMA GetRetireeKeeps ==
    ASSUME IInv, AddrInv, NEW t \in Threads, GetRetiree(t)
    PROVE  AddrInv'
<1>1. /\ td \in [Threads -> Thread] /\ buf \in [Buffers -> Buffer]
      /\ Elems(retirees) \subseteq Buffers /\ retirees \in Seq(Buffers)
  BY Types DEF IInv
<1>2. PICK b \in Buffers : b = Head(retirees) /\ b \in Elems(retirees)
  BY <1>1 DEF GetRetiree, Elems
<1>3. /\ td' = [td EXCEPT ![t].ab = b] /\ td[t].ab = NULL /\ td[t].pc = "idle"
      /\ buf' = [buf EXCEPT ![b].ref_count = @ + 1]
      /\ UNCHANGED <<heap, retirees, g_uncollected, gc>>
  BY <1>2 DEF GetRetiree
<1>4. \A u \in Threads :
         /\ td'[u].ab = IF u = t THEN b ELSE td[u].ab
         /\ td'[u].begin = td[u].begin /\ td'[u].end = td[u].end
         /\ td'[u].s = td[u].s /\ td'[u].pc = td[u].pc
  BY <1>1, <1>3 DEF Thread
<1>5. \A x \in Buffers : /\ buf'[x].slots = buf[x].slots
                         /\ buf'[x].n_addrs = buf[x].n_addrs
                         /\ buf'[x].free_idx = buf[x].free_idx
  BY <1>1, <1>3 DEF Buffer
<1>6. td[t].begin = 0 /\ td[t].end = 0
  BY <1>3 DEF AddrInv, RestInv
<1>7. \A u \in Threads : td[u].ab # NULL => td[u].ab \in Buffers
  BY <1>1 DEF Thread
<1>8. RestInv'
  BY <1>2, <1>3, <1>4, <1>5, <1>6, <1>7, NullAssumption DEF AddrInv, RestInv, Spent
<1>9. ASSUME NoOverrun' PROVE RangeInv' /\ SlotInv'
  <2>1. RangeInv /\ SlotInv
    BY <1>4, <1>9 DEF AddrInv, NoOverrun, Overran
  <2>2. \A u \in Threads : td[u].begin \in Nat /\ td[u].end \in Nat
    BY <1>1 DEF Thread
  <2>3. buf[b].free_idx \in Nat /\ buf[b].n_addrs \in Nat
    BY <1>1 DEF Buffer
  <2>4. RangeInv'
    BY <1>4, <1>5, <1>6, <1>7, <2>1, <2>2, <2>3 DEF RangeInv
  <2>5. \A x \in Buffers, i \in Index : InList(x, i)' <=> InList(x, i)
    BY <1>3, <1>5 DEF InList
  <2>6. \A u \in Threads, x \in Buffers, i \in Index : InRange(u, x, i)' <=> InRange(u, x, i)
    BY <1>3, <1>4, <1>5, <1>6, NullAssumption DEF InRange, Index
  <2> QED
    BY <1>3, <1>4, <1>5, <2>1, <2>4, <2>5, <2>6, QuietSlots
<1> QED
  BY <1>8, <1>9 DEF AddrInv

\* What leaves the list is spent: no slot of it waits there.
LEMMA PopRetireeKeeps ==
    ASSUME IInv, AddrInv, NEW t \in Threads, PopRetiree(t)
    PROVE  AddrInv'
<1>1. /\ td \in [Threads -> Thread] /\ buf \in [Buffers -> Buffer]
      /\ retirees \in Seq(Buffers) /\ Distinct(retirees)
  BY Types DEF IInv, ListInv, ListSound, Distinct
<1>2. PICK b \in Buffers : b = td[t].ab /\ Spent(b)
  BY <1>1 DEF IInv, ThreadInv, PopRetiree, Thread
<1>3. /\ td' = [td EXCEPT ![t].pc = "unref"] /\ td[t].pc = "pop"
      /\ UNCHANGED <<heap, buf, g_uncollected, gc>>
  BY DEF PopRetiree
<1>4. Elems(retirees)' = Elems(retirees) \ {b}
  <2>1. CASE b \notin Elems(retirees)
    BY <1>2, <2>1 DEF PopRetiree, Elems
  <2>2. CASE b \in Elems(retirees)
    <3>1. PICK k \in 1 .. Len(retirees) : retirees[k] = b /\ retirees' = Splice(retirees, k)
      BY <1>2, <2>2 DEF PopRetiree
    <3>2. b = Head(retirees)
      BY <1>2, <2>2 DEF IInv, ListInv, ListSound
    <3>3. retirees # <<>> /\ retirees[1] = b /\ 1 \in 1 .. Len(retirees)
      BY <1>1, <3>1, <3>2
    <3>4. k = 1
      BY <1>1, <3>1, <3>3 DEF Distinct
    <3> QED
      BY <1>1, <3>1, <3>3, <3>4, SpliceHead
  <2> QED
    BY <2>1, <2>2
<1>5. \A u \in Threads :
         /\ td'[u].ab = td[u].ab /\ td'[u].begin = td[u].begin /\ td'[u].end = td[u].end
         /\ td'[u].s = td[u].s /\ td'[u].pc = IF u = t THEN "unref" ELSE td[u].pc
  BY <1>1, <1>3 DEF Thread
<1>6. td[t].begin = td[t].end
  BY <1>3 DEF AddrInv, RestInv
<1>7. RestInv'
  BY <1>2, <1>3, <1>4, <1>5, <1>6 DEF AddrInv, RestInv, Spent
<1>8. ASSUME NoOverrun' PROVE RangeInv' /\ SlotInv'
  <2>1. RangeInv /\ SlotInv
    BY <1>3, <1>5, <1>8 DEF AddrInv, NoOverrun, Overran
  <2>2. RangeInv'
    BY <1>3, <1>5, <2>1 DEF RangeInv
  <2>3. \A x \in Buffers : buf[x].free_idx \in Nat /\ buf[x].n_addrs \in Nat
    BY <1>1 DEF Buffer
  <2>4. \A x \in Buffers, i \in Index : InList(x, i)' <=> InList(x, i)
    BY <1>2, <1>3, <1>4, <2>3 DEF InList, Spent, Index
  <2>5. \A u \in Threads, x \in Buffers, i \in Index : InRange(u, x, i)' <=> InRange(u, x, i)
    BY <1>3, <1>5 DEF InRange
  <2>6. \A u \in Threads : /\ td'[u].pc = "free" <=> td[u].pc = "free"
                           /\ td'[u].s = td[u].s
    BY <1>3, <1>5
  <2> QED
    BY <1>3, <2>1, <2>2, <2>4, <2>5, <2>6, QuietSlots
<1> QED
  BY <1>7, <1>8 DEF AddrInv

\* A thread gives up a buffer when its range is used up.
LEMMA UnrefRetireeKeeps ==
    ASSUME IInv, AddrInv, NEW t \in Threads, UnrefRetiree(t)
    PROVE  AddrInv'
<1>1. td \in [Threads -> Thread] /\ buf \in [Buffers -> Buffer]
  BY Types DEF IInv
<1>2. PICK b \in Buffers : b = td[t].ab
  BY <1>1 DEF IInv, ThreadInv, UnrefRetiree, Thread
<1>3. /\ td' = [td EXCEPT ![t].ab = NULL, ![t].begin = 0, ![t].end = 0, ![t].pc = "idle"]
      /\ td[t].pc = "unref" /\ buf' = [buf EXCEPT ![b].ref_count = @ - 1]
      /\ UNCHANGED <<heap, retirees, g_uncollected, gc>>
  BY <1>2 DEF UnrefRetiree
<1>4. /\ \A u \in Threads : u # t => td'[u] = td[u]
      /\ td'[t].ab = NULL /\ td'[t].begin = 0 /\ td'[t].end = 0 /\ td'[t].pc = "idle"
      /\ td'[t].s = td[t].s
  BY <1>1, <1>3 DEF Thread
<1>5. \A x \in Buffers : /\ buf'[x].slots = buf[x].slots
                         /\ buf'[x].n_addrs = buf[x].n_addrs
                         /\ buf'[x].free_idx = buf[x].free_idx
  BY <1>1, <1>3 DEF Buffer
<1>6. td[t].begin = td[t].end
  BY <1>3 DEF AddrInv, RestInv
<1>7. \A u \in Threads : /\ td[u].ab # NULL => td[u].ab \in Buffers
                         /\ td[u].begin \in Nat /\ td[u].end \in Nat
  BY <1>1 DEF Thread
<1>8. RestInv'
  <2>1. td[t].pc = "unref" /\ retirees' = retirees
    BY <1>3
  <2>2. ASSUME NEW u \in Threads, u # t
        PROVE  /\ td'[u].pc \in {"read", "cas", "pop", "unref"} => td'[u].begin = td'[u].end
               /\ td'[u].ab = NULL => td'[u].begin = 0 /\ td'[u].end = 0
               /\ td'[u].ab # NULL /\ td'[u].ab \notin Elems(retirees') => Spent(td[u].ab)'
    BY <1>4, <1>5, <1>7, <2>1, <2>2 DEF AddrInv, RestInv, Spent
  <2> QED
    BY <1>4, <2>2 DEF RestInv
<1>9. ASSUME NoOverrun' PROVE RangeInv' /\ SlotInv'
  <2>1. \A u \in Threads : Overran(u) => Overran(u)'
    <3>1. ~Overran(t)
      BY <1>3, <1>6, <1>7 DEF Overran
    <3> QED
      BY <1>4, <3>1 DEF Overran
  <2>2. RangeInv /\ SlotInv
    BY <1>9, <2>1 DEF AddrInv, NoOverrun
  <2>3. RangeInv'
    BY <1>4, <1>5, <1>7, <2>2 DEF RangeInv
  <2>4. \A x \in Buffers, i \in Index : InList(x, i)' <=> InList(x, i)
    BY <1>3, <1>5 DEF InList
  <2>5. \A u \in Threads, x \in Buffers, i \in Index : InRange(u, x, i)' <=> InRange(u, x, i)
    BY <1>4, <1>5, <1>6, <1>7, NullAssumption DEF InRange, Index
  <2>6. \A u \in Threads : /\ td'[u].pc = "free" <=> td[u].pc = "free"
                           /\ td'[u].s = td[u].s
    BY <1>3, <1>4
  <2> QED
    BY <1>3, <1>5, <2>2, <2>3, <2>4, <2>5, <2>6, QuietSlots
<1> QED
  BY <1>8, <1>9 DEF AddrInv

\* A claimed range was the front of what is not handed out, in the list: its slots
\* wait as before, now for the thread.
LEMMA ClaimRangeKeeps ==
    ASSUME IInv, AddrInv, NEW t \in Threads, ClaimRange(t)
    PROVE  AddrInv'
<1>1. td \in [Threads -> Thread] /\ buf \in [Buffers -> Buffer]
  BY Types DEF IInv
<1>2. PICK b \in Buffers : b = td[t].ab
  BY <1>1 DEF IInv, ThreadInv, ClaimRange, Thread
<1>3. /\ td[t].pc = "cas" /\ td[t].begin = td[t].end
      /\ UNCHANGED <<heap, retirees, g_uncollected, gc>>
  BY DEF ClaimRange, AddrInv, RestInv
<1>4. PICK m \in Nat : m = td[t].seen
  BY <1>1 DEF Thread
<1>5. PICK e \in Nat : e = RangeEnd(b, m) /\ e <= buf[b].n_addrs
  BY <1>1, <1>4, SizesAssumption DEF RangeEnd, MinOf, Buffer
<1>6. CASE buf[b].free_idx # m
  <2>1. Moves(t, "idle", 0) /\ UNCHANGED buf
    BY <1>2, <1>4, <1>6 DEF ClaimRange, Moves
  <2> QED
    BY <1>3, <2>1, MoveKeeps
<1>7. CASE buf[b].free_idx = m
  <2>1. /\ td' = [td EXCEPT ![t].begin = m, ![t].end = e, ![t].pc = "take", ![t].seen = 0]
        /\ buf' = [buf EXCEPT ![b].free_idx = e]
    BY <1>2, <1>4, <1>5, <1>7 DEF ClaimRange
  <2>2. /\ \A u \in Threads : u # t => td'[u] = td[u]
        /\ td'[t].begin = m /\ td'[t].end = e /\ td'[t].pc = "take"
        /\ td'[t].ab = b /\ td'[t].s = td[t].s
    BY <1>1, <1>2, <2>1 DEF Thread
  <2>3. \A x \in Buffers : /\ buf'[x].slots = buf[x].slots
                           /\ buf'[x].n_addrs = buf[x].n_addrs
                           /\ x # b => buf'[x].free_idx = buf[x].free_idx
                           /\ x = b => buf'[x].free_idx = e
    BY <1>1, <2>1 DEF Buffer
  <2>4. \A u \in Threads : /\ td[u].ab # NULL => td[u].ab \in Buffers
                           /\ td[u].begin \in Nat /\ td[u].end \in Nat
    BY <1>1 DEF Thread
  <2>5. \A x \in Buffers : Spent(x) => Spent(x)'
    <3>1. buf[b].n_addrs \in Nat /\ buf'[b].n_addrs = buf[b].n_addrs /\ buf'[b].free_idx = e
      BY <1>1, <2>3 DEF Buffer
    <3>2. m >= buf[b].n_addrs => e >= buf[b].n_addrs
      BY <1>4, <1>5, <3>1, SizesAssumption DEF RangeEnd, MinOf
    <3> QED
      BY <1>7, <2>3, <3>1, <3>2 DEF Spent
  <2>6. RestInv'
    <3>1. td'[t].ab # NULL
      BY <2>2, NullAssumption
    <3>2. ASSUME NEW u \in Threads
          PROVE  /\ td'[u].ab = td[u].ab
                 /\ td'[u].ab # NULL /\ td'[u].ab \notin Elems(retirees') => Spent(td[u].ab)'
      <4>1. td'[u].ab = td[u].ab
        BY <1>2, <2>2
      <4>2. td[u].ab # NULL /\ td[u].ab \notin Elems(retirees) => Spent(td[u].ab)
        BY DEF AddrInv, RestInv
      <4> QED
        BY <1>3, <2>4, <2>5, <4>1, <4>2 DEF Spent
    <3> QED
      BY <2>2, <3>1, <3>2 DEF RestInv, AddrInv
  <2>7. ASSUME NoOverrun' PROVE RangeInv' /\ SlotInv'
    <3>1. m < e
      BY <2>2, <2>7, <1>4, <1>5 DEF NoOverrun, Overran
    <3>2. \A u \in Threads : Overran(u) => Overran(u)'
      <4>1. ~Overran(t)
        BY <1>3, <2>4 DEF Overran
      <4> QED
        BY <2>2, <4>1 DEF Overran
    <3>3. RangeInv /\ SlotInv
      BY <2>7, <3>2 DEF AddrInv, NoOverrun
    <3>4. b \in Elems(retirees) /\ b # NULL
      <4>1. ~Spent(b)
        BY <1>1, <1>4, <1>5, <1>7, <3>1 DEF Spent, Buffer
      <4> QED
        BY <1>2, <4>1, NullAssumption DEF AddrInv, RestInv
    <3>5. \A u \in Threads : td[u].ab = b => td[u].end <= m
      BY <1>7, <3>3, <3>4 DEF RangeInv
    <3>6. RangeInv'
      <4>1. \A u \in Threads : td'[u].ab = td[u].ab
        BY <1>2, <2>2
      <4>2. ASSUME NEW u \in Threads, td'[u].ab # NULL
            PROVE  /\ td'[u].end <= buf'[td'[u].ab].free_idx
                   /\ td'[u].end <= buf'[td'[u].ab].n_addrs
        <5>1. CASE u = t
          BY <1>5, <2>2, <2>3, <5>1
        <5>2. CASE u # t /\ td[u].ab = b
          BY <1>4, <1>5, <2>2, <2>3, <2>4, <3>1, <3>3, <3>4, <3>5, <5>2 DEF RangeInv
        <5>3. CASE u # t /\ td[u].ab # b
          BY <2>2, <2>3, <2>4, <3>3, <4>2, <5>3 DEF RangeInv
        <5> QED
          BY <5>1, <5>2, <5>3
      <4>3. ASSUME NEW u \in Threads, NEW v \in Threads, u # v, td'[u].ab # NULL,
                   td'[u].ab = td'[v].ab
            PROVE  td'[u].end <= td'[v].begin \/ td'[v].end <= td'[u].begin
        <5>1. CASE u = t
          BY <1>2, <2>2, <3>5, <4>1, <4>3, <5>1
        <5>2. CASE v = t
          BY <1>2, <2>2, <3>5, <4>1, <4>3, <5>2
        <5>3. CASE u # t /\ v # t
          BY <2>2, <3>3, <4>3, <5>3 DEF RangeInv
        <5> QED
          BY <5>1, <5>2, <5>3
      <4> QED
        BY <4>2, <4>3 DEF RangeInv
    <3>7. \A x \in Buffers, i \in Index : InWork(x, i)' <=> InWork(x, i)
      BY <1>3, <2>3 DEF InWork
    <3>8. \A x \in Buffers, i \in Index : InKept(x, i)' <=> InKept(x, i)
      BY <1>3, <2>3 DEF InKept
    <3>9. \A u \in Threads, x \in Buffers, i \in Index :
             /\ u # t => (InRange(u, x, i)' <=> InRange(u, x, i))
             /\ ~InRange(t, x, i)
             /\ InRange(t, x, i)' <=>
                   x = b /\ m <= i /\ i < e /\ buf[b].slots[i].tag = "clean"
      <4>1. \A i \in Index : ~ (td[t].begin <= i /\ i < td[t].end)
        BY <1>3, <2>4 DEF Index
      <4> QED
        BY <2>2, <2>3, <4>1 DEF InRange
    <3>10. \A x \in Buffers, i \in Index :
              /\ x # b => (InList(x, i)' <=> InList(x, i))
              /\ InList(b, i)' <=>
                    e <= i /\ i < buf[b].n_addrs /\ buf[b].slots[i].tag = "clean"
              /\ InList(b, i) <=>
                    m <= i /\ i < buf[b].n_addrs /\ buf[b].slots[i].tag = "clean"
      BY <1>3, <1>7, <2>3, <3>4 DEF InList
    <3>11. ASSUME NEW x \in Buffers, NEW i \in Index
           PROVE  (InList(x, i) \/ \E u \in Threads : InRange(u, x, i))'
                     <=> (InList(x, i) \/ \E u \in Threads : InRange(u, x, i))
      <4>1. (\E u \in Threads : InRange(u, x, i)')
               <=> \/ InRange(t, x, i)'
                   \/ \E u \in Threads : InRange(u, x, i)
        BY <3>9
      <4>2. InList(x, i) <=> InList(x, i)' \/ InRange(t, x, i)'
        <5>1. i \in Nat /\ buf[b].n_addrs \in Nat
          BY <1>1 DEF Index, Buffer
        <5> QED
          BY <1>5, <3>1, <3>9, <3>10, <5>1
      <4> QED
        BY <4>1, <4>2
    <3>12. \A x \in Buffers, i \in Index : Waits(x, i)' <=> Waits(x, i)
      BY <3>7, <3>8, <3>11 DEF Waits
    <3>13. \A x \in Buffers, i \in Index : Waits(x, i) =>
              At(x, i)' = At(x, i) /\ buf'[x].slots[i].tag \in {"clean", "marked"}
      BY <2>3, <3>3 DEF At, SlotInv, RetiredInv
    <3>14. \A u \in Threads : /\ td'[u].pc = "free" => td'[u].s.tag # "marked"
                              /\ InHand(u)' <=> InHand(u)
                              /\ InHand(u) => td'[u].s.addr = td[u].s.addr
      BY <1>3, <2>2, <3>3 DEF InHand, SlotInv, RetiredInv
    <3> QED
      BY <1>3, <3>3, <3>6, <3>12, <3>13, <3>14, SlotsStay
  <2> QED
    BY <2>6, <2>7 DEF AddrInv
<1> QED
  BY <1>6, <1>7

\* A slot is taken by the one thread in whose range it is, and from then on the
\* thread has its address in hand.
LEMMA TakeSlotKeeps ==
    ASSUME IInv, AddrInv, NEW t \in Threads, TakeSlot(t)
    PROVE  AddrInv'
<1>1. td \in [Threads -> Thread] /\ buf \in [Buffers -> Buffer] /\ OwnedInv
  BY Types DEF IInv
<1>2. PICK b \in Buffers : b = td[t].ab
  BY <1>1 DEF IInv, ThreadInv, TakeSlot, AtSlot, Thread
<1>3. PICK k \in Nat : k = td[t].begin
  BY <1>1 DEF Thread
<1>4. /\ td[t].pc = "take" \/ (td[t].pc = "idle" /\ td[t].begin # td[t].end)
      /\ UNCHANGED <<heap, retirees, g_uncollected, gc>>
  BY DEF TakeSlot, AtSlot
<1>5. PICK s \in Slot : s = buf[b].slots[k]
  <2>1. k < buf[b].capacity
    BY <1>2, <1>3 DEF TakeSlot
  <2>2. k \in Index /\ buf[b].slots \in [Index -> Slot]
    BY <1>1, <2>1, SizesAssumption DEF Index, Buffer
  <2> QED
    BY <2>2
<1>6. \A u \in Threads : /\ td[u].ab # NULL => td[u].ab \in Buffers
                         /\ td[u].begin \in Nat /\ td[u].end \in Nat
  BY <1>1 DEF Thread
<1>7. /\ \A u \in Threads : u # t => td'[u] = td[u]
      /\ td'[t].begin = k + 1 /\ td'[t].end = td[t].end /\ td'[t].ab = b
      /\ s.tag = "marked" => td'[t].pc = "idle" /\ td'[t].s = td[t].s /\ UNCHANGED buf
      /\ s.tag # "marked" => td'[t].pc = "free" /\ td'[t].s = s
                             /\ buf' = [buf EXCEPT ![b].slots[k] = Gone]
  <2>1. CASE s.tag = "marked"
    <3>1. td' = [td EXCEPT ![t].begin = k + 1, ![t].pc = "idle"] /\ UNCHANGED buf
      BY <1>2, <1>3, <1>5, <2>1 DEF TakeSlot
    <3> QED
      BY <1>1, <1>2, <2>1, <3>1 DEF Thread
  <2>2. CASE s.tag # "marked"
    <3>1. /\ td' = [td EXCEPT ![t].begin = k + 1, ![t].pc = "free", ![t].s = s]
          /\ buf' = [buf EXCEPT ![b].slots[k] = Gone]
      BY <1>2, <1>3, <1>5, <2>2 DEF TakeSlot
    <3> QED
      BY <1>1, <1>2, <2>2, <3>1 DEF Thread
  <2> QED
    BY <2>1, <2>2
<1>8. \A x \in Buffers : /\ buf'[x].n_addrs = buf[x].n_addrs
                         /\ buf'[x].free_idx = buf[x].free_idx
                         /\ \A j \in Index : (x # b \/ j # k \/ s.tag = "marked") =>
                               buf'[x].slots[j] = buf[x].slots[j]
                         /\ s.tag = "marked" => buf'[x].slots = buf[x].slots
  <2>1. CASE s.tag = "marked"
    BY <1>7, <2>1
  <2>2. CASE s.tag # "marked"
    BY <1>1, <1>7, <2>2 DEF Buffer
  <2> QED
    BY <2>1, <2>2
<1>9. RestInv'
  <2>1. td'[t].ab # NULL /\ td[t].ab # NULL /\ td'[t].pc \notin {"read", "cas", "pop", "unref"}
    BY <1>2, <1>7, NullAssumption
  <2>2. ASSUME NEW u \in Threads
        PROVE  td'[u].ab # NULL /\ td'[u].ab \notin Elems(retirees') => Spent(td[u].ab)'
    <3>1. td'[u].ab = td[u].ab
      BY <1>2, <1>7
    <3>2. td[u].ab # NULL /\ td[u].ab \notin Elems(retirees) => Spent(td[u].ab)
      BY DEF AddrInv, RestInv
    <3> QED
      BY <1>4, <1>6, <1>8, <3>1, <3>2 DEF Spent
  <2> QED
    BY <1>7, <2>1, <2>2 DEF RestInv, AddrInv
<1>10. ASSUME NoOverrun' PROVE RangeInv' /\ SlotInv'
  <2>1. k + 1 <= td[t].end
    BY <1>3, <1>6, <1>7, <1>10 DEF NoOverrun, Overran
  <2>2. \A u \in Threads : Overran(u) => Overran(u)'
    <3>1. ~Overran(t)
      BY <1>3, <1>4, <1>6, <2>1 DEF Overran
    <3> QED
      BY <1>7, <3>1 DEF Overran
  <2>3. RangeInv /\ SlotInv
    BY <1>10, <2>2 DEF AddrInv, NoOverrun
  <2>4. RangeInv'
    <3>1. \A u \in Threads : /\ td'[u].ab = td[u].ab /\ td'[u].end = td[u].end
                             /\ td[u].begin <= td'[u].begin /\ td'[u].begin \in Nat
      BY <1>2, <1>3, <1>6, <1>7
    <3>2. \A u \in Threads : td'[u].ab # NULL =>
             /\ td'[u].end <= buf'[td'[u].ab].free_idx
             /\ td'[u].end <= buf'[td'[u].ab].n_addrs
      BY <1>6, <1>8, <2>3, <3>1 DEF RangeInv
    <3>3. ASSUME NEW u \in Threads, NEW v \in Threads, u # v, td'[u].ab # NULL,
                 td'[u].ab = td'[v].ab
          PROVE  td'[u].end <= td'[v].begin \/ td'[v].end <= td'[u].begin
      <4>1. td[u].end <= td[v].begin \/ td[v].end <= td[u].begin
        BY <2>3, <3>1, <3>3 DEF RangeInv
      <4> QED
        BY <1>6, <3>1, <4>1
    <3> QED
      BY <3>2, <3>3 DEF RangeInv
  <2>5. k \in Index /\ td[t].end <= buf[b].n_addrs
    <3>1. td[t].end <= buf[b].n_addrs
      BY <1>2, <2>3, NullAssumption DEF RangeInv
    <3> QED
      BY <1>1, <1>6, <2>1, <3>1, SizesAssumption DEF Index, Buffer
  <2>6. CASE s.tag = "marked"
    <3>1. \A x \in Buffers, i \in Index : InList(x, i)' <=> InList(x, i)
      BY <1>4, <1>8, <2>6 DEF InList
    <3>2. \A u \in Threads, x \in Buffers, i \in Index : InRange(u, x, i)' <=> InRange(u, x, i)
      <4>1. ASSUME NEW i \in Index, i # k PROVE td[t].begin <= i <=> td'[t].begin <= i
        BY <1>3, <1>7, <4>1 DEF Index
      <4>2. \A x \in Buffers, i \in Index : InRange(t, x, i)' <=> InRange(t, x, i)
        BY <1>2, <1>5, <1>7, <1>8, <2>6, <4>1 DEF InRange
      <4> QED
        BY <1>7, <1>8, <2>6, <4>2 DEF InRange
    <3>3. \A u \in Threads : /\ td'[u].pc = "free" <=> td[u].pc = "free"
                             /\ td'[u].s = td[u].s
      BY <1>4, <1>7, <2>6
    <3> QED
      BY <1>4, <1>8, <2>3, <2>4, <2>6, <3>1, <3>2, <3>3, QuietSlots
  <2>7. CASE s.tag # "marked"
    <3>1. buf'[b].slots[k] = Gone
      BY <1>1, <1>7, <2>5, <2>7 DEF Buffer
    <3>2. b # g_uncollected /\ ~(b = gc.working /\ gc.pc \in {"scan", "push"})
      <4>1. InUse(b)
        BY <1>2 DEF InUse, Held
      <4> QED
        BY <1>1, <4>1 DEF OwnedInv, Owned
    <3>3. ~Waits(b, k)'
      BY <1>4, <3>1, <3>2 DEF Waits, InWork, InKept, InList, InRange, Gone
    <3>4. ASSUME NEW x \in Buffers, NEW j \in Index, x # b \/ j # k
          PROVE  Waits(x, j)' <=> Waits(x, j)
      <4>1. /\ buf'[x].slots[j] = buf[x].slots[j] /\ buf'[x].n_addrs = buf[x].n_addrs
            /\ buf'[x].free_idx = buf[x].free_idx
        BY <1>8, <3>4
      <4>2. InWork(x, j)' <=> InWork(x, j)
        BY <1>4, <4>1 DEF InWork
      <4>3. InKept(x, j)' <=> InKept(x, j)
        BY <1>4, <4>1 DEF InKept
      <4>4. InList(x, j)' <=> InList(x, j)
        BY <1>4, <4>1 DEF InList
      <4>5. InRange(t, x, j)' <=> InRange(t, x, j)
        <5>1. x = b => (td[t].begin <= j <=> td'[t].begin <= j)
          BY <1>3, <1>7, <3>4 DEF Index
        <5> QED
          BY <1>2, <1>7, <4>1, <5>1 DEF InRange
      <4>6. \A u \in Threads : InRange(u, x, j)' <=> InRange(u, x, j)
        BY <1>7, <4>1, <4>5 DEF InRange
      <4> QED
        BY <4>2, <4>3, <4>4, <4>6 DEF Waits
    <3>5. Waits(b, k) <=> s.tag = "clean"
      <4>1. s.tag = "clean" => InRange(t, b, k)
        BY <1>2, <1>3, <1>5, <1>6, <2>1 DEF InRange
      <4>2. Waits(b, k) => s.tag = "clean"
        BY <1>5, <2>3, <2>5, <2>7 DEF SlotInv, RetiredInv
      <4> QED
        BY <4>1, <4>2 DEF Waits
    <3>6. \A x \in Buffers, j \in Index : Waits(x, j)' =>
             /\ Waits(x, j) /\ (x # b \/ j # k)
             /\ At(x, j)' = At(x, j) /\ buf'[x].slots[j] = buf[x].slots[j]
      BY <1>8, <3>3, <3>4 DEF At
    <3>7. /\ \A u \in Threads : u # t => (InHand(u)' <=> InHand(u))
          /\ ~InHand(t)
          /\ InHand(t)' <=> Waits(b, k)
          /\ td'[t].s.addr = At(b, k)
      BY <1>4, <1>5, <1>7, <2>7, <3>5 DEF InHand, At
    <3>8. RetiredInv'
      <4>1. \A u \in Threads : td'[u].pc = "free" => td'[u].s.tag # "marked"
        BY <1>7, <2>3, <2>7 DEF SlotInv, RetiredInv
      <4>2. \A u \in Threads :
               InHand(u)' => td'[u].s.addr \in Addrs /\ heap'[td'[u].s.addr] = "retired"
        BY <1>4, <1>7, <2>3, <2>5, <3>7 DEF SlotInv, RetiredInv
      <4>3. \A x \in Buffers, j \in Index : Waits(x, j)' =>
               /\ buf'[x].slots[j].tag \in {"clean", "marked"}
               /\ At(x, j)' \in Addrs /\ heap'[At(x, j)'] = "retired"
        BY <1>4, <2>3, <3>6 DEF SlotInv, RetiredInv
      <4> QED
        BY <4>1, <4>2, <4>3 DEF RetiredInv
    <3>9. OnceInv'
      <4>1. OnceInv
        BY <2>3 DEF SlotInv
      <4>2. \A x, y \in Buffers, i, j \in Index :
               (Waits(x, i) /\ Waits(y, j))' /\ At(x, i)' = At(y, j)' => x = y /\ i = j
        BY <3>6, <4>1 DEF OnceInv
      <4>3. \A u \in Threads, x \in Buffers, i \in Index :
               (InHand(u) /\ Waits(x, i))' => td'[u].s.addr # At(x, i)'
        BY <1>7, <2>5, <3>6, <3>7, <4>1 DEF OnceInv
      <4>4. \A u, v \in Threads :
               (InHand(u) /\ InHand(v))' /\ td'[u].s.addr = td'[v].s.addr => u = v
        BY <1>7, <2>5, <3>7, <4>1 DEF OnceInv
      <4> QED
        BY <4>2, <4>3, <4>4 DEF OnceInv
    <3>10. KeptInv'
      <4>1. ASSUME NEW a \in Addrs, heap'[a] = "retired"
            PROVE  \/ \E x \in Buffers, j \in Index : Waits(x, j)' /\ At(x, j)' = a
                   \/ \E u \in Threads : InHand(u)' /\ td'[u].s.addr = a
        <5>1. CASE \E u \in Threads : InHand(u) /\ td[u].s.addr = a
          BY <1>7, <3>7, <5>1
        <5>2. ASSUME NEW x \in Buffers, NEW j \in Index, Waits(x, j), At(x, j) = a
              PROVE  \/ \E y \in Buffers, i \in Index : Waits(y, i)' /\ At(y, i)' = a
                     \/ \E u \in Threads : InHand(u)' /\ td'[u].s.addr = a
          <6>1. CASE x = b /\ j = k
            BY <3>7, <5>2, <6>1
          <6>2. CASE x # b \/ j # k
            BY <3>4, <3>6, <5>2, <6>2
          <6> QED
            BY <6>1, <6>2
        <5> QED
          BY <1>4, <2>3, <4>1, <5>1, <5>2 DEF SlotInv, KeptInv
      <4> QED
        BY <4>1 DEF KeptInv
    <3> QED
      BY <2>4, <3>8, <3>9, <3>10 DEF SlotInv
  <2> QED
    BY <2>6, <2>7
<1> QED
  BY <1>9, <1>10 DEF AddrInv

\* Freeing the address in hand is all that ends its retirement.
LEMMA FreeSlotKeeps ==
    ASSUME IInv, AddrInv, NEW t \in Threads, FreeSlot(t)
    PROVE  AddrInv'
<1>1. td \in [Threads -> Thread] /\ heap \in [Addrs -> {"free", "allocated", "retired"}]
  BY Types DEF IInv, TypeOK
<1>2. td[t].pc = "free" /\ UNCHANGED <<buf, retirees, g_uncollected, gc>>
  BY DEF FreeSlot
<1>3. /\ \A u \in Threads : u # t => td'[u] = td[u]
      /\ td'[t].ab = td[t].ab /\ td'[t].begin = td[t].begin /\ td'[t].end = td[t].end
      /\ td'[t].pc \in {"idle", "wild"}
  <2>1. PICK c \in {"idle", "wild"} : td' = [td EXCEPT ![t].s = Zero, ![t].pc = c]
    BY DEF FreeSlot
  <2> QED
    BY <1>1, <2>1 DEF Thread
<1>4. RestInv'
  <2>1. \A u \in Threads : td'[u].ab = td[u].ab
    BY <1>3
  <2>2. \A x : Spent(x)' = Spent(x)
    BY <1>2 DEF Spent
  <2>3. ASSUME NEW u \in Threads, u # t
        PROVE  td'[u].pc \in {"read", "cas", "pop", "unref"} => td'[u].begin = td'[u].end
    BY <1>3, <2>3 DEF AddrInv, RestInv
  <2>4. ASSUME NEW u \in Threads
        PROVE  /\ td'[u].ab = NULL => td'[u].begin = 0 /\ td'[u].end = 0
               /\ td'[u].ab # NULL /\ td'[u].ab \notin Elems(retirees') => Spent(td[u].ab)'
    BY <1>2, <1>3, <2>1 DEF AddrInv, RestInv, Spent
  <2> QED
    BY <1>3, <2>3, <2>4 DEF RestInv
<1>5. ASSUME NoOverrun' PROVE RangeInv' /\ SlotInv'
  <2>1. RangeInv /\ SlotInv
    <3>1. \A u \in Threads : Overran(u) => Overran(u)'
      BY <1>2, <1>3 DEF Overran
    <3> QED
      BY <1>5, <3>1 DEF AddrInv, NoOverrun
  <2>2. RangeInv'
    BY <1>2, <1>3, <2>1 DEF RangeInv
  <2>3. td'[t].pc = "idle"
    BY <1>3, <1>5 DEF NoOverrun, Overran
  <2>4. \A x, i : /\ InWork(x, i)' <=> InWork(x, i)
                  /\ InKept(x, i)' <=> InKept(x, i)
                  /\ InList(x, i)' <=> InList(x, i)
    BY <1>2 DEF InWork, InKept, InList
  <2>5. \A x, i : \A u \in Threads : InRange(u, x, i)' <=> InRange(u, x, i)
    BY <1>2, <1>3 DEF InRange
  <2>6. \A x, i : (Waits(x, i)' <=> Waits(x, i)) /\ At(x, i)' = At(x, i)
    BY <1>2, <2>4, <2>5 DEF Waits, At
  <2>7. /\ \A u \in Threads : u # t => (InHand(u)' <=> InHand(u)) /\ td'[u].s = td[u].s
        /\ ~InHand(t)'
    BY <1>3, <2>3 DEF InHand
  <2>8. ASSUME NEW a \in Addrs
        PROVE  heap'[a] = "retired" <=> heap[a] = "retired" /\ ~(InHand(t) /\ td[t].s.addr = a)
    <3>1. td[t].s.tag # "marked"
      BY <1>2, <2>1 DEF SlotInv, RetiredInv
    <3>2. CASE InHand(t)
      <4>1. PICK d \in Addrs : d = td[t].s.addr /\ heap[d] = "retired"
        BY <2>1, <3>2 DEF SlotInv, RetiredInv
      <4>2. heap' = [heap EXCEPT ![d] = "free"]
        BY <3>2, <4>1 DEF FreeSlot, InHand
      <4> QED
        BY <1>1, <3>2, <4>1, <4>2
    <3>3. CASE ~InHand(t)
      <4>1. heap' = heap
        BY <1>2, <3>1, <3>3 DEF FreeSlot, InHand
      <4> QED
        BY <3>3, <4>1
    <3> QED
      BY <3>2, <3>3
  <2>9. RetiredInv'
    <3>1. \A x \in Buffers, i \in Index : Waits(x, i)' =>
             /\ buf'[x].slots[i].tag \in {"clean", "marked"}
             /\ At(x, i)' \in Addrs /\ heap'[At(x, i)'] = "retired"
      BY <1>2, <2>1, <2>6, <2>8 DEF SlotInv, RetiredInv, OnceInv
    <3>2. \A u \in Threads : td'[u].pc = "free" => td'[u].s.tag # "marked"
      BY <1>3, <2>1, <2>3 DEF SlotInv, RetiredInv
    <3>3. \A u \in Threads :
             InHand(u)' => td'[u].s.addr \in Addrs /\ heap'[td'[u].s.addr] = "retired"
      BY <2>1, <2>7, <2>8 DEF SlotInv, RetiredInv, OnceInv
    <3> QED
      BY <3>1, <3>2, <3>3 DEF RetiredInv
  <2>10. OnceInv'
    BY <2>1, <2>6, <2>7 DEF SlotInv, OnceInv
  <2>11. KeptInv'
    <3>1. ASSUME NEW a \in Addrs, heap'[a] = "retired"
          PROVE  \/ \E x \in Buffers, i \in Index : Waits(x, i)' /\ At(x, i)' = a
                 \/ \E u \in Threads : InHand(u)' /\ td'[u].s.addr = a
      <4>1. heap[a] = "retired" /\ ~(InHand(t) /\ td[t].s.addr = a)
        BY <2>8, <3>1
      <4>2. \/ \E x \in Buffers, i \in Index : Waits(x, i) /\ At(x, i) = a
            \/ \E u \in Threads : InHand(u) /\ td[u].s.addr = a
        BY <2>1, <4>1 DEF SlotInv, KeptInv
      <4> QED
        BY <2>6, <2>7, <4>1, <4>2
    <3> QED
      BY <3>1 DEF KeptInv
  <2> QED
    BY <2>2, <2>9, <2>10, <2>11 DEF SlotInv
<1> QED
  BY <1>4, <1>5 DEF AddrInv

-----------------------------------------------------------------------------
(***************************************************************************)
(* The steps of the collector.  It touches buffers that it owns, and those *)
(* are in no list and in no thread's hands.                                *)
(***************************************************************************)

\* The threads see no difference when the collector leaves the buffers in use alone.
LEMMA ThreadsUntouched ==
    ASSUME IInv, AddrInv, UNCHANGED td,
           \A b \in Elems(retirees) : b \in Elems(retirees'),
           \A b \in Buffers : Held(b) => /\ buf'[b].free_idx = buf[b].free_idx
                                         /\ buf'[b].n_addrs = buf[b].n_addrs
    PROVE  /\ RestInv'
           /\ NoOverrun' => NoOverrun /\ RangeInv'
<1>1. \A t \in Threads : td[t].ab # NULL => td[t].ab \in Buffers /\ Held(td[t].ab)
  BY Types DEF IInv, Thread, Held
<1>2. RestInv'
  BY <1>1 DEF AddrInv, RestInv, Spent
<1>3. NoOverrun' => NoOverrun
  BY DEF NoOverrun, Overran
<1>4. NoOverrun' => RangeInv'
  BY <1>1, <1>3 DEF AddrInv, RangeInv
<1> QED
  BY <1>2, <1>3, <1>4

LEMMA ScanKeeps ==
    ASSUME IInv, AddrInv, NEW M \in SUBSET Index, Scan(M)
    PROVE  AddrInv'
<1>1. /\ buf \in [Buffers -> Buffer] /\ gc \in Gc /\ OwnedInv /\ CollectorInv
  BY Types DEF IInv
<1>2. PICK w \in Buffers : w = gc.working
  BY <1>1 DEF Scan, CollectorInv, Gc
<1>3. /\ gc.pc = "scan" /\ UNCHANGED <<heap, retirees, g_uncollected, td>>
      /\ gc' = [gc EXCEPT !.pc = "push"] /\ M \subseteq 0 .. (buf[w].n_addrs - 1)
      /\ buf' = [buf EXCEPT ![w].slots =
                    [i \in Index |-> IF i \in M THEN Marked(@[i].addr) ELSE @[i]]]
  BY <1>2 DEF Scan
<1>4. ~InUse(w) /\ w # g_uncollected
  BY <1>1, <1>2, <1>3, NullAssumption DEF OwnedInv, Owned, CollectorInv
<1>5. /\ gc'.pc = "push" /\ gc'.working = w
      /\ \A x \in Buffers : /\ x # w => buf'[x] = buf[x]
                            /\ buf'[x].n_addrs = buf[x].n_addrs
                            /\ buf'[x].free_idx = buf[x].free_idx
      /\ \A i \in Index : /\ buf'[w].slots[i].addr = buf[w].slots[i].addr
                          /\ buf'[w].slots[i].tag \in {"marked", buf[w].slots[i].tag}
  BY <1>1, <1>2, <1>3 DEF Buffer, Gc, Marked
<1>6. RestInv' /\ (NoOverrun' => NoOverrun /\ RangeInv')
  BY <1>3, <1>5, ThreadsUntouched
<1>7. ASSUME NoOverrun' PROVE SlotInv'
  <2>1. SlotInv
    BY <1>6, <1>7 DEF AddrInv
  <2>2. \A t \in Threads : td[t].ab # w
    BY <1>4 DEF InUse, Held
  <2>3. ASSUME NEW x \in Buffers, NEW i \in Index PROVE Waits(x, i)' <=> Waits(x, i)
    <3>1. InWork(x, i)' <=> InWork(x, i)
      BY <1>2, <1>3, <1>5 DEF InWork
    <3>2. InKept(x, i)' <=> InKept(x, i)
      BY <1>3, <1>5 DEF InKept
    <3>3. InList(x, i)' <=> InList(x, i)
      BY <1>3, <1>4, <1>5 DEF InList, InUse
    <3>4. \A t \in Threads : InRange(t, x, i)' <=> InRange(t, x, i)
      BY <1>3, <1>5, <2>2 DEF InRange
    <3> QED
      BY <3>1, <3>2, <3>3, <3>4 DEF Waits
  <2>4. \A x \in Buffers, i \in Index : Waits(x, i) =>
           At(x, i)' = At(x, i) /\ buf'[x].slots[i].tag \in {"clean", "marked"}
    BY <1>5, <2>1 DEF At, SlotInv, RetiredInv
  <2>5. \A t \in Threads : /\ td'[t].pc = "free" => td'[t].s.tag # "marked"
                           /\ InHand(t)' <=> InHand(t)
                           /\ InHand(t) => td'[t].s.addr = td[t].s.addr
    BY <1>3, <2>1 DEF InHand, SlotInv, RetiredInv
  <2> QED
    BY <1>3, <2>1, <2>3, <2>4, <2>5, SlotsStay
<1> QED
  BY <1>6, <1>7 DEF AddrInv

\* Publishing a buffer: its marked slots wait for the carry, its clean ones in the list.
LEMMA PushBackKeeps ==
    ASSUME IInv, AddrInv, PushBack
    PROVE  AddrInv'
<1>1. /\ buf \in [Buffers -> Buffer] /\ gc \in Gc /\ retirees \in Seq(Buffers)
      /\ OwnedInv /\ CollectorInv /\ Distinct(retirees)
      /\ g_last = IF retirees = <<>> THEN NULL ELSE retirees[Len(retirees)]
  BY Types DEF IInv, ListInv, ListSound, Distinct
<1>2. PICK w \in Buffers : w = gc.working
  BY <1>1 DEF PushBack, CollectorInv, Gc
<1>3. /\ gc.pc = "push" /\ gc' = [gc EXCEPT !.pc = "make"]
      /\ buf' = [buf EXCEPT ![w].ref_count = 1, ![w].free_idx = 0]
      /\ retirees' = AppendAfter(retirees, g_last, w)
      /\ UNCHANGED <<heap, g_uncollected, td>>
  BY <1>2 DEF PushBack
<1>4. ~InUse(w) /\ w # g_uncollected
  BY <1>1, <1>2, <1>3, NullAssumption DEF OwnedInv, Owned, CollectorInv
<1>5. Elems(retirees') = Elems(retirees) \cup {w} /\ w \notin Elems(retirees)
  <2>1. retirees' = Append(retirees, w)
    BY <1>1, <1>3, AppendAtEnd
  <2> QED
    BY <1>1, <1>4, <2>1, AppendElems DEF InUse
<1>6. /\ gc'.pc = "make" /\ gc'.working = w
      /\ \A x \in Buffers : /\ x # w => buf'[x] = buf[x]
                            /\ buf'[x].n_addrs = buf[x].n_addrs
                            /\ buf'[x].slots = buf[x].slots
      /\ buf'[w].free_idx = 0
  BY <1>1, <1>2, <1>3 DEF Buffer, Gc
<1>7. \A t \in Threads : td[t].ab # w
  BY <1>4 DEF InUse, Held
<1>8. RestInv' /\ (NoOverrun' => NoOverrun /\ RangeInv')
  <2>1. \A x \in Buffers : Held(x) => /\ buf'[x].free_idx = buf[x].free_idx
                                      /\ buf'[x].n_addrs = buf[x].n_addrs
    BY <1>6, <1>7 DEF Held
  <2> QED
    BY <1>3, <1>5, <2>1, ThreadsUntouched
<1>9. ASSUME NoOverrun' PROVE SlotInv'
  <2>1. SlotInv
    BY <1>8, <1>9 DEF AddrInv
  <2>2. ASSUME NEW x \in Buffers, NEW i \in Index, x # w PROVE Waits(x, i)' <=> Waits(x, i)
    <3>1. ~InWork(x, i)' /\ ~InWork(x, i)
      BY <1>2, <1>6, <2>2 DEF InWork
    <3>2. InKept(x, i)' <=> InKept(x, i)
      BY <1>3, <1>6 DEF InKept
    <3>3. InList(x, i)' <=> InList(x, i)
      BY <1>5, <1>6, <2>2 DEF InList
    <3>4. \A t \in Threads : InRange(t, x, i)' <=> InRange(t, x, i)
      BY <1>3, <1>6 DEF InRange
    <3> QED
      BY <3>1, <3>2, <3>3, <3>4 DEF Waits
  <2>3. ASSUME NEW i \in Index PROVE Waits(w, i)' <=> Waits(w, i)
    <3>1. /\ ~InKept(w, i) /\ ~InKept(w, i)' /\ ~InList(w, i)
          /\ \A t \in Threads : ~InRange(t, w, i) /\ ~InRange(t, w, i)'
      BY <1>3, <1>4, <1>5, <1>7 DEF InKept, InList, InRange
    <3>2. InWork(w, i) <=> i < buf[w].n_addrs
      BY <1>2, <1>3 DEF InWork
    <3>3. InWork(w, i)' <=> i < buf[w].n_addrs /\ buf[w].slots[i].tag = "marked"
      BY <1>6 DEF InWork
    <3>4. InList(w, i)' <=> i < buf[w].n_addrs /\ buf[w].slots[i].tag = "clean"
      BY <1>5, <1>6 DEF InList, Index
    <3>5. InWork(w, i) => buf[w].slots[i].tag \in {"clean", "marked"}
      BY <2>1 DEF SlotInv, RetiredInv, Waits
    <3> QED
      BY <3>1, <3>2, <3>3, <3>4, <3>5 DEF Waits
  <2>4. \A x \in Buffers, i \in Index : Waits(x, i)' <=> Waits(x, i)
    BY <2>2, <2>3
  <2>5. \A x \in Buffers, i \in Index : Waits(x, i) =>
           At(x, i)' = At(x, i) /\ buf'[x].slots[i].tag \in {"clean", "marked"}
    BY <1>6, <2>1 DEF At, SlotInv, RetiredInv
  <2>6. \A t \in Threads : /\ td'[t].pc = "free" => td'[t].s.tag # "marked"
                           /\ InHand(t)' <=> InHand(t)
                           /\ InHand(t) => td'[t].s.addr = td[t].s.addr
    BY <1>3, <2>1 DEF InHand, SlotInv, RetiredInv
  <2> QED
    BY <1>3, <2>1, <2>4, <2>5, <2>6, SlotsStay
<1> QED
  BY <1>8, <1>9 DEF AddrInv

\* The new buffer for the uncollected addresses is empty, and those that are unmapped
\* for it were in the pool.
LEMMA MakeUncollectedKeeps ==
    ASSUME IInv, AddrInv, MakeUncollected
    PROVE  AddrInv'
<1>1. /\ UseInv /\ PageInv /\ OwnedInv /\ CollectorInv
      /\ buf \in [Buffers -> Buffer] /\ gc \in Gc /\ Elems(retirees) \subseteq Buffers
      /\ Elems(available) \subseteq Buffers
  BY Types DEF IInv
<1>2. PICK w \in Buffers : w = gc.working /\ Carrying(w) /\ InUse(w)
  BY <1>1 DEF MakeUncollected, CollectorInv, Gc, Carrying, InUse
<1>3. PICK req \in Nat \ {0} : req = buf[w].capacity /\ RoundUp(req) <= MaxCapacity
  <2>1. IsMapped(w) /\ RoundUp(buf[w].capacity) = buf[w].capacity
    BY <1>1, <1>2 DEF UseInv, PageInv
  <2> QED
    BY <1>1, <2>1, SizesAssumption DEF IsMapped, Buffer
<1>4. PICK ab \in AggregateChoices(req) :
         buf' = BufAfterMake(req, ab, Aggregate(req, ab)) /\ g_uncollected' = ab
  BY <1>2, <1>3 DEF MakeUncollected
<1>5. /\ gc' = [gc EXCEPT !.pc = "carry", !.i = 0] /\ gc.pc = "make"
      /\ g_uncollected = NULL /\ UNCHANGED <<heap, retirees, td>>
  BY <1>1 DEF MakeUncollected, CollectorInv
<1>6. /\ ab \in Buffers /\ ~InUse(ab) /\ ab # w
      /\ Aggregate(req, ab) \in Buffer /\ Aggregate(req, ab).n_addrs = 0
      /\ RoundUp(Aggregate(req, ab).capacity) = Aggregate(req, ab).capacity
  BY <1>2, <1>3, MakeProperties
<1>7. PICK c \in Buffer : /\ c = Aggregate(req, ab) /\ c.n_addrs = 0
                          /\ RoundUp(c.capacity) = c.capacity
  BY <1>6
<1>8. /\ buf'[ab] = c
      /\ \A x \in Buffers : (x \notin Elems(available) /\ x # ab) => buf'[x] = buf[x]
  BY <1>3, <1>4, <1>7, MakeFrame
<1>9. \A x \in Buffers : InUse(x) => buf'[x] = buf[x]
  BY <1>1, <1>6, <1>8 DEF OwnedInv, Owned
<1>10. gc'.pc = "carry" /\ gc'.working = w /\ gc'.i = 0
  BY <1>1, <1>2, <1>5 DEF Gc
<1>11. RestInv' /\ (NoOverrun' => NoOverrun /\ RangeInv')
  BY <1>5, <1>9, ThreadsUntouched DEF InUse
<1>12. ASSUME NoOverrun' PROVE SlotInv'
  <2>1. SlotInv
    BY <1>11, <1>12 DEF AddrInv
  <2>2. ASSUME NEW x \in Buffers, NEW i \in Index PROVE Waits(x, i)' <=> Waits(x, i)
    <3>1. InWork(x, i)' <=> InWork(x, i)
      BY <1>2, <1>5, <1>9, <1>10 DEF InWork, Index
    <3>2. ~InKept(x, i)' /\ ~InKept(x, i)
      BY <1>4, <1>5, <1>7, <1>8, NullAssumption DEF InKept, Index
    <3>3. InList(x, i)' <=> InList(x, i)
      BY <1>5, <1>9 DEF InList, InUse
    <3>4. \A t \in Threads : InRange(t, x, i)' <=> InRange(t, x, i)
      BY <1>5, <1>9 DEF InRange, InUse, Held
    <3> QED
      BY <3>1, <3>2, <3>3, <3>4 DEF Waits
  <2>3. \A x \in Buffers, i \in Index : Waits(x, i) => InUse(x)
    BY <1>2, <1>5, NullAssumption DEF Waits, InWork, InKept, InList, InRange, InUse, Held
  <2>4. \A x \in Buffers, i \in Index : Waits(x, i) =>
           At(x, i)' = At(x, i) /\ buf'[x].slots[i].tag \in {"clean", "marked"}
    BY <1>9, <2>1, <2>3 DEF At, SlotInv, RetiredInv
  <2>5. \A t \in Threads : /\ td'[t].pc = "free" => td'[t].s.tag # "marked"
                           /\ InHand(t)' <=> InHand(t)
                           /\ InHand(t) => td'[t].s.addr = td[t].s.addr
    BY <1>5, <2>1 DEF InHand, SlotInv, RetiredInv
  <2> QED
    BY <1>5, <2>1, <2>2, <2>4, <2>5, SlotsStay
<1> QED
  BY <1>11, <1>12 DEF AddrInv

\* When the collector is through with its buffer, no marked slot of it waits.
LEMMA UnrefWorkingKeeps ==
    ASSUME IInv, AddrInv, UnrefWorking
    PROVE  AddrInv'
<1>1. buf \in [Buffers -> Buffer] /\ gc \in Gc /\ CollectorInv
  BY Types DEF IInv
<1>2. PICK w \in Buffers : w = gc.working
  BY <1>1 DEF UnrefWorking, CollectorInv, Gc
<1>3. /\ gc.pc = "carry" /\ gc.i >= buf[w].n_addrs
      /\ buf' = [buf EXCEPT ![w].ref_count = @ - 1]
      /\ gc' = [gc EXCEPT !.pc = "wait", !.working = NULL, !.i = 0]
      /\ UNCHANGED <<heap, retirees, g_uncollected, td>>
  BY <1>2 DEF UnrefWorking
<1>4. /\ gc'.pc = "wait" /\ gc'.working = NULL
      /\ \A x \in Buffers : /\ buf'[x].slots = buf[x].slots
                            /\ buf'[x].n_addrs = buf[x].n_addrs
                            /\ buf'[x].free_idx = buf[x].free_idx
  BY <1>1, <1>3 DEF Buffer, Gc
<1>5. RestInv' /\ (NoOverrun' => NoOverrun /\ RangeInv')
  BY <1>3, <1>4, ThreadsUntouched
<1>6. ASSUME NoOverrun' PROVE SlotInv'
  <2>1. SlotInv
    BY <1>5, <1>6 DEF AddrInv
  <2>2. ASSUME NEW x \in Buffers, NEW i \in Index PROVE Waits(x, i)' <=> Waits(x, i)
    <3>1. ~InWork(x, i)'
      BY <1>4 DEF InWork
    <3>2. ~InWork(x, i)
      <4>1. gc.i \in Nat /\ buf[w].n_addrs \in Nat /\ i \in Nat
        BY <1>1 DEF Gc, Buffer, Index
      <4> QED
        BY <1>2, <1>3, <4>1 DEF InWork
    <3>3. InKept(x, i)' <=> InKept(x, i)
      BY <1>3, <1>4 DEF InKept
    <3>4. InList(x, i)' <=> InList(x, i)
      BY <1>3, <1>4 DEF InList
    <3>5. \A t \in Threads : InRange(t, x, i)' <=> InRange(t, x, i)
      BY <1>3, <1>4 DEF InRange
    <3> QED
      BY <3>1, <3>2, <3>3, <3>4, <3>5 DEF Waits
  <2>3. \A x \in Buffers, i \in Index : Waits(x, i) =>
           At(x, i)' = At(x, i) /\ buf'[x].slots[i].tag \in {"clean", "marked"}
    BY <1>4, <2>1 DEF At, SlotInv, RetiredInv
  <2>4. \A t \in Threads : /\ td'[t].pc = "free" => td'[t].s.tag # "marked"
                           /\ InHand(t)' <=> InHand(t)
                           /\ InHand(t) => td'[t].s.addr = td[t].s.addr
    BY <1>3, <2>1 DEF InHand, SlotInv, RetiredInv
  <2> QED
    BY <1>3, <2>1, <2>2, <2>3, <2>4, SlotsStay
<1> QED
  BY <1>5, <1>6 DEF AddrInv

\* A marked address goes from the buffer of this round to the uncollected ones.
LEMMA CarrySlotKeeps ==
    ASSUME IInv, AddrInv, CarrySlot
    PROVE  AddrInv'
<1>1. buf \in [Buffers -> Buffer] /\ gc \in Gc /\ CollectorInv /\ OwnedInv
      /\ g_uncollected \in Buffers \cup {NULL}
  BY Types DEF IInv, TypeOK
<1>2. PICK w \in Buffers, u \in Buffers : w = gc.working /\ u = g_uncollected
  BY <1>1 DEF CarrySlot, CollectorInv, Gc
<1>3. PICK k \in Index : k = gc.i /\ k < buf[w].n_addrs
  <2>1. gc.i \in Nat /\ gc.i < buf[w].n_addrs /\ buf[w].n_addrs \in 0 .. MaxCapacity
    BY <1>1, <1>2 DEF CarrySlot, Gc, Buffer
  <2> QED
    BY <2>1, SizesAssumption DEF Index
<1>4. PICK m \in Index : m = buf[u].n_addrs
  <2>1. buf[u].n_addrs \in Nat /\ buf[u].n_addrs <= k
    BY <1>1, <1>2, <1>3 DEF CarrySlot, CollectorInv, Buffer
  <2> QED
    BY <2>1, SizesAssumption DEF Index
<1>5. PICK s : s = buf[w].slots[k]
  OBVIOUS
<1>6. /\ gc.pc = "carry" /\ gc' = [gc EXCEPT !.i = k + 1]
      /\ buf' = IF s.tag = "marked"
                THEN [buf EXCEPT ![u].slots[m] = Clean(s.addr), ![u].n_addrs = m + 1]
                ELSE buf
      /\ UNCHANGED <<heap, retirees, g_uncollected, td>>
  BY <1>2, <1>3, <1>4, <1>5 DEF CarrySlot
<1>7. InUse(w) /\ ~InUse(u) /\ u # w
  BY <1>1, <1>2, <1>6 DEF OwnedInv, Owned, InUse, Carrying
<1>8. /\ gc.pc = "carry" /\ gc'.pc = "carry" /\ gc'.working = w /\ gc'.i = k + 1
      /\ k \in Nat /\ m \in Nat
  BY <1>1, <1>2, <1>6 DEF Gc, Index
<1>9. /\ \A x \in Buffers : x # u => buf'[x] = buf[x]
      /\ s.tag # "marked" => buf' = buf
  BY <1>1, <1>6
<1>10. RestInv' /\ (NoOverrun' => NoOverrun /\ RangeInv')
  BY <1>6, <1>7, <1>9, ThreadsUntouched DEF InUse
<1>11. ASSUME NoOverrun' PROVE SlotInv'
  <2>1. SlotInv
    BY <1>10, <1>11 DEF AddrInv
  <2>2. \A x \in Buffers : \A i : \A t \in Threads :
           x # u => (InRange(t, x, i)' <=> InRange(t, x, i))
    BY <1>6, <1>9 DEF InRange
  <2>3. \A i : \A t \in Threads : ~InRange(t, u, i)' /\ ~InRange(t, u, i)
    BY <1>6, <1>7 DEF InRange, InUse, Held
  <2>4. \A i : ~InList(u, i)' /\ ~InList(u, i)
    BY <1>6, <1>7 DEF InList, InUse
  <2>5. \A x \in Buffers : \A i : x # u => (InList(x, i)' <=> InList(x, i))
    BY <1>6, <1>9 DEF InList
  <2>6. \A i \in Index : (InWork(w, i)' <=> InWork(w, i) /\ i # k)
    <3>1. \A i \in Index : k + 1 <= i <=> k <= i /\ i # k
      BY <1>8 DEF Index
    <3>2. buf'[w] = buf[w]
      BY <1>7, <1>9
    <3> QED
      BY <1>2, <1>3, <1>8, <3>1, <3>2 DEF InWork
  <2>7. \A x, i : x # w => ~InWork(x, i)' /\ ~InWork(x, i)
    BY <1>2, <1>8 DEF InWork
  <2>8. \A x, i : x # u => ~InKept(x, i)' /\ ~InKept(x, i)
    BY <1>2, <1>6 DEF InKept
  <2>9. \A t \in Threads : InHand(t)' <=> InHand(t)
    BY <1>6 DEF InHand
  <2>10. CASE s.tag # "marked"
    <3>1. ~InWork(w, k)
      BY <1>5, <1>6, <2>10 DEF InWork
    <3>2. \A i \in Index : InKept(u, i)' <=> InKept(u, i)
      BY <1>6, <1>9, <2>10 DEF InKept
    <3>3. \A x \in Buffers, i \in Index : Waits(x, i)' <=> Waits(x, i)
      BY <2>2, <2>3, <2>4, <2>5, <2>6, <2>7, <2>8, <3>1, <3>2 DEF Waits
    <3>4. \A x \in Buffers, i \in Index : Waits(x, i) =>
             At(x, i)' = At(x, i) /\ buf'[x].slots[i].tag \in {"clean", "marked"}
      BY <1>9, <2>1, <2>10 DEF At, SlotInv, RetiredInv
    <3>5. \A t \in Threads : /\ td'[t].pc = "free" => td'[t].s.tag # "marked"
                             /\ InHand(t)' <=> InHand(t)
                             /\ InHand(t) => td'[t].s.addr = td[t].s.addr
      BY <1>6, <2>1, <2>9 DEF SlotInv, RetiredInv
    <3> QED
      BY <1>6, <2>1, <3>3, <3>4, <3>5, SlotsStay
  <2>11. CASE s.tag = "marked"
    <3>1. /\ buf'[u].n_addrs = m + 1 /\ buf'[u].slots[m] = Clean(s.addr)
          /\ \A i \in Index : i # m => buf'[u].slots[i] = buf[u].slots[i]
      <4>1. buf' = [buf EXCEPT ![u].slots[m] = Clean(s.addr), ![u].n_addrs = m + 1]
        BY <1>6, <2>11
      <4> QED
        BY <1>1, <4>1 DEF Buffer
    <3>2. Waits(w, k) /\ ~Waits(w, k)' /\ At(w, k) = s.addr
      <4>1. InWork(w, k)
        BY <1>2, <1>3, <1>5, <1>6, <1>8, <2>11 DEF InWork
      <4>2. ~InList(w, k)' /\ \A t \in Threads : ~InRange(t, w, k)'
        BY <1>5, <1>7, <1>9, <2>11 DEF InList, InRange
      <4> QED
        BY <1>5, <1>7, <2>6, <2>8, <4>1, <4>2 DEF Waits, At
    <3>3. Waits(u, m)' /\ ~Waits(u, m) /\ At(u, m)' = s.addr
      <4>1. InKept(u, m)' /\ ~InKept(u, m)
        BY <1>2, <1>4, <1>6, <1>8, <3>1 DEF InKept
      <4> QED
        BY <1>7, <2>3, <2>4, <2>7, <3>1, <4>1 DEF Waits, At, Clean
    <3>4. ASSUME NEW x \in Buffers, NEW i \in Index, ~(x = w /\ i = k), ~(x = u /\ i = m)
          PROVE  /\ Waits(x, i)' <=> Waits(x, i)
                 /\ At(x, i)' = At(x, i) /\ buf'[x].slots[i] = buf[x].slots[i]
      <4>1. buf'[x].slots[i] = buf[x].slots[i]
        BY <1>9, <3>1, <3>4
      <4>2. x = u => (InKept(u, i)' <=> InKept(u, i))
        BY <1>2, <1>4, <1>6, <1>8, <3>1, <3>4 DEF InKept, Index
      <4> QED
        BY <1>7, <2>2, <2>3, <2>4, <2>5, <2>6, <2>7, <2>8, <3>4, <4>1, <4>2 DEF Waits, At
    <3>5. \A x \in Buffers, i \in Index : Waits(x, i)' =>
             \/ x = u /\ i = m
             \/ /\ Waits(x, i) /\ ~(x = w /\ i = k) /\ At(x, i)' = At(x, i)
                /\ buf'[x].slots[i] = buf[x].slots[i]
      BY <3>2, <3>4
    <3>6. RetiredInv'
      <4>1. \A x \in Buffers, i \in Index : Waits(x, i)' =>
               /\ buf'[x].slots[i].tag \in {"clean", "marked"}
               /\ At(x, i)' \in Addrs /\ heap'[At(x, i)'] = "retired"
        <5>1. buf'[u].slots[m].tag = "clean" /\ s.addr \in Addrs /\ heap[s.addr] = "retired"
          BY <2>1, <3>1, <3>2 DEF SlotInv, RetiredInv, Clean
        <5>2. heap' = heap
          BY <1>6
        <5> QED
          BY <2>1, <3>3, <3>5, <5>1, <5>2 DEF SlotInv, RetiredInv
      <4>2. \A t \in Threads :
               /\ td'[t].pc = "free" => td'[t].s.tag # "marked"
               /\ InHand(t)' => td'[t].s.addr \in Addrs /\ heap'[td'[t].s.addr] = "retired"
        BY <1>6, <2>1, <2>9 DEF SlotInv, RetiredInv
      <4> QED
        BY <4>1, <4>2 DEF RetiredInv
    <3>7. OnceInv'
      <4>1. OnceInv
        BY <2>1 DEF SlotInv
      <4>2. \A x, y \in Buffers, i, j \in Index :
               (Waits(x, i) /\ Waits(y, j))' /\ At(x, i)' = At(y, j)' => x = y /\ i = j
        BY <3>2, <3>3, <3>5, <4>1 DEF OnceInv
      <4>3. \A t \in Threads, x \in Buffers, i \in Index :
               (InHand(t) /\ Waits(x, i))' => td'[t].s.addr # At(x, i)'
        BY <1>6, <2>9, <3>2, <3>3, <3>5, <4>1 DEF OnceInv
      <4>4. \A t, v \in Threads :
               (InHand(t) /\ InHand(v))' /\ td'[t].s.addr = td'[v].s.addr => t = v
        BY <1>6, <2>9, <4>1 DEF OnceInv
      <4> QED
        BY <4>2, <4>3, <4>4 DEF OnceInv
    <3>8. KeptInv'
      <4>1. ASSUME NEW x \in Buffers, NEW i \in Index, Waits(x, i)
            PROVE  \E y \in Buffers, j \in Index : Waits(y, j)' /\ At(y, j)' = At(x, i)
        <5>1. CASE x = w /\ i = k
          BY <3>2, <3>3, <5>1
        <5>2. CASE ~(x = w /\ i = k)
          BY <3>3, <3>4, <4>1, <5>2
        <5> QED
          BY <5>1, <5>2
      <4> QED
        BY <1>6, <2>1, <2>9, <4>1 DEF SlotInv, KeptInv
    <3> QED
      BY <3>6, <3>7, <3>8 DEF SlotInv
  <2> QED
    BY <2>10, <2>11
<1> QED
  BY <1>10, <1>11 DEF AddrInv

\* A layout has every address once.
EachOnce(f, n, T) ==
    /\ \A i \in 0 .. (n - 1) : f[i] \in T
    /\ \A a \in T : \E i \in 0 .. (n - 1) : f[i] = a
    /\ \A i, j \in 0 .. (n - 1) : f[i] = f[j] => i = j

LEMMA LayoutOnce ==
    ASSUME NEW T, NEW n \in Nat, n = Cardinality(T), NEW f \in Layouts(T)
    PROVE  EachOnce(f, n, T)
<1>1. /\ f \in [0 .. (n - 1) -> T] /\ DOMAIN f = 0 .. (n - 1)
      /\ \A a \in T : \E i \in 0 .. (n - 1) : f[i] = a
  BY DEF Layouts
<1>2. IsFiniteSet(0 .. (n - 1)) /\ Cardinality(0 .. (n - 1)) = n
  <2>1. 0 \in Int /\ n - 1 \in Int
    OBVIOUS
  <2>2. /\ IsFiniteSet(0 .. (n - 1))
        /\ Cardinality(0 .. (n - 1)) = IF 0 > n - 1 THEN 0 ELSE (n - 1) - 0 + 1
    BY <2>1, FS_Interval
  <2> QED
    BY <2>2
<1>3. f \in Surjection(0 .. (n - 1), T)
  BY <1>1 DEF Surjection
<1>4. f \in Injection(0 .. (n - 1), T)
  BY <1>2, <1>3, FS_SurjSameCardinalityImpliesInj
<1> QED
  BY <1>1, <1>4 DEF Injection, IsInjective, EachOnce

\* The buffer that a collection leaves to the scan: one that nobody used, with the new
\* addresses and the uncollected ones in it.
LEMMA CollectedBuffer ==
    ASSUME IInv, NEW S \in SUBSET Addrs, Collect(S),
           NEW n \in Nat, n = Cardinality(S \cup Carried)
    PROVE  \E w \in Buffers : \E f \in Layouts(S \cup Carried) :
              /\ w # NULL /\ ~InUse(w) /\ gc'.pc = "scan" /\ gc'.working = w
              /\ n <= MaxCapacity /\ buf'[w].n_addrs = n
              /\ \A i \in Index : i < n => buf'[w].slots[i] = Clean(f[i])
              /\ \A x \in Buffers : InUse(x) => buf'[x] = buf[x]
<1> DEFINE T == S \cup Carried
           req == MaxOf(n, DefaultCapacity)
<1>1. /\ OwnedInv /\ buf \in [Buffers -> Buffer] /\ gc \in Gc /\ available \in Seq(Buffers)
      /\ g_uncollected \in Buffers \cup {NULL} /\ Elems(available) \subseteq Buffers
  BY Types DEF IInv, TypeOK
<1>2. PICK f \in Layouts(T) :
         \/ /\ g_uncollected # NULL /\ buf[g_uncollected].capacity > n
            /\ buf' = [buf EXCEPT ![g_uncollected] = Filled(@, f, n)]
            /\ gc' = [gc EXCEPT !.pc = "scan", !.working = g_uncollected, !.round = @ + 1]
         \/ /\ RoundUp(req) <= MaxCapacity
            /\ \E ab \in AggregateChoices(req) :
                  /\ buf' = BufAfterMake(req, ab, Filled(Aggregate(req, ab), f, n))
                  /\ gc' = [gc EXCEPT !.pc = "scan", !.working = ab, !.round = @ + 1]
  BY DEF Collect
<1>3. \A c \in Buffer : /\ Filled(c, f, n).n_addrs = n
                        /\ \A i \in Index : i < n => Filled(c, f, n).slots[i] = Clean(f[i])
  BY DEF Filled, Buffer
<1> HIDE DEF T, req
<1>4. CASE /\ g_uncollected # NULL /\ buf[g_uncollected].capacity > n
           /\ buf' = [buf EXCEPT ![g_uncollected] = Filled(@, f, n)]
           /\ gc' = [gc EXCEPT !.pc = "scan", !.working = g_uncollected, !.round = @ + 1]
  <2>1. PICK b \in Buffers : b = g_uncollected /\ b # NULL /\ ~InUse(b)
    BY <1>1, <1>4 DEF OwnedInv, Owned
  <2>2. PICK c : c = Filled(buf[b], f, n)
    OBVIOUS
  <2>3. /\ buf[b] \in Buffer /\ c.n_addrs = n
        /\ \A i \in Index : i < n => c.slots[i] = Clean(f[i])
    BY <1>1, <1>3, <2>2
  <2>4. buf' = [buf EXCEPT ![b] = c]
    BY <1>4, <2>1, <2>2
  <2>5. n <= MaxCapacity
    BY <1>4, <2>1, <2>3, SizesAssumption DEF Buffer
  <2>6. gc'.pc = "scan" /\ gc'.working = b
    BY <1>1, <1>4, <2>1 DEF Gc
  <2> QED
    BY <1>1, <1>2, <2>1, <2>3, <2>4, <2>5, <2>6 DEF T
<1>5. CASE /\ RoundUp(req) <= MaxCapacity
           /\ \E ab \in AggregateChoices(req) :
                 /\ buf' = BufAfterMake(req, ab, Filled(Aggregate(req, ab), f, n))
                 /\ gc' = [gc EXCEPT !.pc = "scan", !.working = ab, !.round = @ + 1]
  <2>1. req \in Nat \ {0} /\ n <= req
    BY SizesAssumption DEF req, MaxOf
  <2>2. PICK ab \in AggregateChoices(req) :
           /\ buf' = BufAfterMake(req, ab, Filled(Aggregate(req, ab), f, n))
           /\ gc' = [gc EXCEPT !.pc = "scan", !.working = ab, !.round = @ + 1]
    BY <1>5
  <2>3. /\ ab \in Buffers /\ ~InUse(ab) /\ Aggregate(req, ab) \in Buffer
        /\ Dropped(req) \subseteq Elems(available)
    BY <1>5, <2>1, MakeProperties
  <2>4. PICK c : c = Filled(Aggregate(req, ab), f, n)
    OBVIOUS
  <2>5. c.n_addrs = n /\ \A i \in Index : i < n => c.slots[i] = Clean(f[i])
    BY <1>3, <2>3, <2>4
  <2>6. \A x \in Buffers : buf'[x] = IF x = ab THEN c
                                     ELSE IF x \in Dropped(req) THEN Unmapped ELSE buf[x]
    BY <2>2, <2>4 DEF BufAfterMake
  <2>7. \A x \in Buffers : InUse(x) => x \notin Dropped(req) /\ x # ab
    BY <1>1, <2>3 DEF OwnedInv, Owned
  <2>8. n <= MaxCapacity
    <3>1. RoundUp(req) \in Nat /\ RoundUp(req) >= req
      BY <2>1, RoundUpProperties
    <3> QED
      BY <1>5, <2>1, <3>1, SizesAssumption
  <2>9. gc'.pc = "scan" /\ gc'.working = ab
    BY <1>1, <2>2 DEF Gc
  <2> QED
    <3>1. ab # NULL /\ buf'[ab] = c
      BY <2>3, <2>6, NullAssumption
    <3>2. \A x \in Buffers : InUse(x) => buf'[x] = buf[x]
      BY <2>6, <2>7
    <3> QED
      BY <1>2, <2>3, <2>5, <2>8, <2>9, <3>1, <3>2 DEF T
<1> QED
  BY <1>2, <1>4, <1>5

\* A collection retires the new addresses and puts them and the uncollected ones where
\* the scan will look.
LEMMA CollectKeeps ==
    ASSUME IInv, AddrInv, NEW S \in SUBSET Addrs, Collect(S)
    PROVE  AddrInv'
<1>1. /\ OwnedInv /\ buf \in [Buffers -> Buffer] /\ CollectorInv
      /\ heap \in [Addrs -> {"free", "allocated", "retired"}]
      /\ g_uncollected \in Buffers \cup {NULL}
  BY Types DEF IInv, TypeOK
<1>2. PICK n \in Nat : n = Cardinality(S \cup Carried)
  BY CarriedFinite
<1>3. PICK w \in Buffers, f \in Layouts(S \cup Carried) :
         /\ w # NULL /\ ~InUse(w) /\ gc'.pc = "scan" /\ gc'.working = w
         /\ n <= MaxCapacity /\ buf'[w].n_addrs = n
         /\ \A i \in Index : i < n => buf'[w].slots[i] = Clean(f[i])
         /\ \A x \in Buffers : InUse(x) => buf'[x] = buf[x]
  BY <1>2, CollectedBuffer
<1>4. /\ gc.pc = "wait" /\ g_uncollected' = NULL /\ UNCHANGED <<retirees, td>>
      /\ \A a \in S : heap[a] = "allocated"
      /\ heap' = [a \in Addrs |-> IF a \in S THEN "retired" ELSE heap[a]]
  BY DEF Collect
<1>5. RestInv' /\ (NoOverrun' => NoOverrun /\ RangeInv')
  BY <1>3, <1>4, ThreadsUntouched DEF InUse
<1>6. ASSUME NoOverrun' PROVE SlotInv'
  <2>1. SlotInv
    BY <1>5, <1>6 DEF AddrInv
  <2>2. /\ \A a \in S \cup Carried : \E i \in 0 .. (n - 1) : f[i] = a
        /\ \A i, j \in 0 .. (n - 1) : f[i] = f[j] => i = j
        /\ \A i \in 0 .. (n - 1) : f[i] \in S \cup Carried
    <3>1. EachOnce(f, n, S \cup Carried)
      BY <1>2, LayoutOnce
    <3> QED
      BY <3>1 DEF EachOnce
  <2>3. \A i : i \in 0 .. (n - 1) <=> i \in Index /\ i < n
    BY <1>3, SizesAssumption DEF Index
  \* What the slots held before: the uncollected addresses, and those in use.
  <2>4. \A a : a \in Carried <=>
           \E x \in Buffers, i \in Index : InKept(x, i) /\ At(x, i) = a
    <3>1. CASE g_uncollected = NULL
      BY <3>1, NullAssumption DEF Carried, InKept
    <3>2. CASE g_uncollected # NULL
      <4>1. PICK u \in Buffers : u = g_uncollected
        BY <1>1, <3>2
      <4>2. \A i : i \in 0 .. (buf[u].n_addrs - 1) <=> i \in Index /\ i < buf[u].n_addrs
        <5>1. buf[u].n_addrs \in 0 .. MaxCapacity
          BY <1>1 DEF Buffer
        <5> QED
          BY <5>1, SizesAssumption DEF Index
      <4> QED
        BY <3>2, <4>1, <4>2 DEF Carried, InKept, At
    <3> QED
      BY <3>1, <3>2
  <2>5. \A x \in Buffers, i \in Index :
           Waits(x, i) <=>
              InKept(x, i) \/ (InList(x, i) \/ \E t \in Threads : InRange(t, x, i))
    BY <1>1, <1>4, NullAssumption DEF Waits, InWork
  <2>6. \A x \in Buffers, i \in Index :
           (InList(x, i) \/ \E t \in Threads : InRange(t, x, i)) => InUse(x)
    BY DEF InList, InRange, InUse, Held
  <2>7. \A x \in Buffers, i \in Index : InKept(x, i) => ~InUse(x)
    BY <1>1 DEF InKept, OwnedInv, Owned
  \* What they hold after.
  <2>8. ASSUME NEW x \in Buffers, NEW i \in Index, x # w
        PROVE  /\ Waits(x, i)' <=> Waits(x, i) /\ ~InKept(x, i)
               /\ Waits(x, i)' => buf'[x] = buf[x] /\ At(x, i)' = At(x, i)
    <3>1. ~InWork(x, i)' /\ ~InKept(x, i)'
      BY <1>3, <1>4, <2>8, NullAssumption DEF InWork, InKept
    <3>2. InList(x, i)' <=> InList(x, i)
      BY <1>3, <1>4 DEF InList, InUse
    <3>3. \A t \in Threads : InRange(t, x, i)' <=> InRange(t, x, i)
      BY <1>3, <1>4 DEF InRange, InUse, Held
    <3>4. Waits(x, i)' <=> (InList(x, i) \/ \E t \in Threads : InRange(t, x, i))
      BY <3>1, <3>2, <3>3 DEF Waits
    <3> QED
      BY <1>3, <2>5, <2>6, <2>7, <3>4 DEF At
  <2>9. ASSUME NEW i \in Index
        PROVE  /\ Waits(w, i)' <=> i < n
               /\ i < n => At(w, i)' = f[i] /\ buf'[w].slots[i].tag = "clean"
    <3>1. InWork(w, i)' <=> i < n
      BY <1>3 DEF InWork
    <3>2. ~InKept(w, i)' /\ ~InList(w, i)' /\ \A t \in Threads : ~InRange(t, w, i)'
      BY <1>3, <1>4 DEF InKept, InList, InRange, InUse, Held
    <3>3. i < n => At(w, i)' = f[i] /\ buf'[w].slots[i].tag = "clean"
      <4>1. ASSUME i < n PROVE buf'[w].slots[i] = Clean(f[i])
        BY <1>3, <4>1
      <4> QED
        BY <4>1 DEF At, Clean
    <3> QED
      BY <3>1, <3>2, <3>3 DEF Waits
  \* An address that is collected waits nowhere but among the uncollected ones.
  <2>10. \A x \in Buffers, i \in Index :
            Waits(x, i) /\ ~InKept(x, i) => At(x, i) \notin S \cup Carried
    <3>1. ASSUME NEW x \in Buffers, NEW i \in Index, Waits(x, i), ~InKept(x, i)
          PROVE  At(x, i) \notin S \cup Carried
      <4>1. At(x, i) \notin S
        BY <1>4, <2>1, <3>1 DEF SlotInv, RetiredInv
      <4>2. At(x, i) \notin Carried
        BY <2>1, <2>4, <2>5, <3>1 DEF SlotInv, OnceInv
      <4> QED
        BY <4>1, <4>2
    <3> QED
      BY <3>1
  <2>11. \A t \in Threads : InHand(t) => td[t].s.addr \notin S \cup Carried
    BY <1>4, <2>1, <2>4, <2>5 DEF SlotInv, RetiredInv, OnceInv
  <2>12. /\ Carried \subseteq Addrs
         /\ \A a \in Addrs : heap'[a] = "retired" <=> heap[a] = "retired" \/ a \in S
         /\ \A a \in S \cup Carried : a \in Addrs /\ heap'[a] = "retired"
    <3>1. \A a \in Carried : a \in Addrs /\ heap[a] = "retired"
      BY <2>1, <2>4, <2>5 DEF SlotInv, RetiredInv
    <3>2. \A a \in Addrs : heap'[a] = "retired" <=> heap[a] = "retired" \/ a \in S
      BY <1>4
    <3> QED
      BY <3>1, <3>2
  <2>13. \A t \in Threads : /\ InHand(t)' <=> InHand(t)
                            /\ td'[t].s = td[t].s /\ td'[t].pc = td[t].pc
    BY <1>4 DEF InHand
  <2>14. RetiredInv'
    <3>1. \A x \in Buffers, i \in Index : Waits(x, i)' =>
             /\ buf'[x].slots[i].tag \in {"clean", "marked"}
             /\ At(x, i)' \in Addrs /\ heap'[At(x, i)'] = "retired"
      <4>1. ASSUME NEW x \in Buffers, NEW i \in Index, Waits(x, i)'
            PROVE  /\ buf'[x].slots[i].tag \in {"clean", "marked"}
                   /\ At(x, i)' \in Addrs /\ heap'[At(x, i)'] = "retired"
        <5>1. CASE x = w
          BY <2>2, <2>3, <2>9, <2>12, <4>1, <5>1
        <5>2. CASE x # w
          BY <2>1, <2>8, <2>12, <4>1, <5>2 DEF SlotInv, RetiredInv
        <5> QED
          BY <5>1, <5>2
      <4> QED
        BY <4>1
    <3>2. \A t \in Threads :
             /\ td'[t].pc = "free" => td'[t].s.tag # "marked"
             /\ InHand(t)' => td'[t].s.addr \in Addrs /\ heap'[td'[t].s.addr] = "retired"
      BY <2>1, <2>12, <2>13 DEF SlotInv, RetiredInv
    <3> QED
      BY <3>1, <3>2 DEF RetiredInv
  <2>15. OnceInv'
    <3>1. ASSUME NEW x \in Buffers, NEW y \in Buffers, NEW i \in Index, NEW j \in Index,
                 Waits(x, i)', Waits(y, j)', At(x, i)' = At(y, j)'
          PROVE  x = y /\ i = j
      <4>1. CASE x = w /\ y = w
        BY <2>2, <2>3, <2>9, <3>1, <4>1
      <4>2. CASE x = w /\ y # w
        BY <2>2, <2>3, <2>8, <2>9, <2>10, <3>1, <4>2
      <4>3. CASE x # w /\ y = w
        BY <2>2, <2>3, <2>8, <2>9, <2>10, <3>1, <4>3
      <4>4. CASE x # w /\ y # w
        BY <2>1, <2>8, <3>1, <4>4 DEF SlotInv, OnceInv
      <4> QED
        BY <4>1, <4>2, <4>3, <4>4
    <3>2. ASSUME NEW t \in Threads, NEW x \in Buffers, NEW i \in Index,
                 InHand(t)', Waits(x, i)'
          PROVE  td'[t].s.addr # At(x, i)'
      <4>1. CASE x = w
        BY <2>2, <2>3, <2>9, <2>11, <2>13, <3>2, <4>1
      <4>2. CASE x # w
        BY <2>1, <2>8, <2>13, <3>2, <4>2 DEF SlotInv, OnceInv
      <4> QED
        BY <4>1, <4>2
    <3>3. \A t, v \in Threads :
             (InHand(t) /\ InHand(v))' /\ td'[t].s.addr = td'[v].s.addr => t = v
      BY <2>1, <2>13 DEF SlotInv, OnceInv
    <3> QED
      BY <3>1, <3>2, <3>3 DEF OnceInv
  <2>16. KeptInv'
    <3>1. ASSUME NEW a \in Addrs, heap'[a] = "retired"
          PROVE  \/ \E x \in Buffers, i \in Index : Waits(x, i)' /\ At(x, i)' = a
                 \/ \E t \in Threads : InHand(t)' /\ td'[t].s.addr = a
      <4>1. CASE a \in S \cup Carried
        BY <2>2, <2>3, <2>9, <4>1
      <4>2. CASE a \notin S \cup Carried
        <5>1. \/ \E x \in Buffers, i \in Index : Waits(x, i) /\ At(x, i) = a
              \/ \E t \in Threads : InHand(t) /\ td[t].s.addr = a
          BY <2>1, <2>12, <3>1, <4>2 DEF SlotInv, KeptInv
        <5>2. ASSUME NEW x \in Buffers, NEW i \in Index, Waits(x, i), At(x, i) = a
              PROVE  Waits(x, i)' /\ At(x, i)' = a
          <6>1. ~InKept(x, i)
            BY <2>4, <4>2, <5>2
          <6>2. x # w
            BY <1>3, <2>5, <2>6, <5>2, <6>1
          <6> QED
            BY <2>8, <5>2, <6>1, <6>2
        <5> QED
          BY <2>13, <5>1, <5>2
      <4> QED
        BY <4>1, <4>2
    <3> QED
      BY <3>1 DEF KeptInv
  <2> QED
    BY <2>14, <2>15, <2>16 DEF SlotInv
<1> QED
  BY <1>5, <1>6 DEF AddrInv

-----------------------------------------------------------------------------
(***************************************************************************)
(* From slots to the number of places.  A slot that waits does so for one  *)
(* reason: what the collector owns is neither listed nor held, what it has *)
(* still to carry over is marked, and what a thread has claimed is handed  *)
(* out and claimed by nobody else.                                         *)
(***************************************************************************)
AtMostOne(X) == \A p, q \in X : p = q

LEMMA FewCounted ==
    ASSUME NEW X, AtMostOne(X)
    PROVE  Cardinality(X) = IF X = {} THEN 0 ELSE 1
<1>1. CASE X = {}
  BY <1>1, FS_EmptySet
<1>2. CASE X # {}
  <2>1. PICK x : X = {x}
    BY <1>2 DEF AtMostOne
  <2> QED
    BY <1>2, <2>1, FS_Singleton
<1> QED
  BY <1>1, <1>2

LEMMA OneReason ==
    ASSUME IInv, RangeInv, NEW b \in Buffers, NEW i \in Index
    PROVE  /\ ~(InWork(b, i) /\ InKept(b, i))
           /\ ~(InWork(b, i) /\ InList(b, i)) /\ ~(InKept(b, i) /\ InList(b, i))
           /\ \A t \in Threads :
                 InRange(t, b, i) => ~InWork(b, i) /\ ~InKept(b, i) /\ ~InList(b, i)
           /\ \A t, u \in Threads : InRange(t, b, i) /\ InRange(u, b, i) => t = u
<1>1. /\ OwnedInv /\ CollectorInv /\ buf[b] \in Buffer /\ td \in [Threads -> Thread]
  BY Types DEF IInv
<1>2. InKept(b, i) => ~InUse(b)
  BY <1>1 DEF InKept, OwnedInv, Owned
<1>3. InWork(b, i) => (InUse(b) /\ buf[b].slots[i].tag = "marked") \/ ~InUse(b)
  BY <1>1 DEF InWork, InUse, Carrying, OwnedInv, Owned
<1>4. /\ InList(b, i) => InUse(b) /\ buf[b].slots[i].tag = "clean"
      /\ \A t \in Threads : InRange(t, b, i) => InUse(b) /\ buf[b].slots[i].tag = "clean"
  BY DEF InList, InRange, InUse, Held
<1>5. ~(InWork(b, i) /\ InKept(b, i))
  BY <1>1, <1>2, NullAssumption DEF InWork, InKept, CollectorInv, InUse, Carrying
<1>6. \A t \in Threads : ~(InRange(t, b, i) /\ InList(b, i))
  <2>1. ASSUME NEW t \in Threads, InRange(t, b, i), InList(b, i) PROVE FALSE
    <3>1. td[t].end <= buf[b].free_idx
      BY <2>1, NullAssumption DEF RangeInv, InRange
    <3>2. td[t].end \in Nat /\ buf[b].free_idx \in Nat /\ i \in Nat
      BY <1>1 DEF Thread, Buffer, Index
    <3> QED
      BY <2>1, <3>1, <3>2 DEF InRange, InList
  <2> QED
    BY <2>1
<1>7. \A t, u \in Threads : InRange(t, b, i) /\ InRange(u, b, i) => t = u
  <2>1. ASSUME NEW t \in Threads, NEW u \in Threads, t # u,
               InRange(t, b, i), InRange(u, b, i)
        PROVE  FALSE
    <3>1. td[t].end <= td[u].begin \/ td[u].end <= td[t].begin
      BY <2>1, NullAssumption DEF RangeInv, InRange
    <3>2. /\ td[t].begin \in Nat /\ td[t].end \in Nat /\ i \in Nat
          /\ td[u].begin \in Nat /\ td[u].end \in Nat
      BY <1>1 DEF Thread, Index
    <3> QED
      BY <2>1, <3>1, <3>2 DEF InRange
  <2> QED
    BY <2>1
<1> QED
  BY <1>2, <1>3, <1>4, <1>5, <1>6, <1>7

\* The five sets of places, in terms of slots.
LEMMA PlacesAreSlots ==
    ASSUME IInv, RangeInv, NEW a \in Addrs
    PROVE  /\ \A i : i \in PlacesInWorking(a) <=>
                 /\ gc.pc # "wait" /\ i \in Index
                 /\ InWork(gc.working, i) /\ At(gc.working, i) = a
           /\ \A i : i \in PlacesUncollected(a) <=>
                 /\ g_uncollected # NULL /\ i \in Index
                 /\ InKept(g_uncollected, i) /\ At(g_uncollected, i) = a
           /\ \A p : p \in PlacesListed(a) <=>
                 \E b \in Buffers, i \in Index : p = <<b, i>> /\ InList(b, i) /\ At(b, i) = a
           /\ \A p : p \in PlacesClaimed(a) <=>
                 \E t \in Threads, i \in Index :
                    /\ p = <<t, i>> /\ td[t].ab # NULL
                    /\ InRange(t, td[t].ab, i) /\ At(td[t].ab, i) = a
           /\ \A t : t \in PlacesFreeing(a) <=>
                 t \in Threads /\ InHand(t) /\ td[t].s.addr = a
<1>1. /\ buf \in [Buffers -> Buffer] /\ td \in [Threads -> Thread] /\ gc \in Gc
      /\ CollectorInv /\ Elems(retirees) \subseteq Buffers
      /\ g_uncollected \in Buffers \cup {NULL}
  BY Types DEF IInv, TypeOK
<1>2. ASSUME NEW b \in Buffers, NEW i
      PROVE  i \in 0 .. (buf[b].n_addrs - 1) <=> i \in Index /\ i < buf[b].n_addrs
  <2>1. buf[b].n_addrs \in 0 .. MaxCapacity
    BY <1>1 DEF Buffer
  <2> QED
    BY <2>1, SizesAssumption DEF Index
<1>3. \A s \in Slot : s = Clean(a) <=> s.tag = "clean" /\ s.addr = a
  BY DEF Slot, Clean
<1>4. \A b \in Buffers, i \in Index : buf[b].slots[i] \in Slot
  BY <1>1 DEF Buffer
<1>5. ASSUME NEW i
      PROVE  i \in PlacesInWorking(a) <=>
                gc.pc # "wait" /\ i \in Index /\ InWork(gc.working, i) /\ At(gc.working, i) = a
  <2>1. CASE gc.pc = "wait"
    BY <2>1 DEF PlacesInWorking
  <2>2. CASE gc.pc # "wait"
    <3>1. PICK w \in Buffers : w = gc.working
      BY <1>1, <2>2 DEF CollectorInv, Gc
    <3>2. gc.pc \in {"scan", "push", "make", "carry"}
      BY <1>1, <2>2 DEF Gc
    <3> QED
      BY <1>2, <2>2, <3>1, <3>2 DEF PlacesInWorking, InWork, At
  <2> QED
    BY <2>1, <2>2
<1>6. ASSUME NEW i
      PROVE  i \in PlacesUncollected(a) <=>
                /\ g_uncollected # NULL /\ i \in Index
                /\ InKept(g_uncollected, i) /\ At(g_uncollected, i) = a
  BY <1>1, <1>2 DEF PlacesUncollected, InKept, At
<1>7. ASSUME NEW p
      PROVE  p \in PlacesListed(a) <=>
                \E b \in Buffers, i \in Index : p = <<b, i>> /\ InList(b, i) /\ At(b, i) = a
  <2>1. p \in PlacesListed(a) <=>
           \E b \in Elems(retirees), i \in Index :
              /\ p = <<b, i>> /\ buf[b].free_idx <= i /\ i < buf[b].n_addrs
              /\ buf[b].slots[i] = Clean(a)
    BY DEF PlacesListed
  <2> QED
    BY <1>1, <1>3, <1>4, <2>1 DEF InList, At
<1>8. ASSUME NEW p
      PROVE  p \in PlacesClaimed(a) <=>
                \E t \in Threads, i \in Index :
                   /\ p = <<t, i>> /\ td[t].ab # NULL
                   /\ InRange(t, td[t].ab, i) /\ At(td[t].ab, i) = a
  <2>1. p \in PlacesClaimed(a) <=>
           \E t \in Threads, i \in Index :
              /\ p = <<t, i>> /\ td[t].ab # NULL /\ td[t].begin <= i /\ i < td[t].end
              /\ buf[td[t].ab].slots[i] = Clean(a)
    BY DEF PlacesClaimed
  <2>2. \A t \in Threads : td[t].ab # NULL => td[t].ab \in Buffers
    BY <1>1 DEF Thread
  <2> QED
    BY <1>3, <1>4, <2>1, <2>2 DEF InRange, At
<1>9. ASSUME NEW t
      PROVE  t \in PlacesFreeing(a) <=> t \in Threads /\ InHand(t) /\ td[t].s.addr = a
  <2>1. \A u \in Threads : td[u].s \in Slot
    BY <1>1 DEF Thread
  <2> QED
    BY <1>3, <2>1 DEF PlacesFreeing, InHand
<1> QED
  BY <1>5, <1>6, <1>7, <1>8, <1>9

LEMMA ConservationHolds ==
    ASSUME IInv, AddrInv
    PROVE  Conservation
<1> SUFFICES ASSUME NoOverrun, NEW a \in Addrs
             PROVE  Places(a) = IF heap[a] = "retired" THEN 1 ELSE 0
  BY DEF Conservation
<1>1. RangeInv /\ RetiredInv /\ OnceInv /\ KeptInv
  BY DEF AddrInv, SlotInv
<1>2. /\ gc.pc # "wait" => gc.working \in Buffers
      /\ g_uncollected # NULL => g_uncollected \in Buffers
      /\ \A t \in Threads : td[t].ab # NULL => td[t].ab \in Buffers
  BY Types DEF IInv, TypeOK, CollectorInv, Gc, Thread
<1>3. PICK W, U, L, C, F :
         /\ W = PlacesInWorking(a) /\ U = PlacesUncollected(a) /\ L = PlacesListed(a)
         /\ C = PlacesClaimed(a) /\ F = PlacesFreeing(a)
  OBVIOUS
<1>4. \A i : i \in W <=>
         gc.pc # "wait" /\ i \in Index /\ InWork(gc.working, i) /\ At(gc.working, i) = a
  BY <1>1, <1>3, PlacesAreSlots
<1>5. \A i : i \in U <=> /\ g_uncollected # NULL /\ i \in Index
                         /\ InKept(g_uncollected, i) /\ At(g_uncollected, i) = a
  BY <1>1, <1>3, PlacesAreSlots
<1>6. \A p : p \in L <=>
         \E b \in Buffers, i \in Index : p = <<b, i>> /\ InList(b, i) /\ At(b, i) = a
  BY <1>1, <1>3, PlacesAreSlots
<1>7. \A p : p \in C <=>
         \E t \in Threads, i \in Index :
            /\ p = <<t, i>> /\ td[t].ab # NULL
            /\ InRange(t, td[t].ab, i) /\ At(td[t].ab, i) = a
  BY <1>1, <1>3, PlacesAreSlots
<1>8. \A t : t \in F <=> t \in Threads /\ InHand(t) /\ td[t].s.addr = a
  BY <1>1, <1>3, PlacesAreSlots
\* Each set that is not empty has a slot in which a waits, for a reason of its own.
<1>9. W # {} => \E b \in Buffers, i \in Index : InWork(b, i) /\ At(b, i) = a
  BY <1>2, <1>4
<1>10. U # {} => \E b \in Buffers, i \in Index : InKept(b, i) /\ At(b, i) = a
  BY <1>2, <1>5
<1>11. L # {} => \E b \in Buffers, i \in Index : InList(b, i) /\ At(b, i) = a
  BY <1>6
<1>12. C # {} => \E b \in Buffers, i \in Index :
                    (\E t \in Threads : InRange(t, b, i)) /\ At(b, i) = a
  BY <1>2, <1>7
<1>13. \A b, c \in Buffers, i, j \in Index :
          Waits(b, i) /\ Waits(c, j) /\ At(b, i) = a /\ At(c, j) = a => b = c /\ i = j
  BY <1>1 DEF OnceInv
<1>14. AtMostOne(W) /\ AtMostOne(U)
  BY <1>2, <1>4, <1>5, <1>13 DEF AtMostOne, Waits
<1>15. AtMostOne(L)
  BY <1>6, <1>13 DEF AtMostOne, Waits
<1>16. AtMostOne(C)
  <2>1. ASSUME NEW p \in C, NEW q \in C PROVE p = q
    <3>1. PICK t \in Threads, i \in Index :
             /\ p = <<t, i>> /\ td[t].ab # NULL
             /\ InRange(t, td[t].ab, i) /\ At(td[t].ab, i) = a
      BY <1>7
    <3>2. PICK u \in Threads, j \in Index :
             /\ q = <<u, j>> /\ td[u].ab # NULL
             /\ InRange(u, td[u].ab, j) /\ At(td[u].ab, j) = a
      BY <1>7
    <3>3. td[t].ab = td[u].ab /\ i = j
      BY <1>2, <1>13, <3>1, <3>2 DEF Waits
    <3>4. t = u
      BY <1>1, <1>2, <3>1, <3>2, <3>3, OneReason
    <3> QED
      BY <3>1, <3>2, <3>3, <3>4
  <2> QED
    BY <2>1 DEF AtMostOne
<1>17. AtMostOne(F)
  BY <1>1, <1>8 DEF AtMostOne, OnceInv
<1>18. F # {} => \A b \in Buffers, i \in Index : Waits(b, i) => At(b, i) # a
  BY <1>1, <1>8 DEF OnceInv
<1>19. /\ ~(W # {} /\ F # {}) /\ ~(U # {} /\ F # {}) /\ ~(L # {} /\ F # {})
       /\ ~(C # {} /\ F # {})
  BY <1>9, <1>10, <1>11, <1>12, <1>18 DEF Waits
<1>20. /\ ~(W # {} /\ U # {}) /\ ~(W # {} /\ L # {}) /\ ~(U # {} /\ L # {})
       /\ ~(C # {} /\ W # {}) /\ ~(C # {} /\ U # {}) /\ ~(C # {} /\ L # {})
  <2>1. \A b \in Buffers, i \in Index :
           /\ ~(InWork(b, i) /\ InKept(b, i))
           /\ ~(InWork(b, i) /\ InList(b, i)) /\ ~(InKept(b, i) /\ InList(b, i))
           /\ \A t \in Threads :
                 InRange(t, b, i) => ~InWork(b, i) /\ ~InKept(b, i) /\ ~InList(b, i)
    BY <1>1, OneReason
  <2>2. ~(W # {} /\ U # {})
    BY <1>9, <1>10, <1>13, <2>1 DEF Waits
  <2>3. ~(W # {} /\ L # {})
    BY <1>9, <1>11, <1>13, <2>1 DEF Waits
  <2>4. ~(U # {} /\ L # {})
    BY <1>10, <1>11, <1>13, <2>1 DEF Waits
  <2>5. ~(C # {} /\ W # {})
    BY <1>9, <1>12, <1>13, <2>1 DEF Waits
  <2>6. ~(C # {} /\ U # {})
    BY <1>10, <1>12, <1>13, <2>1 DEF Waits
  <2>7. ~(C # {} /\ L # {})
    BY <1>11, <1>12, <1>13, <2>1 DEF Waits
  <2> QED
    BY <2>2, <2>3, <2>4, <2>5, <2>6, <2>7
<1>21. (W # {} \/ U # {} \/ L # {} \/ C # {} \/ F # {}) <=> heap[a] = "retired"
  <2>1. ASSUME W # {} \/ U # {} \/ L # {} \/ C # {} \/ F # {} PROVE heap[a] = "retired"
    <3>1. CASE F # {}
      BY <1>1, <1>8, <3>1 DEF RetiredInv
    <3>2. CASE F = {}
      <4>1. PICK b \in Buffers, i \in Index : Waits(b, i) /\ At(b, i) = a
        BY <1>9, <1>10, <1>11, <1>12, <2>1, <3>2 DEF Waits
      <4> QED
        BY <1>1, <4>1 DEF RetiredInv
    <3> QED
      BY <3>1, <3>2
  <2>2. ASSUME NEW b \in Buffers, NEW i \in Index, Waits(b, i), At(b, i) = a
        PROVE  W # {} \/ U # {} \/ L # {} \/ C # {}
    <3>1. CASE InWork(b, i)
      <4>1. b = gc.working /\ gc.pc # "wait"
        BY <3>1 DEF InWork
      <4> QED
        BY <1>4, <2>2, <3>1, <4>1
    <3>2. CASE InKept(b, i)
      BY <1>5, <2>2, <3>2, NullAssumption DEF InKept
    <3>3. CASE InList(b, i)
      BY <1>6, <2>2, <3>3
    <3>4. ASSUME NEW t \in Threads, InRange(t, b, i) PROVE C # {}
      <4>1. td[t].ab = b /\ b # NULL
        BY <3>4, NullAssumption DEF InRange
      <4> QED
        BY <1>7, <2>2, <3>4, <4>1
    <3> QED
      BY <2>2, <3>1, <3>2, <3>3, <3>4 DEF Waits
  <2>3. ASSUME heap[a] = "retired" PROVE W # {} \/ U # {} \/ L # {} \/ C # {} \/ F # {}
    BY <1>1, <1>8, <2>2, <2>3 DEF KeptInv
  <2> QED
    BY <2>1, <2>3
<1>22. /\ Cardinality(W) = IF W = {} THEN 0 ELSE 1
       /\ Cardinality(U) = IF U = {} THEN 0 ELSE 1
       /\ Cardinality(L) = IF L = {} THEN 0 ELSE 1
       /\ Cardinality(C) = IF C = {} THEN 0 ELSE 1
       /\ Cardinality(F) = IF F = {} THEN 0 ELSE 1
  BY <1>14, <1>15, <1>16, <1>17, FewCounted
<1>23. Places(a) = Cardinality(W) + Cardinality(U) + Cardinality(L) + Cardinality(C)
                 + Cardinality(F)
  BY <1>3 DEF Places
<1> QED
  BY <1>19, <1>20, <1>21, <1>22, <1>23

LEMMA InitAddrInv == Init => AddrInv
<1> SUFFICES ASSUME Init PROVE AddrInv
  OBVIOUS
<1>1. /\ \A t \in Threads : td[t].pc = "idle" /\ td[t].ab = NULL
                            /\ td[t].begin = 0 /\ td[t].end = 0
      /\ \A a \in Addrs : heap[a] = "free"
      /\ gc.working = NULL /\ g_uncollected = NULL /\ Elems(retirees) = {}
  BY ElemsEmpty DEF Init
<1>2. RestInv /\ RangeInv
  BY <1>1 DEF RestInv, RangeInv
<1>3. \A b \in Buffers, i \in Index : ~Waits(b, i)
  BY <1>1, NullAssumption DEF Waits, InWork, InKept, InList, InRange
<1>4. \A t \in Threads : ~InHand(t)
  BY <1>1 DEF InHand
<1>5. SlotInv
  BY <1>1, <1>3, <1>4 DEF SlotInv, RetiredInv, OnceInv, KeptInv
<1> QED
  BY <1>2, <1>5 DEF AddrInv

LEMMA StepKeeps ==
    ASSUME IInv, AddrInv, [Next]_vars
    PROVE  AddrInv'
<1>1. ASSUME NEW a \in Addrs, Malloc(a) \/ Free(a) PROVE AddrInv'
  BY <1>1, AppKeeps
<1>2. ASSUME NEW t \in Threads, FreePtrs(t) \/ ThreadExit(t) PROVE AddrInv'
  BY <1>2, GetRetireeKeeps, MovesKeeps, ClaimRangeKeeps, TakeSlotKeeps, FreeSlotKeeps,
     PopRetireeKeeps, UnrefRetireeKeeps DEF FreePtrs
<1>3. CASE Collector
  BY <1>3, CollectKeeps, ScanKeeps, PushBackKeeps, MakeUncollectedKeeps, CarrySlotKeeps,
     UnrefWorkingKeeps DEF Collector
<1> QED
  BY <1>1, <1>2, <1>3, StutterKeeps DEF Next

\* As long as no thread has claimed the empty range behind the last address, every
\* retired address waits in exactly one place and no other address waits anywhere: none
\* is lost, none is freed twice, while it is marked or after it was handed out again,
\* for every number of threads, buffers and addresses, every capacity and every size of
\* a range (util.c:232-279, forkscan.c:101-160, 231-246).
THEOREM AddressesConserved == Spec => []Conservation
<1>1. Init => IInv /\ AddrInv
  BY InitIInv, InitAddrInv
<1>2. IInv /\ AddrInv /\ [Next]_vars => IInv' /\ AddrInv'
  BY StepIInv, StepKeeps
<1>3. IInv /\ AddrInv => Conservation
  BY ConservationHolds
<1> QED
  BY <1>1, <1>2, <1>3, PTL DEF Spec
=============================================================================
