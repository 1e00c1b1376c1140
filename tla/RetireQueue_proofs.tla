------------------------- MODULE RetireQueue_proofs -------------------------
(***************************************************************************)
(* Proofs about RetireQueue, for every capacity, block size and number of  *)
(* pointers: the indices never cross, a pop copies a prefix of the queue,  *)
(* and the ring implements the bounded queue of PtrFifo.                   *)
(***************************************************************************)
EXTENDS RetireQueue, SequenceTheorems, TLAPS

-----------------------------------------------------------------------------
(***************************************************************************)
(* Arithmetic of INDEXIFY.                                                 *)
(***************************************************************************)

\* Division with remainder, for absolute indices.
LEMMA IndexifyDiv ==
    ASSUME NEW a \in Nat
    PROVE  /\ Indexify(a) \in 0 .. (Capacity - 1)
           /\ \E d \in Nat : a = Capacity * d + Indexify(a)
<1>1. Capacity \in Nat /\ Capacity > 1
  BY CapacityAssumption
<1>2. a = Capacity * (a \div Capacity) + (a % Capacity) /\ a % Capacity \in 0 .. (Capacity - 1)
  BY <1>1, Z3
<1>3. a \div Capacity \in Nat
  BY <1>1, Z3
<1> QED
  BY <1>2, <1>3 DEF Indexify

\* Indices less than a capacity apart use different slots.
LEMMA IndexifyDistinct ==
    ASSUME NEW a \in Nat, NEW b \in Nat, a < b, b - a < Capacity
    PROVE  Indexify(a) # Indexify(b)
<1>1. Capacity \in Nat /\ Capacity > 1
  BY CapacityAssumption
<1>2. PICK da \in Nat : a = Capacity * da + Indexify(a)
  BY IndexifyDiv
<1>3. PICK db \in Nat : b = Capacity * db + Indexify(b)
  BY IndexifyDiv
<1>4. Indexify(a) \in Int /\ Indexify(b) \in Int
  BY IndexifyDiv
<1>5. SUFFICES ASSUME Indexify(a) = Indexify(b) PROVE FALSE
  OBVIOUS
<1>6. b - a = Capacity * (db - da)
  BY <1>1, <1>2, <1>3, <1>4, <1>5, Z3
<1>7. CASE db - da >= 1
  <2>1. Capacity * (db - da) >= Capacity
    BY <1>1, <1>7, Z3
  <2> QED
    BY <2>1, <1>6, <1>1
<1>8. CASE db - da <= 0
  <2>1. Capacity * (db - da) <= 0
    BY <1>1, <1>8, Z3
  <2> QED
    BY <2>1, <1>6
<1> QED
  BY <1>7, <1>8

\* An index and the one a capacity later use the same slot.
LEMMA IndexifyPeriod ==
    ASSUME NEW a \in Nat
    PROVE  Indexify(a + Capacity) = Indexify(a)
<1>1. Capacity \in Nat /\ Capacity > 1
  BY CapacityAssumption
<1>2. PICK d \in Nat : a = Capacity * d + Indexify(a)
  BY IndexifyDiv
<1>3. PICK f \in Nat : a + Capacity = Capacity * f + Indexify(a + Capacity)
  <2>1. a + Capacity \in Nat
    BY <1>1
  <2> QED
    BY <2>1, IndexifyDiv
<1>4. /\ Indexify(a) \in 0 .. (Capacity - 1)
      /\ Indexify(a + Capacity) \in 0 .. (Capacity - 1)
  BY IndexifyDiv, <1>1
<1>5. Capacity * (f - d - 1) = Indexify(a) - Indexify(a + Capacity)
  BY <1>1, <1>2, <1>3, <1>4, Z3
<1>6. f - d - 1 = 0
  <2>1. CASE f - d - 1 >= 1
    <3>1. Capacity * (f - d - 1) >= Capacity
      BY <1>1, <2>1, Z3
    <3> QED
      BY <3>1, <1>1, <1>4, <1>5
  <2>2. CASE f - d - 1 <= -1
    <3>1. Capacity * (f - d - 1) <= -Capacity
      BY <1>1, <2>2, Z3
    <3> QED
      BY <3>1, <1>1, <1>4, <1>5
  <2> QED
    BY <2>1, <2>2
<1> QED
  BY <1>1, <1>4, <1>5, <1>6, Z3

\* What the two memcpy calls move is the distance between the indices.
LEMMA CopyCountExact ==
    ASSUME NEW start \in Nat, NEW head \in Nat,
           start <= head, head < start + Capacity
    PROVE  CopyCount(Indexify(head), Indexify(start)) = head - start
<1>1. Capacity \in Nat /\ Capacity > 1
  BY CapacityAssumption
<1>2. PICK ds \in Nat : start = Capacity * ds + Indexify(start)
  BY IndexifyDiv
<1>3. PICK dh \in Nat : head = Capacity * dh + Indexify(head)
  BY IndexifyDiv
<1>4. /\ Indexify(start) \in 0 .. (Capacity - 1)
      /\ Indexify(head) \in 0 .. (Capacity - 1)
  BY IndexifyDiv
<1>5. head - start = Capacity * (dh - ds) + (Indexify(head) - Indexify(start))
  <2> DEFINE x == Capacity * dh
             y == Capacity * ds
             r == Indexify(head)
             s == Indexify(start)
  <2>1. Capacity * (dh - ds) = x - y
    BY <1>1, Z3
  <2>2. x \in Int /\ y \in Int
    BY <1>1
  <2>3. r \in Int /\ s \in Int
    BY <1>1, <1>4
  <2>4. head = x + r /\ start = y + s
    BY <1>2, <1>3
  <2> HIDE DEF x, y, r, s
  <2>5. head - start = (x - y) + (r - s)
    BY <2>2, <2>3, <2>4
  <2> QED
    BY <2>1, <2>5, Zenon DEF r, s
<1>6. dh - ds \in {0, 1}
  <2>1. CASE dh - ds >= 2
    <3>1. Capacity * (dh - ds) >= Capacity + Capacity
      BY <1>1, <2>1, Z3
    <3> QED
      BY <3>1, <1>1, <1>4, <1>5
  <2>2. CASE dh - ds <= -1
    <3>1. Capacity * (dh - ds) <= -Capacity
      BY <1>1, <2>2, Z3
    <3> QED
      BY <3>1, <1>1, <1>4, <1>5
  <2> QED
    BY <2>1, <2>2
<1>7. CASE dh - ds = 0
  <2>1. head - start = Indexify(head) - Indexify(start)
    BY <1>1, <1>4, <1>5, <1>7, Z3
  <2> QED
    BY <2>1, <1>1, <1>4 DEF CopyCount
<1>8. CASE dh - ds = 1
  <2>1. head - start = Capacity + (Indexify(head) - Indexify(start))
    BY <1>1, <1>4, <1>5, <1>8, Z3
  <2> QED
    BY <2>1, <1>1, <1>4 DEF CopyCount
<1> QED
  BY <1>6, <1>7, <1>8

-----------------------------------------------------------------------------
(***************************************************************************)
(* Prefixes and suffixes of sequences.                                     *)
(***************************************************************************)

\* A sequence that agrees with the beginning of another is a subsequence of it.
LEMMA PrefixIsSubSeq ==
    ASSUME NEW s \in Seq(Nat), NEW v \in Seq(Nat), Len(v) <= Len(s),
           \A i \in 1 .. Len(v) : v[i] = s[i]
    PROVE  v = SubSeq(s, 1, Len(v))
<1> DEFINE n == Len(v)
<1>1. n \in Nat /\ Len(s) \in Nat
  OBVIOUS
<1>2. \A i \in 1 .. n : s[i] \in Nat
  BY <1>1
<1>3. /\ SubSeq(s, 1, n) \in Seq(Nat)
      /\ Len(SubSeq(s, 1, n)) = IF 1 <= n THEN n - 1 + 1 ELSE 0
      /\ \A i \in 1 .. n - 1 + 1 : SubSeq(s, 1, n)[i] = s[1 + i - 1]
  <2> HIDE DEF n
  <2> QED
    BY <1>1, <1>2, SubSeqProperties
<1>4. Len(SubSeq(s, 1, n)) = n
  <2> HIDE DEF n
  <2> QED
    BY <1>1, <1>3
<1>5. \A i \in 1 .. n : SubSeq(s, 1, n)[i] = v[i]
  <2>1. n - 1 + 1 = n /\ \A i \in 1 .. n : 1 + i - 1 = i
    BY <1>1
  <2> QED
    BY <1>3, <2>1
<1> QED
  BY <1>3, <1>4, <1>5, SeqEqual

\* A sequence that agrees with the end of another is a subsequence of it.
LEMMA SuffixIsSubSeq ==
    ASSUME NEW s \in Seq(Nat), NEW u \in Seq(Nat), NEW n \in Nat,
           Len(u) = Len(s) - n,
           \A i \in 1 .. Len(u) : u[i] = s[n + i]
    PROVE  u = SubSeq(s, n + 1, Len(s))
<1> DEFINE m == Len(s)
           t == SubSeq(s, n + 1, m)
<1>1. m \in Nat /\ Len(u) \in Nat /\ n <= m
  OBVIOUS
<1>2. \A i \in (n + 1) .. m : s[i] \in Nat
  BY <1>1
<1>3. /\ t \in Seq(Nat)
      /\ Len(t) = IF n + 1 <= m THEN m - (n + 1) + 1 ELSE 0
      /\ \A i \in 1 .. m - (n + 1) + 1 : t[i] = s[(n + 1) + i - 1]
  <2> HIDE DEF m
  <2> QED
    BY <1>1, <1>2, SubSeqProperties
<1>4. Len(t) = Len(u)
  <2> HIDE DEF t
  <2> QED
    BY <1>1, <1>3
<1>5. \A i \in 1 .. Len(u) : u[i] = t[i]
  <2>1. m - (n + 1) + 1 = Len(u) /\ \A i \in 1 .. Len(u) : (n + 1) + i - 1 = n + i
    BY <1>1
  <2> HIDE DEF t
  <2> QED
    BY <1>3, <2>1
<1> HIDE DEF t
<1>6. u = t
  BY <1>3, <1>4, <1>5, SeqEqual
<1> QED
  BY <1>6 DEF t

-----------------------------------------------------------------------------
(***************************************************************************)
(* The inductive invariant.                                                *)
(***************************************************************************)

\* The oldest pointer has the absolute index First.
First == idx_tail - Capacity

\* The owner writes only to slots that were empty when it looked, and they
\* still are: the reader only moves idx_tail up.
PushInv ==
    /\ prod.k <= prod.len
    /\ prod.pc = "idle" => prod.len = 0
    /\ prod.pc = "write" => prod.len > 0
    /\ idx_head + prod.len < idx_tail

\* The pop in progress is for the indices from First up to the cached head, and
\* the values copied so far are the ones in the slots.
CopyInv ==
    cons.pc = "copy" =>
        /\ First <= cons.head /\ cons.head <= idx_head
        /\ cons.size = cons.head - First
        /\ cons.count = cons.size
        /\ Len(cons.values) <= cons.count
        /\ \A i \in 1 .. Len(cons.values) :
              cons.values[i] = e[Indexify(First + i - 1)]

IInv == TypeOK /\ Capacity <= idx_tail /\ IndicesApart /\ PushInv /\ CopyInv

\* Initially both threads are idle and the queue is empty.
LEMMA InitIInv == Init => IInv
BY CapacityAssumption
DEF Init, IInv, TypeOK, IndicesApart, PushInv, CopyInv, First

\* Every step of the owner and of the reader preserves the invariant.
LEMMA NextIInv == IInv /\ [Next]_vars => IInv'
<1> SUFFICES ASSUME IInv, [Next]_vars PROVE IInv'
  OBVIOUS
<1> USE CapacityAssumption, BoundsAssumption
<1>0. TypeOK /\ Capacity <= idx_tail /\ IndicesApart /\ PushInv /\ CopyInv
  BY DEF IInv
<1>1. ASSUME NEW len \in 1 .. MaxLen, BeginPush(len) PROVE IInv'
  BY <1>0, <1>1
  DEF BeginPush, Available, IInv, TypeOK, IndicesApart, PushInv, CopyInv, First
<1>2. CASE WriteSlot
  <2>1. prod.k \in Nat /\ prod.len \in Nat /\ idx_head \in Nat /\ idx_tail \in Nat
    BY <1>0 DEF TypeOK
  <2>2. idx_head + prod.k \in Nat /\ idx_head + prod.k < idx_tail
    BY <1>0, <1>2, <2>1 DEF WriteSlot, PushInv
  <2>3. Indexify(idx_head + prod.k) \in 0 .. (Capacity - 1)
    BY <2>2, IndexifyDiv
  <2>4. TypeOK'
    <3>1. e' \in [0 .. (Capacity - 1) -> Nat]
      <4>1. Pointer(prod.k) \in Nat
        BY <2>1 DEF Pointer
      <4> QED
        BY <1>0, <1>2, <2>3, <4>1 DEF WriteSlot, TypeOK
    <3>2. prod' \in [pc : {"idle", "write"}, len : Nat, k : Nat]
      <4>1. prod \in [pc : {"idle", "write"}, len : Nat, k : Nat] /\ prod.k + 1 \in Nat
        BY <1>0, <2>1 DEF TypeOK
      <4>2. prod' = [prod EXCEPT !.k = prod.k + 1]
        BY <1>2 DEF WriteSlot
      <4> QED
        BY <4>1, <4>2
    <3> QED
      BY <1>0, <1>2, <3>1, <3>2 DEF WriteSlot, TypeOK
  <2>5. PushInv' /\ IndicesApart' /\ (Capacity <= idx_tail)'
    <3>1. /\ prod'.pc = prod.pc /\ prod'.len = prod.len /\ prod'.k = prod.k + 1
          /\ prod.k < prod.len /\ idx_head' = idx_head /\ idx_tail' = idx_tail
      BY <1>0, <1>2 DEF WriteSlot, TypeOK
    <3> QED
      BY <1>0, <2>1, <3>1 DEF PushInv, IndicesApart
  <2>6. CopyInv'
    <3> SUFFICES ASSUME cons.pc = "copy" PROVE CopyInv'
      BY <1>2 DEF WriteSlot, CopyInv
    <3>1. ASSUME NEW i \in 1 .. Len(cons.values)
          PROVE  e'[Indexify(First + i - 1)] = e[Indexify(First + i - 1)]
      <4>1. /\ cons.values \in Seq(Nat) /\ cons.head \in Nat
            /\ Len(cons.values) \in Nat /\ i \in Nat /\ First \in Nat
        BY <1>0 DEF TypeOK, First
      <4>0. /\ 1 <= i /\ i <= Len(cons.values)
            /\ Len(cons.values) <= cons.head - First /\ cons.head <= idx_head
        BY <1>0, <4>1 DEF CopyInv
      <4>2. /\ First + i - 1 \in Nat
            /\ First + i - 1 < idx_head + prod.k
            /\ (idx_head + prod.k) - (First + i - 1) < Capacity
        <5>1. idx_tail = First + Capacity
          BY <2>1 DEF First
        <5>2. First + i - 1 \in Nat
          BY <4>0, <4>1
        <5>3. First + i - 1 < idx_head + prod.k
          BY <2>1, <4>0, <4>1
        <5>4. (idx_head + prod.k) - (First + i - 1) < Capacity
          BY <2>1, <2>2, <4>0, <4>1, <5>1
        <5> QED
          BY <5>2, <5>3, <5>4
      <4>3. Indexify(First + i - 1) # Indexify(idx_head + prod.k)
        BY <2>2, <4>2, IndexifyDistinct
      <4>4. Indexify(First + i - 1) \in 0 .. (Capacity - 1)
        BY <4>2, IndexifyDiv
      <4> QED
        BY <1>0, <1>2, <4>3, <4>4 DEF WriteSlot, TypeOK
    <3> QED
      BY <1>0, <1>2, <3>1 DEF WriteSlot, CopyInv, First
  <2> QED
    BY <2>4, <2>5, <2>6 DEF IInv
<1>3. CASE PublishHead
  <2>1. /\ idx_head \in Nat /\ idx_tail \in Nat /\ prod.len \in Nat
        /\ idx_head' = idx_head + prod.len /\ idx_tail' = idx_tail
        /\ prod' = [pc |-> "idle", len |-> 0, k |-> 0]
        /\ e' = e /\ cons' = cons /\ delivered' = delivered
    BY <1>0, <1>3 DEF PublishHead, TypeOK
  <2>2. idx_head' \in Nat
    BY <2>1
  <2>3. TypeOK'
    BY <1>0, <2>1, <2>2 DEF TypeOK
  <2>4. PushInv' /\ IndicesApart' /\ (Capacity <= idx_tail)'
    BY <1>0, <2>1 DEF PushInv, IndicesApart
  <2>5. CopyInv'
    <3>1. cons.pc = "copy" => cons.head \in Nat
      BY <1>0 DEF TypeOK
    <3>2. First' = First
      BY <2>1 DEF First
    <3> QED
      BY <1>0, <2>1, <3>1, <3>2 DEF CopyInv
  <2> QED
    BY <2>3, <2>4, <2>5 DEF IInv
<1>4. ASSUME NEW len \in 0 .. MaxLen, BeginPop(len) PROVE IInv'
  <2> DEFINE size == IF Size(idx_head) > len THEN len ELSE Size(idx_head)
             head == idx_head - (Size(idx_head) - size)
  <2>1. idx_head \in Nat /\ idx_tail \in Nat /\ Size(idx_head) = idx_head - First
    BY <1>0 DEF TypeOK, Size, First
  <2>2. /\ First \in Nat /\ head \in Nat /\ size \in Nat
        /\ First <= head /\ head <= idx_head /\ size = head - First
        /\ head < First + Capacity
    BY <1>0, <2>1 DEF IndicesApart, First
  <2>3. Indexify(idx_tail) = Indexify(First)
    <3>1. First + Capacity = idx_tail
      BY <2>1 DEF First
    <3> QED
      BY <2>2, <3>1, IndexifyPeriod
  <2>4. CopyCount(Indexify(head), Indexify(idx_tail)) = size
    <3> HIDE DEF head, size
    <3> QED
      BY <2>2, <2>3, CopyCountExact
  <2>5. cons' = [pc |-> "copy", head |-> head, size |-> size, count |-> size,
                 values |-> << >>]
    BY <1>4, <2>4 DEF BeginPop
  <2> HIDE DEF head, size
  <2>6. UNCHANGED <<e, idx_head, idx_tail, prod, delivered>>
    BY <1>4 DEF BeginPop
  <2>7. TypeOK'
    BY <1>0, <2>2, <2>5, <2>6 DEF TypeOK
  <2>8. CopyInv'
    BY <2>2, <2>5, <2>6 DEF CopyInv, First
  <2> QED
    BY <1>0, <2>6, <2>7, <2>8 DEF IInv, IndicesApart, PushInv
<1>5. CASE CopySlot
  <2> DEFINE n == Len(cons.values)
  <2>1. /\ cons.pc = "copy" /\ cons.values \in Seq(Nat) /\ n \in Nat
        /\ idx_tail \in Nat /\ e \in [0 .. (Capacity - 1) -> Nat]
        /\ n < cons.count /\ cons.count \in Nat
    BY <1>0, <1>5 DEF CopySlot, TypeOK
  <2>2. First + n \in Nat /\ (First + n) + Capacity = idx_tail + n
    BY <1>0, <2>1 DEF First
  <2>3. Indexify(idx_tail + n) = Indexify(First + n)
    BY <2>2, IndexifyPeriod
  <2>4. Indexify(First + n) \in 0 .. (Capacity - 1)
    BY <2>2, IndexifyDiv
  <2>5. /\ cons' = [cons EXCEPT !.values = Append(@, e[Indexify(First + n)])]
        /\ UNCHANGED <<e, idx_head, idx_tail, prod, delivered>>
    BY <1>5, <2>3 DEF CopySlot
  <2>6. e[Indexify(First + n)] \in Nat
    BY <2>1, <2>4
  <2>7. TypeOK'
    <3> DEFINE v == e[Indexify(First + n)]
    <3>1. Append(cons.values, v) \in Seq(Nat)
      BY <2>1, <2>6
    <3>2. cons' \in [pc : {"idle", "copy"}, head : Nat, size : Nat, count : Nat,
                     values : Seq(Nat)]
      <4> HIDE DEF v, n
      <4> QED
        BY <1>0, <2>5, <3>1 DEF TypeOK, v
    <3> QED
      BY <1>0, <2>5, <3>2 DEF TypeOK
  <2>8. CopyInv'
    <3>1. cons'.values = Append(cons.values, e[Indexify(First + n)])
      BY <1>0, <2>5 DEF TypeOK
    <3>2. Len(cons'.values) = n + 1
      BY <2>1, <2>6, <3>1
    <3>3. ASSUME NEW i \in 1 .. (n + 1)
          PROVE  cons'.values[i] = e[Indexify(First + i - 1)]
      <4>1. CASE i <= n
        <5>1. cons'.values[i] = cons.values[i]
          BY <2>1, <2>6, <3>1, <4>1
        <5>2. i \in 1 .. Len(cons.values)
          BY <2>1, <4>1
        <5> HIDE DEF n
        <5> QED
          BY <1>0, <2>1, <5>1, <5>2 DEF CopyInv
      <4>2. CASE i = n + 1
        <5>1. cons'.values[i] = e[Indexify(First + n)]
          BY <2>1, <2>6, <3>1, <4>2
        <5>2. First + i - 1 = First + n
          BY <2>1, <4>2 DEF First
        <5> QED
          BY <5>1, <5>2
      <4>3. i <= n \/ i = n + 1
        <5>1. n \in Nat
          BY <2>1
        <5> HIDE DEF n
        <5> QED
          BY <5>1
      <4> QED
        BY <4>1, <4>2, <4>3
    <3>4. /\ cons'.pc = cons.pc /\ cons'.head = cons.head /\ cons'.size = cons.size
          /\ cons'.count = cons.count /\ First' = First /\ e' = e /\ idx_head' = idx_head
      BY <1>0, <2>5 DEF TypeOK, First
    <3> HIDE DEF n
    <3> QED
      BY <1>0, <2>1, <3>2, <3>3, <3>4 DEF CopyInv
  <2> QED
    BY <1>0, <2>5, <2>7, <2>8 DEF IInv, IndicesApart, PushInv
<1>6. CASE PublishTail
  <2>1. /\ cons.pc = "copy" /\ cons.values \in Seq(Nat) /\ delivered \in Seq(Nat)
        /\ cons.head \in Nat /\ idx_head \in Nat /\ idx_tail \in Nat
        /\ idx_tail' = cons.head + Capacity
    BY <1>0, <1>6 DEF PublishTail, TypeOK
  <2>2. delivered \o cons.values \in Seq(Nat)
    BY <2>1
  <2>3. TypeOK'
    BY <1>0, <1>6, <2>1, <2>2 DEF PublishTail, TypeOK
  <2>4. idx_tail <= idx_tail' /\ cons.head <= idx_head
    BY <1>0, <2>1 DEF CopyInv, First
  <2>5. PushInv'
    <3>1. prod.len \in Nat /\ prod' = prod /\ idx_head' = idx_head
      BY <1>0, <1>6 DEF PublishTail, TypeOK
    <3> QED
      BY <1>0, <2>1, <2>4, <3>1 DEF PushInv
  <2>6. IndicesApart' /\ (Capacity <= idx_tail)'
    <3>1. idx_head' = idx_head
      BY <1>6 DEF PublishTail
    <3> QED
      BY <1>0, <2>1, <2>4, <3>1 DEF IndicesApart
  <2>7. CopyInv'
    BY <1>6 DEF PublishTail, CopyInv
  <2> QED
    BY <2>3, <2>5, <2>6, <2>7 DEF IInv
<1>7. CASE UNCHANGED vars
  BY <1>0, <1>7
  DEF vars, IInv, TypeOK, IndicesApart, PushInv, CopyInv, First
<1> QED
  BY <1>1, <1>2, <1>3, <1>4, <1>5, <1>6, <1>7 DEF Next, Owner, Reader

\* The invariant holds of every behaviour.
LEMMA IInvHolds == Spec => []IInv
BY InitIInv, NextIInv, PTL DEF Spec

\* Every variable of the queue keeps its type, whatever the two threads do.
THEOREM TypeCorrect == Spec => []TypeOK
<1>1. IInv => TypeOK
  BY DEF IInv
<1> QED
  BY <1>1, IInvHolds, PTL

\* The indices never cross, although each thread reads the other's index
\* without a lock (the assertions of queue.c).
THEOREM IndicesNeverCross == Spec => []IndicesApart
<1>1. IInv => IndicesApart
  BY DEF IInv
<1> QED
  BY <1>1, IInvHolds, PTL

-----------------------------------------------------------------------------
(***************************************************************************)
(* The contents of the ring as a sequence, and the refinement.             *)
(***************************************************************************)

\* The contents are the slots from First to idx_head.
ContentsForm ==
    /\ Contents \in Seq(Nat)
    /\ Len(Contents) = idx_head - First
    /\ idx_head - First \in Nat
    /\ \A i \in 1 .. (idx_head - First) : Contents[i] = e[Indexify(First + i - 1)]

\* The contents have that form in every state of the invariant.
LEMMA ContentsAre == IInv => ContentsForm
<1> SUFFICES ASSUME IInv PROVE ContentsForm
  OBVIOUS
<1> DEFINE n == idx_head - First
           val(i) == e[Indexify(First + i - 1)]
<1>1. /\ idx_head \in Nat /\ idx_tail \in Nat /\ First \in Nat /\ n \in Nat
      /\ e \in [0 .. (Capacity - 1) -> Nat]
  BY CapacityAssumption DEF IInv, TypeOK, IndicesApart, First
<1>2. ASSUME NEW i \in 1 .. n PROVE val(i) \in Nat
  <2>1. First + i - 1 \in Nat
    BY <1>1
  <2> QED
    BY <1>1, <2>1, IndexifyDiv
<1>3. Contents = [i \in 1 .. n |-> val(i)]
  BY DEF Contents, Size, First
<1> HIDE DEF n, val
<1>4. Contents \in [1 .. n -> Nat]
  BY <1>2, <1>3
<1>5. Contents \in Seq(Nat) /\ Len(Contents) = n
  BY <1>1, <1>4
<1> QED
  BY <1>1, <1>3, <1>5 DEF n, val, ContentsForm

\* A pop under way has copied a prefix of the queue and reports the number of
\* pointers it moves, whatever is pushed meanwhile.
THEOREM PopCopiesPrefix == Spec => []CopyIsPrefix
<1>1. IInv => CopyIsPrefix
  <2> SUFFICES ASSUME IInv, cons.pc = "copy" PROVE CopyIsPrefix
    BY DEF CopyIsPrefix
  <2>1. /\ cons.values \in Seq(Nat) /\ Len(cons.values) \in Nat
        /\ idx_head \in Nat /\ cons.head \in Nat /\ First \in Int
    BY CapacityAssumption DEF IInv, TypeOK, First
  <2>2. /\ cons.head <= idx_head /\ cons.size = cons.head - First
        /\ cons.count = cons.size /\ Len(cons.values) <= cons.count
        /\ \A i \in 1 .. Len(cons.values) : cons.values[i] = e[Indexify(First + i - 1)]
    BY DEF IInv, CopyInv
  <2>3. cons.size <= Len(Contents)
    BY <2>1, <2>2, ContentsAre DEF ContentsForm
  <2>4. ASSUME NEW i \in 1 .. Len(cons.values) PROVE cons.values[i] = Contents[i]
    <3>1. i \in 1 .. (idx_head - First)
      BY <2>1, <2>2
    <3> QED
      BY <2>2, <3>1, ContentsAre DEF ContentsForm
  <2> QED
    BY <2>2, <2>3, <2>4 DEF CopyIsPrefix
<1> QED
  BY <1>1, IInvHolds, PTL

\* A step that keeps the indices and the slots in use keeps the contents.
LEMMA ContentsKept ==
    ASSUME IInv, IInv', UNCHANGED <<idx_head, idx_tail>>,
           \A i \in 1 .. (idx_head - First) :
               e'[Indexify(First + i - 1)] = e[Indexify(First + i - 1)]
    PROVE  Contents' = Contents
BY DEF Contents, Size, First

\* The indices of the slots in use differ from the one being written.
LEMMA WriteKeepsContents ==
    ASSUME IInv, IInv', WriteSlot
    PROVE  Contents' = Contents
<1> USE CapacityAssumption
<1>1. /\ prod.k \in Nat /\ prod.len \in Nat /\ idx_head \in Nat /\ idx_tail \in Nat
      /\ First \in Nat /\ idx_tail = First + Capacity /\ First <= idx_head
      /\ prod.k < prod.len /\ idx_head + prod.len < idx_tail
  BY DEF WriteSlot, IInv, TypeOK, PushInv, IndicesApart, First
<1>2. ASSUME NEW i \in 1 .. (idx_head - First)
      PROVE  e'[Indexify(First + i - 1)] = e[Indexify(First + i - 1)]
  <2>1. First + i - 1 \in Nat /\ idx_head + prod.k \in Nat
    BY <1>1
  <2>2. First + i - 1 < idx_head + prod.k
    BY <1>1
  <2>3. (idx_head + prod.k) - (First + i - 1) < Capacity
    BY <1>1
  <2>4. Indexify(First + i - 1) # Indexify(idx_head + prod.k)
    BY <2>1, <2>2, <2>3, IndexifyDistinct
  <2>5. Indexify(First + i - 1) \in 0 .. (Capacity - 1)
    BY <2>1, IndexifyDiv
  <2> QED
    BY <2>4, <2>5 DEF WriteSlot, IInv, TypeOK
<1>3. UNCHANGED <<idx_head, idx_tail>>
  BY DEF WriteSlot
<1> QED
  BY <1>2, <1>3, ContentsKept

\* Moving idx_head is an Enqueue of the bounded queue.
LEMMA PublishIsEnqueue ==
    ASSUME IInv, IInv', PublishHead
    PROVE  Fifo!Enqueue
<1> USE CapacityAssumption
<1>1. /\ idx_head \in Nat /\ prod.len \in Nat /\ prod.len > 0 /\ First \in Int
      /\ idx_head' = idx_head + prod.len /\ First' = First /\ e' = e
      /\ delivered' = delivered
  BY DEF PublishHead, IInv, TypeOK, PushInv, First
<1>2. ContentsForm /\ ContentsForm'
  BY ContentsAre, PTL
<1>3. /\ Contents' \in Seq(Nat) /\ Len(Contents') = idx_head' - First
      /\ idx_head' - First \in Nat
      /\ \A i \in 1 .. (idx_head' - First) : Contents'[i] = e[Indexify(First + i - 1)]
  BY <1>1, <1>2 DEF ContentsForm
<1>4. Len(Contents') > Len(Contents)
  BY <1>1, <1>2, <1>3 DEF ContentsForm
<1>5. Len(Contents') <= Capacity - 1
  <2>1. idx_head' < idx_tail' /\ idx_tail' \in Nat
    BY DEF IInv, TypeOK, IndicesApart
  <2>2. First' = idx_tail' - Capacity
    BY DEF First
  <2> QED
    BY <1>1, <1>3, <2>1, <2>2
<1>6. Contents = SubSeq(Contents', 1, Len(Contents))
  <2>1. ASSUME NEW i \in 1 .. Len(Contents) PROVE Contents[i] = Contents'[i]
    <3>1. i \in 1 .. (idx_head - First)
      BY <1>2 DEF ContentsForm
    <3>2. i \in 1 .. (idx_head' - First)
      BY <1>1, <3>1
    <3> QED
      BY <1>2, <1>3, <3>1, <3>2 DEF ContentsForm
  <2>2. Contents \in Seq(Nat) /\ Len(Contents) <= Len(Contents')
    BY <1>1, <1>2, <1>3 DEF ContentsForm
  <2> QED
    BY <1>3, <2>1, <2>2, PrefixIsSubSeq
<1> QED
  BY <1>1, <1>4, <1>5, <1>6 DEF Fifo!Enqueue

\* Moving idx_tail is a Dequeue of the bounded queue, or changes nothing when
\* there was no room to pop into.
LEMMA PublishIsDequeue ==
    ASSUME IInv, IInv', PublishTail
    PROVE  Fifo!Dequeue \/ UNCHANGED <<Contents, delivered>>
<1> USE CapacityAssumption
<1>1. /\ idx_head \in Nat /\ idx_tail \in Nat /\ cons.head \in Nat /\ First \in Int
      /\ cons.values \in Seq(Nat) /\ delivered \in Seq(Nat) /\ cons.pc = "copy"
      /\ idx_head' = idx_head /\ e' = e /\ delivered' = delivered \o cons.values
      /\ idx_tail' = cons.head + Capacity
      /\ Len(cons.values) = cons.count
  BY DEF PublishTail, IInv, TypeOK, First
<1>2. PICK n \in Nat : n = Len(cons.values)
  BY <1>1
<1>3. /\ cons.head <= idx_head /\ n = cons.head - First
      /\ \A i \in 1 .. n : cons.values[i] = e[Indexify(First + i - 1)]
  BY <1>1, <1>2 DEF IInv, CopyInv
<1>4. First' = First + n
  BY <1>1, <1>3 DEF First
<1>5. ContentsForm /\ ContentsForm'
  BY ContentsAre, PTL
<1>6. PICK m \in Nat : m = idx_head - First /\ m = Len(Contents)
  BY <1>5 DEF ContentsForm
<1>7. n <= m /\ idx_head' - First' = m - n
  BY <1>1, <1>3, <1>4, <1>6
<1>8. CASE n = 0
  <2>1. cons.values = << >>
    BY <1>1, <1>2, <1>8
  <2>2. delivered' = delivered
    BY <1>1, <2>1
  <2>3. First' = First
    BY <1>1, <1>4, <1>8
  <2>4. idx_tail' = idx_tail
    BY <1>1, <2>3 DEF First
  <2> QED
    BY <1>1, <2>2, <2>4 DEF Contents, Size
<1>9. CASE n > 0
  <2>1. cons.values = SubSeq(Contents, 1, n)
    <3>1. ASSUME NEW i \in 1 .. n PROVE cons.values[i] = Contents[i]
      <4>1. i \in 1 .. (idx_head - First)
        BY <1>6, <1>7
      <4> QED
        BY <1>3, <1>5, <4>1 DEF ContentsForm
    <3>2. Contents \in Seq(Nat)
      BY <1>5 DEF ContentsForm
    <3> QED
      BY <1>1, <1>2, <1>6, <1>7, <3>1, <3>2, PrefixIsSubSeq
  <2>2. Contents' = SubSeq(Contents, n + 1, Len(Contents))
    <3>1. /\ Contents \in Seq(Nat) /\ Contents' \in Seq(Nat)
          /\ Len(Contents') = Len(Contents) - n
      BY <1>5, <1>6, <1>7 DEF ContentsForm
    <3>2. ASSUME NEW i \in 1 .. Len(Contents') PROVE Contents'[i] = Contents[n + i]
      <4>1. i \in 1 .. (m - n)
        BY <1>6, <3>1
      <4>2. n + i \in 1 .. m
        BY <1>7, <4>1
      <4>3. First + (n + i) - 1 = (First + n) + i - 1
        BY <1>1, <4>1
      <4>4. Contents[n + i] = e[Indexify(First + (n + i) - 1)]
        BY <1>5, <1>6, <4>2 DEF ContentsForm
      <4>5. Contents'[i] = e[Indexify((First + n) + i - 1)]
        BY <1>1, <1>4, <1>5, <1>7, <4>1 DEF ContentsForm
      <4> QED
        BY <4>3, <4>4, <4>5
    <3> QED
      BY <3>1, <3>2, SuffixIsSubSeq
  <2>3. n \in 1 .. Len(Contents)
    BY <1>6, <1>7, <1>9
  <2> QED
    BY <1>1, <2>1, <2>2, <2>3 DEF Fifo!Dequeue
<1> QED
  BY <1>8, <1>9

\* The ring of queue.c, with its lock-free accesses, implements an atomic
\* bounded first-in first-out queue of Capacity - 1 pointers: "linearizable
\* [...] assuming single-reader, single-writer usage" (queue.h).
THEOREM ImplementsFifo == Spec => FifoSpec
<1>1. Init => Fifo!Init
  BY CapacityAssumption DEF Init, Fifo!Init, Contents, Size
<1>2. ASSUME IInv, IInv', [Next]_vars
      PROVE  [Fifo!Next]_<<Contents, delivered>>
  <2>1. ASSUME NEW len \in 1 .. MaxLen, BeginPush(len)
        PROVE  UNCHANGED <<Contents, delivered>>
    BY <2>1 DEF BeginPush, Contents, Size
  <2>2. CASE WriteSlot
    BY <1>2, <2>2, WriteKeepsContents DEF WriteSlot
  <2>3. CASE PublishHead
    BY <1>2, <2>3, PublishIsEnqueue DEF Fifo!Next
  <2>4. ASSUME NEW len \in 0 .. MaxLen, BeginPop(len)
        PROVE  UNCHANGED <<Contents, delivered>>
    BY <2>4 DEF BeginPop, Contents, Size
  <2>5. CASE CopySlot
    BY <2>5 DEF CopySlot, Contents, Size
  <2>6. CASE PublishTail
    BY <1>2, <2>6, PublishIsDequeue DEF Fifo!Next
  <2>7. CASE UNCHANGED vars
    BY <2>7 DEF vars, Contents, Size
  <2> QED
    BY <1>2, <2>1, <2>2, <2>3, <2>4, <2>5, <2>6, <2>7 DEF Next, Owner, Reader
<1> QED
  BY <1>1, <1>2, IInvHolds, PTL DEF Spec, FifoSpec, Fifo!Spec
=============================================================================
