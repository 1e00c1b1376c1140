--------------------------- MODULE Marking_proofs ---------------------------
(***************************************************************************)
(* Proofs about Marking, for every pool, every number of siblings and      *)
(* ranges and every size of the lookaside list: only nodes that can be     *)
(* reached are marked, the parent is told only when the roots of every     *)
(* range are marked, and no mark changes afterwards.                       *)
(***************************************************************************)
EXTENDS Marking, FiniteSetTheorems, TLAPS

-----------------------------------------------------------------------------
(***************************************************************************)
(* The inductive invariant.                                                *)
(***************************************************************************)
Ranges == 0 .. (NRanges - 1)

Frame(S) == [node : S, todo : SUBSET S]

Sibling == [pc : PcValues, range : SUBSET Nodes, lookaside : SUBSET Nodes,
            count : 0 .. LookasideSize, ret : {"scan", "report"},
            stack : Seq(Frame(Nodes)), target : SUBSET Nodes,
            completed : 0 .. NRanges]

\* The sibling x is in the middle of a range, or in a lookup that returns to one.
Middle(x) == x.pc = "scan" \/ (x.pc = "lookup" /\ x.ret = "scan")

\* The ranges that it has claimed and not reported.
Owed(x) == x.completed + (IF Middle(x) THEN 1 ELSE 0)

\* The words it has read and not marked.
Pending(x) == x.range \cup x.lookaside \cup x.target

Live(x) == x.pc \notin {"notify", "exited", "killed"}

\* The locals of a sibling.  One that has words to look up has been through a
\* range, or is in the middle of one.
LocalInv(x) ==
    /\ x.range # {} => Middle(x)
    /\ x.target # {} \/ x.stack # <<>> => x.pc = "lookup"
    /\ \A m, n \in x.target : m = n
    /\ x.count = 0 => x.lookaside = {}
    /\ x.pc = "lookup" /\ x.ret = "report" => x.completed > 0
    /\ x.pc \in {"claim", "rest"} /\ x.count > 0 => x.completed > 0
    /\ x.pc \in {"unborn", "fork", "report"} => x.count = 0
    /\ x.pc # "lookup" => x.count < LookasideSize

\* Whatever it has read can be reached.
ReadsReachable(x) ==
    /\ Pending(x) \subseteq Reachable
    /\ x.stack \in Seq(Frame(Reachable))

(***************************************************************************)
(* The code only counts the ranges.  The invariant says who has which: own *)
(* gives every claimed range to the sibling that claimed it, and done are  *)
(* the ranges whose siblings have reported them.  The ranges of a sibling  *)
(* that was killed are never done.                                         *)
(***************************************************************************)
Mine(own, done, s) == {r \in Ranges : r < root_counter /\ r \notin done /\ own[r] = s}

Shares(own, done) ==
    /\ \A r \in done : r < root_counter /\ roots[r] \subseteq marked
    /\ roots_completed = Cardinality(done)
    /\ \A s \in Siblings : Live(sib[s]) =>
          /\ Cardinality(Mine(own, done, s)) = Owed(sib[s])
          /\ \A r \in Mine(own, done, s) : roots[r] \subseteq marked \cup Pending(sib[s])

ShareInv == \E own \in [Ranges -> Siblings], done \in SUBSET Ranges : Shares(own, done)

ToldInv ==
    (written > 0 \/ \E s \in Siblings : sib[s].pc = "notify") => roots_completed = NRanges

SiblingInv == \A s \in Siblings : LocalInv(sib[s]) /\ ReadsReachable(sib[s])

IInv == TypeOK /\ SiblingInv /\ marked \subseteq Reachable /\ ShareInv /\ ToldInv

-----------------------------------------------------------------------------
(***************************************************************************)
(* Facts about the operators.                                              *)
(***************************************************************************)
LEMMA Types ==
    ASSUME TypeOK
    PROVE  /\ sib \in [Siblings -> Sibling]
           /\ words \in [Nodes -> SUBSET Nodes]
           /\ roots \in [Ranges -> SUBSET Nodes]
BY DEF TypeOK, Sibling, Ranges, Frame

LEMMA ReachableClosed ==
    ASSUME TypeOK
    PROVE  /\ Reachable \subseteq Nodes
           /\ \A r \in Ranges : roots[r] \subseteq Reachable
           /\ \A n \in Reachable : words[n] \subseteq Reachable
<1>1. \A r \in Ranges : roots[r] \subseteq RootNodes /\ roots[r] \subseteq Nodes
  BY Types DEF RootNodes, Ranges
<1>2. \A r \in Ranges : roots[r] \subseteq Reachable
  BY <1>1 DEF Reachable
<1>3. ASSUME NEW n \in Reachable, NEW m \in words[n] PROVE m \in Reachable
  <2>1. n \in Nodes /\ m \in Nodes
    BY <1>3, Types DEF Reachable
  <2>2. ASSUME NEW S \in SUBSET Nodes, RootNodes \subseteq S, Closed(S) PROVE m \in S
    BY <2>2 DEF Reachable, Closed
  <2> QED
    BY <2>1, <2>2 DEF Reachable
<1> QED
  BY <1>2, <1>3 DEF Reachable

LEMMA RangesFinite ==
    /\ IsFiniteSet(Ranges) /\ Cardinality(Ranges) = NRanges
    /\ \A S \in SUBSET Ranges : /\ IsFiniteSet(S) /\ Cardinality(S) \in 0 .. NRanges
                                /\ Cardinality(S) = NRanges => S = Ranges
<1>1. IsFiniteSet(Ranges) /\ Cardinality(Ranges) = NRanges
  BY SizesAssumption, FS_Interval DEF Ranges
<1>2. ASSUME NEW S \in SUBSET Ranges
      PROVE  /\ IsFiniteSet(S) /\ Cardinality(S) \in 0 .. NRanges
             /\ Cardinality(S) = NRanges => S = Ranges
  BY <1>1, FS_Subset, FS_CardinalityType, SizesAssumption
<1> QED
  BY <1>1, <1>2

\* A sibling owes at most all ranges.
LEMMA OwedBounds ==
    ASSUME IInv, NEW s \in Siblings, Live(sib[s])
    PROVE  Owed(sib[s]) \in 0 .. NRanges
<1>1. PICK own \in [Ranges -> Siblings], done \in SUBSET Ranges : Shares(own, done)
  BY DEF IInv, ShareInv
<1>2. Cardinality(Mine(own, done, s)) = Owed(sib[s])
  BY <1>1 DEF Shares
<1>3. Mine(own, done, s) \in SUBSET Ranges
  BY DEF Mine
<1> QED
  BY <1>2, <1>3, RangesFinite

LEMMA InitIInv == Init => IInv
<1> SUFFICES ASSUME Init PROVE IInv
  OBVIOUS
<1> USE SizesAssumption DEF Init
<1>1. words \in [Nodes -> SUBSET Nodes] /\ roots \in [Ranges -> SUBSET Nodes]
  BY DEF SmallSets, Ranges
<1>2. \A c \in PcValues : NewSibling(c) \in Sibling /\ NewSibling(c).pc = c
  <2>1. <<>> \in Seq(Frame(Nodes)) /\ 0 \in 0 .. LookasideSize /\ 0 \in 0 .. NRanges
    OBVIOUS
  <2> QED
    BY <2>1 DEF NewSibling, Sibling
<1>3. {"fork", "unborn"} \subseteq PcValues
  BY DEF PcValues
<1>4. /\ sib \in [Siblings -> Sibling]
      /\ \A s \in Siblings : \E c \in {"fork", "unborn"} : sib[s] = NewSibling(c)
  BY <1>2, <1>3
<1>5. TypeOK
  <2>1. /\ marked \subseteq Nodes /\ root_counter \in Nat
        /\ roots_completed \in 0 .. NRanges
        /\ written \in Nat /\ parent \in {"waiting", "done", "fatal"}
    OBVIOUS
  <2> HIDE DEF Init
  <2> QED
    BY <1>1, <1>4, <2>1 DEF TypeOK, Sibling, Ranges, Frame
<1>6. ASSUME NEW c \in {"fork", "unborn"}
      PROVE  /\ LocalInv(NewSibling(c)) /\ ReadsReachable(NewSibling(c))
             /\ Owed(NewSibling(c)) = 0 /\ NewSibling(c).pc # "notify"
  BY DEF NewSibling, LocalInv, ReadsReachable, Owed, Middle, Pending
<1>7. SiblingInv /\ ToldInv
  BY <1>4, <1>6 DEF SiblingInv, ToldInv
<1>8. ShareInv
  <2> DEFINE own == [r \in Ranges |-> Main]
  <2>1. own \in [Ranges -> Siblings]
    BY SiblingsAssumption
  <2>2. \A s : Mine(own, {}, s) = {}
    BY DEF Mine, Ranges
  <2>3. Shares(own, {})
    BY <1>4, <1>6, <2>2, FS_EmptySet DEF Shares
  <2> QED
    BY <2>1, <2>3 DEF ShareInv
<1> QED
  BY <1>5, <1>7, <1>8 DEF IInv

-----------------------------------------------------------------------------
(***************************************************************************)
(* The steps of a sibling between its claims and its report.  What it owes *)
(* does not change, and what it has read is still there or marked.         *)
(***************************************************************************)
LEMMA QuietStep ==
    ASSUME IInv, NEW s \in Siblings, NEW x \in Sibling, sib' = [sib EXCEPT ![s] = x],
           LocalInv(x), ReadsReachable(x),
           marked \subseteq marked', marked' \subseteq Reachable,
           UNCHANGED <<words, roots, root_counter, roots_completed, parent>>,
           written' \in Nat,
           written' > 0 \/ x.pc = "notify" => roots_completed = NRanges,
           Live(x) => /\ Live(sib[s]) /\ Owed(x) = Owed(sib[s])
                      /\ Pending(sib[s]) \subseteq Pending(x) \cup marked'
    PROVE  IInv'
<1>1. /\ TypeOK /\ SiblingInv /\ ShareInv /\ ToldInv
      /\ sib \in [Siblings -> Sibling]
  BY Types DEF IInv
<1>2. /\ sib' \in [Siblings -> Sibling] /\ sib'[s] = x
      /\ \A u \in Siblings : u # s => sib'[u] = sib[u]
  BY <1>1
<1>3. Reachable' = Reachable
  BY DEF Reachable, RootNodes, Closed
<1>4. TypeOK'
  <2>1. marked' \subseteq Nodes
    BY <1>1, ReachableClosed
  <2> QED
    BY <1>1, <1>2, <2>1 DEF TypeOK, Sibling, Frame
<1>5. SiblingInv'
  <2>1. \A y : ReadsReachable(y)' = ReadsReachable(y)
    BY <1>3 DEF ReadsReachable
  <2>2. \A u \in Siblings : LocalInv(sib'[u]) /\ ReadsReachable(sib'[u])
    BY <1>1, <1>2 DEF SiblingInv
  <2>3. \A u \in Siblings : LocalInv(sib[u])' /\ ReadsReachable(sib[u])'
    BY <1>3, <2>2 DEF LocalInv, ReadsReachable, Middle, Pending
  <2> QED
    BY <2>3 DEF SiblingInv
<1>6. ToldInv'
  BY <1>1, <1>2 DEF ToldInv
<1>7. ShareInv'
  <2>1. PICK own \in [Ranges -> Siblings], done \in SUBSET Ranges : Shares(own, done)
    BY <1>1 DEF ShareInv
  <2>2. \A u : Mine(own, done, u)' = Mine(own, done, u)
    BY DEF Mine
  <2>3. ASSUME NEW u \in Siblings, Live(sib'[u])
        PROVE  /\ Cardinality(Mine(own, done, u)) = Owed(sib'[u])
               /\ \A r \in Mine(own, done, u) :
                     roots[r] \subseteq marked' \cup Pending(sib'[u])
    <3>1. CASE u = s
      BY <1>2, <2>1, <2>3, <3>1 DEF Shares
    <3>2. CASE u # s
      BY <1>2, <2>1, <2>3, <3>2 DEF Shares
    <3> QED
      BY <3>1, <3>2
  <2>4. Shares(own, done)'
    <3>1. \A r \in done : r < root_counter' /\ roots'[r] \subseteq marked'
      BY <2>1 DEF Shares
    <3>2. roots_completed' = Cardinality(done)
      BY <2>1 DEF Shares
    <3>3. ASSUME NEW u \in Siblings, Live(sib[u])'
          PROVE  /\ Cardinality(Mine(own, done, u)') = Owed(sib[u])'
                 /\ \A r \in Mine(own, done, u)' :
                       roots'[r] \subseteq marked' \cup Pending(sib[u])'
      <4>1. Live(sib'[u])
        BY <3>3 DEF Live
      <4> QED
        BY <2>2, <2>3, <4>1 DEF Owed, Middle, Pending
    <3> QED
      BY <3>1, <3>2, <3>3 DEF Shares
  <2> QED
    BY <2>4 DEF ShareInv
<1> QED
  BY <1>3, <1>4, <1>5, <1>6, <1>7 DEF IInv

\* What is known of the sibling that takes a step.
LEMMA Own ==
    ASSUME IInv, NEW s \in Siblings
    PROVE  /\ sib[s] \in Sibling /\ LocalInv(sib[s]) /\ ReadsReachable(sib[s])
           /\ sib \in [Siblings -> Sibling] /\ marked \subseteq Reachable
           /\ Reachable \subseteq Nodes /\ written \in Nat
           /\ written > 0 => roots_completed = NRanges
BY Types, ReachableClosed DEF IInv, SiblingInv, ToldInv, TypeOK

\* A sibling that only moves its pc.
LEMMA MovePc ==
    ASSUME IInv, NEW s \in Siblings, NEW c \in {"claim", "exited"},
           sib' = [sib EXCEPT ![s].pc = c],
           sib[s].pc \in {"unborn", "fork"} \/ (sib[s].pc = "notify" /\ c = "exited"),
           UNCHANGED <<words, roots, marked, root_counter, roots_completed, parent>>,
           written' \in Nat, written' > 0 => roots_completed = NRanges
    PROVE  IInv'
<1> DEFINE x == [sib[s] EXCEPT !.pc = c]
<1>1. sib' = [sib EXCEPT ![s] = x]
  BY Zenon
<1>2. /\ sib[s] \in Sibling /\ LocalInv(sib[s]) /\ ReadsReachable(sib[s])
      /\ marked \subseteq Reachable
  BY Own
<1>3. c \in PcValues
  BY DEF PcValues
<1>4. /\ x \in Sibling /\ x.pc = c /\ x.range = sib[s].range /\ x.target = sib[s].target
      /\ x.lookaside = sib[s].lookaside /\ x.stack = sib[s].stack
      /\ x.count = sib[s].count /\ x.completed = sib[s].completed
  BY <1>2, <1>3 DEF Sibling
<1> HIDE DEF x
<1>5. LocalInv(x) /\ ReadsReachable(x) /\ Pending(x) = Pending(sib[s])
  <2>1. x.count \in Nat /\ (sib[s].pc # "notify" => x.count = 0)
    BY <1>2, <1>4, SizesAssumption DEF LocalInv, Sibling
  <2> QED
    BY <1>2, <1>4, <2>1 DEF LocalInv, ReadsReachable, Pending, Middle
<1>6. Live(x) => Live(sib[s]) /\ Owed(x) = Owed(sib[s])
  BY <1>4 DEF Live, Owed, Middle
<1> QED
  BY <1>1, <1>2, <1>4, <1>5, <1>6, QuietStep

LEMMA ForkStep ==
    ASSUME IInv, NEW s \in Siblings, ForkSibling(s) \/ (s = Main /\ ForkingDone)
    PROVE  IInv'
<1>1. PICK c \in {"claim", "exited"} : sib' = [sib EXCEPT ![s].pc = c]
  BY DEF ForkSibling, ForkingDone
<1>2. written \in Nat /\ (written > 0 => roots_completed = NRanges)
  BY Own
<1> QED
  BY <1>1, <1>2, MovePc DEF ForkSibling, ForkingDone, snapshot

LEMMA NotifyStep ==
    ASSUME IInv, NEW s \in Siblings, Notify(s)
    PROVE  IInv'
<1>1. written \in Nat /\ written' = written + 1 /\ roots_completed = NRanges
  BY Own DEF Notify, IInv, ToldInv
<1>2. written' \in Nat /\ "exited" \in {"claim", "exited"}
  BY <1>1
<1>3. sib[s].pc = "notify" /\ sib' = [sib EXCEPT ![s].pc = "exited"]
  BY DEF Notify
<1>4. UNCHANGED <<words, roots, marked, root_counter, roots_completed, parent>>
  BY DEF Notify, snapshot
<1> QED
  BY <1>1, <1>2, <1>3, <1>4, MovePc

LEMMA SetAsideStep ==
    ASSUME IInv, NEW s \in Siblings, SetAside(s)
    PROVE  IInv'
<1>1. PICK n \in sib[s].range :
         sib' = [sib EXCEPT ![s].range = @ \ {n}, ![s].lookaside = @ \cup {n},
                            ![s].count = @ + 1, ![s].ret = "scan",
                            ![s].pc = IF sib[s].count + 1 < LookasideSize
                                      THEN "scan" ELSE "lookup"]
  BY DEF SetAside
<1>2. /\ sib[s] \in Sibling /\ LocalInv(sib[s]) /\ ReadsReachable(sib[s])
      /\ marked \subseteq Reachable /\ written \in Nat
      /\ (written > 0 => roots_completed = NRanges)
  BY Own
<1>3. PICK y \in Sibling : y = sib[s]
  BY <1>2
<1>4. PICK c \in {"scan", "lookup"} :
         /\ c = IF y.count + 1 < LookasideSize THEN "scan" ELSE "lookup"
         /\ c = "scan" => y.count + 1 < LookasideSize
  OBVIOUS
<1>5. y.pc = "scan" /\ y.count \in Nat /\ y.count + 1 \in 1 .. LookasideSize
  BY <1>2, <1>3, SizesAssumption DEF SetAside, LocalInv, Sibling
<1> DEFINE x == [y EXCEPT !.range = y.range \ {n}, !.lookaside = y.lookaside \cup {n},
                          !.count = y.count + 1, !.ret = "scan", !.pc = c]
<1>6. sib' = [sib EXCEPT ![s] = x]
  BY <1>1, <1>3, <1>4
<1>7. /\ x \in Sibling /\ x.pc = c /\ x.range = y.range \ {n} /\ x.target = y.target
      /\ x.lookaside = y.lookaside \cup {n} /\ x.stack = y.stack /\ x.ret = "scan"
      /\ x.count = y.count + 1 /\ x.completed = y.completed
  <2>1. /\ c \in PcValues /\ y.count + 1 \in 0 .. LookasideSize /\ n \in Nodes
        /\ "scan" \in {"scan", "report"}
    BY <1>1, <1>3, <1>4, <1>5, SizesAssumption DEF PcValues, Sibling
  <2> QED
    BY <2>1 DEF Sibling
<1> HIDE DEF x
<1>8. LocalInv(x)
  BY <1>2, <1>3, <1>4, <1>5, <1>7 DEF LocalInv, Middle
<1>9. ReadsReachable(x) /\ Pending(x) = Pending(y)
  BY <1>1, <1>2, <1>3, <1>7 DEF ReadsReachable, Pending
<1>10. Live(y) /\ Owed(x) = Owed(y)
  BY <1>4, <1>5, <1>7 DEF Live, Owed, Middle
<1>11. x.pc # "notify"
  BY <1>4, <1>7
<1> QED
  BY <1>2, <1>3, <1>6, <1>7, <1>8, <1>9, <1>10, <1>11, QuietStep DEF SetAside, snapshot

LEMMA RangeDoneStep ==
    ASSUME IInv, NEW s \in Siblings, RangeDone(s)
    PROVE  IInv'
<1>1. /\ sib[s] \in Sibling /\ LocalInv(sib[s]) /\ ReadsReachable(sib[s])
      /\ marked \subseteq Reachable /\ written \in Nat
      /\ (written > 0 => roots_completed = NRanges)
  BY Own
<1>2. PICK y \in Sibling : y = sib[s]
  BY <1>1
<1>3. y.pc = "scan" /\ y.range = {} /\ Live(y) /\ Owed(y) = y.completed + 1
  BY <1>2 DEF RangeDone, Live, Owed, Middle
<1>4. y.completed + 1 \in 0 .. NRanges /\ y.completed \in Nat
  BY <1>2, <1>3, OwedBounds, SizesAssumption DEF Sibling
<1> DEFINE x == [y EXCEPT !.pc = "claim", !.completed = y.completed + 1]
<1>5. sib' = [sib EXCEPT ![s] = x]
  BY <1>2 DEF RangeDone
<1>6. /\ x \in Sibling /\ x.pc = "claim" /\ x.range = y.range /\ x.target = y.target
      /\ x.lookaside = y.lookaside /\ x.stack = y.stack
      /\ x.count = y.count /\ x.completed = y.completed + 1
  BY <1>4 DEF Sibling, PcValues
<1> HIDE DEF x
<1>7. LocalInv(x)
  BY <1>1, <1>2, <1>3, <1>4, <1>6 DEF LocalInv
<1>8. ReadsReachable(x) /\ Pending(x) = Pending(y)
  BY <1>1, <1>2, <1>6 DEF ReadsReachable, Pending
<1>9. Owed(x) = Owed(y)
  BY <1>3, <1>4, <1>6 DEF Owed, Middle
<1> QED
  BY <1>1, <1>2, <1>3, <1>5, <1>6, <1>7, <1>8, <1>9, QuietStep DEF RangeDone, snapshot

LEMMA RemainderStep ==
    ASSUME IInv, NEW s \in Siblings, Remainder(s)
    PROVE  IInv'
<1>1. /\ sib[s] \in Sibling /\ LocalInv(sib[s]) /\ ReadsReachable(sib[s])
      /\ marked \subseteq Reachable /\ written \in Nat
      /\ (written > 0 => roots_completed = NRanges)
  BY Own
<1>2. PICK y \in Sibling : y = sib[s]
  BY <1>1
<1>3. y.pc = "rest" /\ Live(y) /\ Owed(y) = y.completed /\ y.count \in Nat
  BY <1>2, SizesAssumption DEF Remainder, Live, Owed, Middle, Sibling
<1>4. PICK c \in {"report", "lookup"} :
         /\ c = IF y.count = 0 THEN "report" ELSE "lookup"
         /\ c = "report" <=> y.count = 0
  OBVIOUS
<1> DEFINE x == [y EXCEPT !.pc = c, !.ret = "report"]
<1>5. sib' = [sib EXCEPT ![s] = x]
  BY <1>2, <1>4 DEF Remainder
<1>6. /\ x \in Sibling /\ x.pc = c /\ x.range = y.range /\ x.target = y.target
      /\ x.lookaside = y.lookaside /\ x.stack = y.stack /\ x.ret = "report"
      /\ x.count = y.count /\ x.completed = y.completed
  BY <1>4 DEF Sibling, PcValues
<1> HIDE DEF x
<1>7. LocalInv(x)
  BY <1>1, <1>2, <1>3, <1>4, <1>6, SizesAssumption DEF LocalInv, Middle
<1>8. ReadsReachable(x) /\ Pending(x) = Pending(y)
  BY <1>1, <1>2, <1>6 DEF ReadsReachable, Pending
<1>9. Owed(x) = Owed(y) /\ x.pc # "notify"
  BY <1>3, <1>4, <1>6 DEF Owed, Middle, Sibling
<1> QED
  BY <1>1, <1>2, <1>3, <1>5, <1>6, <1>7, <1>8, <1>9, QuietStep DEF Remainder, snapshot

-----------------------------------------------------------------------------
(***************************************************************************)
(* The steps of a lookup.                                                  *)
(***************************************************************************)
\* What the calls and returns of recursive_mark do to a stack of frames over S.
LEMMA StackOps ==
    ASSUME NEW S, NEW q \in Seq(Frame(S))
    PROVE  /\ \A f \in Frame(S) : <<f>> \in Seq(Frame(S)) /\ <<f>> \o q \in Seq(Frame(S))
           /\ q # <<>> =>
                 /\ Head(q) \in Frame(S) /\ Tail(q) \in Seq(Frame(S))
                 /\ \A n : [q EXCEPT ![1].todo = @ \ {n}] \in Seq(Frame(S))
<1>1. \A f \in Frame(S) : <<f>> \in Seq(Frame(S)) /\ <<f>> \o q \in Seq(Frame(S))
  OBVIOUS
<1>2. ASSUME q # <<>>
      PROVE  /\ Head(q) \in Frame(S) /\ Tail(q) \in Seq(Frame(S))
             /\ \A n : [q EXCEPT ![1].todo = @ \ {n}] \in Seq(Frame(S))
  <2>1. /\ Head(q) \in Frame(S) /\ Tail(q) \in Seq(Frame(S))
        /\ 1 \in DOMAIN q /\ q[1] \in Frame(S)
    BY <1>2
  <2>2. ASSUME NEW n PROVE [q EXCEPT ![1].todo = @ \ {n}] \in Seq(Frame(S))
    <3> DEFINE f == [q[1] EXCEPT !.todo = q[1].todo \ {n}]
    <3>1. f \in Frame(S)
      BY <2>1 DEF Frame
    <3>2. [q EXCEPT ![1].todo = @ \ {n}] = [q EXCEPT ![1] = f]
      OBVIOUS
    <3> HIDE DEF f
    <3>3. [q EXCEPT ![1] = f] \in Seq(Frame(S))
      BY <2>1, <3>1
    <3> QED
      BY <3>2, <3>3
  <2> QED
    BY <2>1, <2>2
<1> QED
  BY <1>1, <1>2

\* A step within a lookup: the pc stays, words read are reachable, and none is
\* dropped that is not marked.
LEMMA WithinLookup ==
    ASSUME IInv, NEW s \in Siblings, NEW la \in SUBSET Nodes,
           NEW st \in Seq(Frame(Nodes)), NEW tg \in SUBSET Nodes,
           sib[s].pc = "lookup",
           sib' = [sib EXCEPT ![s] = [sib[s] EXCEPT !.lookaside = la, !.stack = st,
                                                    !.target = tg]],
           la \subseteq sib[s].lookaside, tg \subseteq Reachable, \A m, n \in tg : m = n,
           st \in Seq(Frame(Reachable)),
           sib[s].lookaside \cup sib[s].target \subseteq la \cup tg \cup marked',
           marked \subseteq marked', marked' \subseteq Reachable,
           UNCHANGED <<words, roots, root_counter, roots_completed, written, parent>>
    PROVE  IInv'
<1>1. /\ sib[s] \in Sibling /\ LocalInv(sib[s]) /\ ReadsReachable(sib[s])
      /\ written \in Nat /\ (written > 0 => roots_completed = NRanges)
  BY Own
<1>2. PICK y \in Sibling : y = sib[s]
  BY <1>1
<1> DEFINE x == [y EXCEPT !.lookaside = la, !.stack = st, !.target = tg]
<1>3. sib' = [sib EXCEPT ![s] = x]
  BY <1>2
<1>4. /\ x \in Sibling /\ x.pc = "lookup" /\ x.range = y.range /\ x.target = tg
      /\ x.lookaside = la /\ x.stack = st /\ x.ret = y.ret
      /\ x.count = y.count /\ x.completed = y.completed
  BY <1>2 DEF Sibling
<1> HIDE DEF x
<1>5. LocalInv(x)
  BY <1>1, <1>2, <1>4 DEF LocalInv, Middle
<1>6. ReadsReachable(x)
  BY <1>1, <1>2, <1>4 DEF ReadsReachable, Pending
<1>7. Live(y) /\ Owed(x) = Owed(y) /\ Pending(y) \subseteq Pending(x) \cup marked'
  BY <1>2, <1>4 DEF Live, Owed, Middle, Pending
<1> QED
  BY <1>1, <1>2, <1>3, <1>4, <1>5, <1>6, <1>7, QuietStep

LEMMA LookupWordStep ==
    ASSUME IInv, NEW s \in Siblings, LookupWord(s)
    PROVE  IInv'
<1>1. PICK n \in sib[s].lookaside :
         sib' = [sib EXCEPT ![s].lookaside = @ \ {n},
                            ![s].target = IF n \in marked THEN {} ELSE {n}]
  BY DEF LookupWord
<1>2. PICK tg : tg = IF n \in marked THEN {} ELSE {n}
  OBVIOUS
<1>3. /\ sib[s] \in Sibling /\ ReadsReachable(sib[s]) /\ marked \subseteq Reachable
      /\ Reachable \subseteq Nodes /\ sib[s].pc = "lookup" /\ sib[s].target = {}
  BY Own DEF LookupWord, InLookup
<1>4. PICK y \in Sibling : y = sib[s]
  BY <1>3
<1>5. PICK la : la = y.lookaside \ {n}
  OBVIOUS
<1>6. sib' = [sib EXCEPT ![s] = [y EXCEPT !.lookaside = la, !.stack = y.stack,
                                         !.target = tg]]
  BY <1>1, <1>2, <1>4, <1>5 DEF Sibling
<1>7. /\ la \in SUBSET Nodes /\ y.stack \in Seq(Frame(Nodes))
      /\ tg \in SUBSET Nodes
  BY <1>1, <1>2, <1>4, <1>5 DEF Sibling
<1>8. /\ tg \subseteq Reachable /\ y.stack \in Seq(Frame(Reachable))
      /\ y.lookaside \cup y.target \subseteq la \cup tg \cup marked
  BY <1>1, <1>2, <1>3, <1>4, <1>5 DEF ReadsReachable, Pending
<1>9. UNCHANGED <<words, roots, marked, root_counter, roots_completed, written, parent>>
  BY DEF LookupWord, snapshot
<1>10. (\A m, k \in tg : m = k) /\ la \subseteq y.lookaside
  BY <1>2, <1>5
<1>11. /\ sib' = [sib EXCEPT ![s] = [sib[s] EXCEPT !.lookaside = la, !.stack = y.stack,
                                                   !.target = tg]]
       /\ sib[s].pc = "lookup" /\ la \subseteq sib[s].lookaside
       /\ sib[s].lookaside \cup sib[s].target \subseteq la \cup tg \cup marked'
       /\ marked \subseteq marked' /\ marked' \subseteq Reachable
  BY <1>3, <1>4, <1>6, <1>8, <1>9, <1>10
<1> QED
  BY <1>7, <1>8, <1>9, <1>10, <1>11, WithinLookup

LEMMA MarkWordStep ==
    ASSUME IInv, NEW s \in Siblings, MarkWord(s)
    PROVE  IInv'
<1>1. PICK n \in Head(sib[s].stack).todo :
         sib' = [sib EXCEPT ![s].stack[1].todo = @ \ {n},
                            ![s].target = IF n \in marked THEN {} ELSE {n}]
  BY DEF MarkWord
<1>2. PICK tg : tg = IF n \in marked THEN {} ELSE {n}
  OBVIOUS
<1>3. /\ sib[s] \in Sibling /\ ReadsReachable(sib[s]) /\ marked \subseteq Reachable
      /\ Reachable \subseteq Nodes /\ sib[s].pc = "lookup" /\ sib[s].target = {}
      /\ sib[s].stack # <<>>
  BY Own DEF MarkWord, InLookup
<1>4. PICK y \in Sibling : y = sib[s]
  BY <1>3
<1>5. PICK st : st = [y.stack EXCEPT ![1].todo = @ \ {n}]
  OBVIOUS
<1>6. sib' = [sib EXCEPT ![s] = [y EXCEPT !.lookaside = y.lookaside, !.stack = st,
                                         !.target = tg]]
  BY <1>1, <1>2, <1>4, <1>5 DEF Sibling
<1>7. y.stack \in Seq(Frame(Nodes)) /\ y.stack \in Seq(Frame(Reachable)) /\ y.stack # <<>>
  BY <1>3, <1>4 DEF Sibling, ReadsReachable
<1>8. /\ st \in Seq(Frame(Nodes)) /\ st \in Seq(Frame(Reachable))
      /\ Head(y.stack) \in Frame(Reachable)
  BY <1>5, <1>7, StackOps
<1>9. tg \subseteq Reachable
  BY <1>1, <1>2, <1>4, <1>8 DEF Frame
<1>10. /\ y.lookaside \in SUBSET Nodes /\ tg \in SUBSET Nodes
       /\ y.lookaside \cup y.target \subseteq y.lookaside \cup tg \cup marked
  BY <1>3, <1>4, <1>9 DEF Sibling
<1>11. UNCHANGED <<words, roots, marked, root_counter, roots_completed, written, parent>>
  BY DEF MarkWord, snapshot
<1> QED
  BY <1>2, <1>3, <1>4, <1>6, <1>8, <1>9, <1>10, <1>11, WithinLookup

LEMMA SetMarkStep ==
    ASSUME IInv, NEW s \in Siblings, SetMark(s)
    PROVE  IInv'
<1>1. PICK n \in sib[s].target :
         /\ marked' = marked \cup {n}
         /\ sib' = [sib EXCEPT ![s].target = {},
                               ![s].stack = IF @ = <<>> THEN <<Call(n)>>
                                            ELSE <<Call(Head(@).node)>> \o @]
  BY DEF SetMark
<1>2. /\ sib[s] \in Sibling /\ ReadsReachable(sib[s]) /\ marked \subseteq Reachable
      /\ Reachable \subseteq Nodes /\ LocalInv(sib[s]) /\ TypeOK
  BY Own DEF IInv
<1>3. PICK y \in Sibling : y = sib[s]
  BY <1>2
<1>4. y.pc = "lookup" /\ y.target # {}
  BY <1>2, <1>3 DEF LocalInv, SetMark
<1>5. n \in Reachable
  BY <1>1, <1>2, <1>3 DEF ReadsReachable, Pending
<1>6. \A m \in Reachable : Call(m) \in Frame(Reachable) /\ Call(m) \in Frame(Nodes)
  BY <1>2, ReachableClosed DEF Call, Frame
<1>7. PICK st : st = IF y.stack = <<>> THEN <<Call(n)>>
                     ELSE <<Call(Head(y.stack).node)>> \o y.stack
  OBVIOUS
<1>8. y.stack \in Seq(Frame(Nodes)) /\ y.stack \in Seq(Frame(Reachable))
  BY <1>2, <1>3 DEF Sibling, ReadsReachable
<1>9. y.stack # <<>> => Head(y.stack).node \in Reachable
  BY <1>8, StackOps DEF Frame
<1>10. st \in Seq(Frame(Nodes)) /\ st \in Seq(Frame(Reachable))
  BY <1>5, <1>6, <1>7, <1>8, <1>9, StackOps
<1>11. sib' = [sib EXCEPT ![s] = [y EXCEPT !.lookaside = y.lookaside, !.stack = st,
                                          !.target = {}]]
  BY <1>1, <1>3, <1>7 DEF Sibling
<1>12. y.target \subseteq {n} /\ marked' \subseteq Reachable /\ y.lookaside \in SUBSET Nodes
  BY <1>1, <1>2, <1>3, <1>5 DEF LocalInv, Sibling
<1>13. y.lookaside \cup y.target \subseteq y.lookaside \cup {} \cup marked'
  BY <1>1, <1>12
<1>14. UNCHANGED <<words, roots, root_counter, roots_completed, written, parent>>
  BY DEF SetMark, snapshot
<1>15. /\ {} \in SUBSET Nodes /\ {} \subseteq Reachable /\ \A m, k \in {} : m = k
       /\ marked \subseteq marked'
  BY <1>1
<1> QED
  BY <1>3, <1>4, <1>10, <1>11, <1>12, <1>13, <1>14, <1>15, WithinLookup

LEMMA MarkReturnStep ==
    ASSUME IInv, NEW s \in Siblings, MarkReturn(s)
    PROVE  IInv'
<1>1. /\ sib[s] \in Sibling /\ ReadsReachable(sib[s]) /\ marked \subseteq Reachable
      /\ sib[s].pc = "lookup" /\ sib[s].target = {} /\ sib[s].stack # <<>>
  BY Own DEF MarkReturn, InLookup
<1>2. PICK y \in Sibling : y = sib[s]
  BY <1>1
<1>3. sib' = [sib EXCEPT ![s] = [y EXCEPT !.lookaside = y.lookaside,
                                         !.stack = Tail(y.stack), !.target = {}]]
  BY <1>1, <1>2 DEF Sibling, MarkReturn
<1>4. y.stack \in Seq(Frame(Nodes)) /\ y.stack \in Seq(Frame(Reachable)) /\ y.stack # <<>>
  BY <1>1, <1>2 DEF Sibling, ReadsReachable
<1>5. Tail(y.stack) \in Seq(Frame(Nodes)) /\ Tail(y.stack) \in Seq(Frame(Reachable))
  BY <1>4, StackOps
<1>6. y.lookaside \in SUBSET Nodes /\ y.lookaside \cup y.target = y.lookaside
  BY <1>1, <1>2 DEF Sibling
<1>7. UNCHANGED <<words, roots, marked, root_counter, roots_completed, written, parent>>
  BY DEF MarkReturn, snapshot
<1> QED
  BY <1>1, <1>2, <1>3, <1>5, <1>6, <1>7, WithinLookup

LEMMA LookupDoneStep ==
    ASSUME IInv, NEW s \in Siblings, LookupDone(s)
    PROVE  IInv'
<1>1. /\ sib[s] \in Sibling /\ LocalInv(sib[s]) /\ ReadsReachable(sib[s])
      /\ marked \subseteq Reachable /\ written \in Nat
      /\ (written > 0 => roots_completed = NRanges)
  BY Own
<1>2. PICK y \in Sibling : y = sib[s]
  BY <1>1
<1>3. y.pc = "lookup" /\ y.target = {} /\ y.stack = <<>> /\ y.lookaside = {} /\ Live(y)
  BY <1>2 DEF LookupDone, InLookup, Live
<1> DEFINE x == [y EXCEPT !.pc = y.ret, !.count = 0]
<1>4. sib' = [sib EXCEPT ![s] = x]
  BY <1>2 DEF LookupDone
<1>5. /\ x \in Sibling /\ x.pc = y.ret /\ x.range = y.range /\ x.target = y.target
      /\ x.lookaside = y.lookaside /\ x.stack = y.stack /\ x.ret = y.ret
      /\ x.count = 0 /\ x.completed = y.completed /\ x.pc \in {"scan", "report"}
  <2>1. 0 \in 0 .. LookasideSize /\ y.ret \in {"scan", "report"} /\ y.ret \in PcValues
    BY SizesAssumption DEF Sibling, PcValues
  <2> QED
    BY <2>1 DEF Sibling
<1> HIDE DEF x
<1>6. LocalInv(x)
  BY <1>1, <1>2, <1>3, <1>5, SizesAssumption DEF LocalInv, Middle
<1>7. ReadsReachable(x) /\ Pending(x) = Pending(y)
  BY <1>1, <1>2, <1>5 DEF ReadsReachable, Pending
<1>8. Owed(x) = Owed(y) /\ x.pc # "notify"
  BY <1>3, <1>5 DEF Owed, Middle
<1> QED
  BY <1>1, <1>2, <1>3, <1>4, <1>5, <1>6, <1>7, <1>8, QuietStep DEF LookupDone, snapshot

\* A killed sibling takes its ranges with it.
LEMMA CrashStep ==
    ASSUME IInv, NEW s \in Siblings, Crash(s)
    PROVE  IInv'
<1>1. /\ marked \subseteq Reachable /\ written \in Nat
      /\ (written > 0 => roots_completed = NRanges)
  BY Own
<1>2. /\ NewSibling("killed") \in Sibling /\ NewSibling("killed").pc = "killed"
      /\ LocalInv(NewSibling("killed")) /\ ReadsReachable(NewSibling("killed"))
  <2>1. <<>> \in Seq(Frame(Nodes)) /\ 0 \in 0 .. LookasideSize /\ 0 \in 0 .. NRanges
    BY SizesAssumption
  <2> QED
    BY <2>1, SizesAssumption
       DEF NewSibling, Sibling, PcValues, LocalInv, ReadsReachable, Pending, Middle
<1>3. PICK x \in Sibling : x = NewSibling("killed")
  BY <1>2
<1>4. ~ Live(x) /\ x.pc # "notify" /\ LocalInv(x) /\ ReadsReachable(x)
  BY <1>2, <1>3 DEF Live
<1>5. sib' = [sib EXCEPT ![s] = x]
  BY <1>3 DEF Crash
<1> QED
  BY <1>1, <1>4, <1>5, QuietStep DEF Crash, snapshot

-----------------------------------------------------------------------------
(***************************************************************************)
(* The steps that change who owes which range.                             *)
(***************************************************************************)
\* The rest of the invariant after a step of s that leaves the marks alone.
LEMMA Unmarked ==
    ASSUME IInv, NEW s \in Siblings, NEW x \in Sibling, sib' = [sib EXCEPT ![s] = x],
           LocalInv(x), ReadsReachable(x),
           UNCHANGED <<words, roots, marked, written, parent>>,
           root_counter' \in Nat, roots_completed' \in 0 .. NRanges,
           ShareInv', ToldInv'
    PROVE  IInv'
<1>1. /\ TypeOK /\ SiblingInv /\ marked \subseteq Reachable /\ sib \in [Siblings -> Sibling]
  BY Types DEF IInv
<1>2. /\ sib' \in [Siblings -> Sibling] /\ sib'[s] = x
      /\ \A u \in Siblings : u # s => sib'[u] = sib[u]
  BY <1>1
<1>3. Reachable' = Reachable
  BY DEF Reachable, RootNodes, Closed
<1>4. TypeOK'
  BY <1>1, <1>2 DEF TypeOK, Sibling, Frame
<1>5. SiblingInv'
  <2>1. \A u \in Siblings : LocalInv(sib'[u]) /\ ReadsReachable(sib'[u])
    BY <1>1, <1>2 DEF SiblingInv
  <2>2. \A u \in Siblings : LocalInv(sib[u])' /\ ReadsReachable(sib[u])'
    BY <1>3, <2>1 DEF LocalInv, ReadsReachable, Middle, Pending
  <2> QED
    BY <2>2 DEF SiblingInv
<1> QED
  BY <1>1, <1>3, <1>4, <1>5 DEF IInv

\* The shares after a step of s: the other siblings keep theirs.
LEMMA NewShares ==
    ASSUME IInv, NEW s \in Siblings, UNCHANGED <<roots, marked>>,
           \A u \in Siblings : u # s => sib'[u] = sib[u],
           NEW own \in [Ranges -> Siblings], NEW done \in SUBSET Ranges,
           \A r \in done : r < root_counter' /\ roots[r] \subseteq marked,
           roots_completed' = Cardinality(done),
           \A u \in Siblings : u # s /\ Live(sib[u]) =>
              /\ Cardinality(Mine(own, done, u)') = Owed(sib[u])
              /\ \A r \in Mine(own, done, u)' : roots[r] \subseteq marked \cup Pending(sib[u]),
           Live(sib'[s]) =>
              /\ Cardinality(Mine(own, done, s)') = Owed(sib'[s])
              /\ \A r \in Mine(own, done, s)' : roots[r] \subseteq marked \cup Pending(sib'[s])
    PROVE  ShareInv'
<1>1. ASSUME NEW u \in Siblings, Live(sib'[u])
      PROVE  /\ Cardinality(Mine(own, done, u)') = Owed(sib'[u])
             /\ \A r \in Mine(own, done, u)' : roots[r] \subseteq marked \cup Pending(sib'[u])
  <2>1. CASE u = s
    BY <1>1, <2>1
  <2>2. CASE u # s
    BY <1>1, <2>2
  <2> QED
    BY <2>1, <2>2
<1>2. ASSUME NEW u \in Siblings, Live(sib[u])'
      PROVE  /\ Cardinality(Mine(own, done, u)') = Owed(sib[u])'
             /\ \A r \in Mine(own, done, u)' :
                   roots'[r] \subseteq marked' \cup Pending(sib[u])'
  <2>1. Live(sib'[u])
    BY <1>2 DEF Live
  <2> QED
    BY <1>1, <2>1 DEF Owed, Middle, Pending
<1>3. Shares(own, done)'
  <2>1. \A r \in done : r < root_counter' /\ roots'[r] \subseteq marked'
    OBVIOUS
  <2> QED
    BY <1>2, <2>1 DEF Shares
<1> QED
  BY <1>3 DEF ShareInv

LEMMA ClaimRangeStep ==
    ASSUME IInv, NEW s \in Siblings, ClaimRange(s)
    PROVE  IInv'
<1>1. /\ sib[s] \in Sibling /\ LocalInv(sib[s]) /\ ReadsReachable(sib[s])
      /\ sib \in [Siblings -> Sibling] /\ TypeOK /\ ToldInv
  BY Own DEF IInv
<1>2. PICK y \in Sibling : y = sib[s]
  BY <1>1
<1>3. PICK own \in [Ranges -> Siblings], done \in SUBSET Ranges : Shares(own, done)
  BY DEF IInv, ShareInv
<1>4. y.pc = "claim" /\ Live(y) /\ Owed(y) = y.completed /\ y.range = {} /\ y.target = {}
  BY <1>1, <1>2 DEF ClaimRange, Live, Owed, Middle, LocalInv, Sibling
<1>5. /\ root_counter \in Nat /\ root_counter' = root_counter + 1
      /\ roots_completed \in 0 .. NRanges /\ roots_completed' = roots_completed
      /\ UNCHANGED <<words, roots, marked, written, parent>>
  BY <1>1 DEF TypeOK, ClaimRange, snapshot
<1>6. /\ \A r \in done : r < root_counter' /\ roots[r] \subseteq marked
      /\ roots_completed' = Cardinality(done)
      /\ Cardinality(Mine(own, done, s)) = y.completed
      /\ \A r \in Mine(own, done, s) : roots[r] \subseteq marked \cup Pending(y)
      /\ \A u \in Siblings : Live(sib[u]) =>
            /\ Cardinality(Mine(own, done, u)) = Owed(sib[u])
            /\ \A r \in Mine(own, done, u) : roots[r] \subseteq marked \cup Pending(sib[u])
  <2>1. \A r \in done : r \in Int /\ r < root_counter /\ roots[r] \subseteq marked
    BY <1>3 DEF Shares, Ranges
  <2> QED
    BY <1>2, <1>3, <1>4, <1>5, <2>1 DEF Shares
<1>7. CASE root_counter < NRanges
  <2> DEFINE x == [y EXCEPT !.pc = "scan", !.range = roots[root_counter]]
  <2> PICK own2 : own2 = [own EXCEPT ![root_counter] = s]
    OBVIOUS
  <2>1. root_counter \in Ranges /\ roots[root_counter] \in SUBSET Nodes
    BY <1>1, <1>5, <1>7, Types, SizesAssumption DEF Ranges
  <2>2. sib' = [sib EXCEPT ![s] = x]
    BY <1>2, <1>7 DEF ClaimRange
  <2>3. /\ x \in Sibling /\ x.pc = "scan" /\ x.range = roots[root_counter]
        /\ x.target = y.target /\ x.lookaside = y.lookaside /\ x.stack = y.stack
        /\ x.count = y.count /\ x.completed = y.completed
    BY <2>1 DEF Sibling, PcValues
  <2>4. own2 \in [Ranges -> Siblings]
    BY <2>1
  <2>5. /\ \A u \in Siblings : u # s => Mine(own2, done, u)' = Mine(own, done, u)
        /\ Mine(own2, done, s)' = Mine(own, done, s) \cup {root_counter}
        /\ root_counter \notin Mine(own, done, s)
    <3>1. root_counter \notin done /\ \A r \in Ranges : r \in Int
      BY <1>3, <1>5 DEF Shares, Ranges
    <3>2. \A r \in Ranges : r < root_counter' <=> (r < root_counter \/ r = root_counter)
      BY <1>5, <3>1
    <3>3. own2[root_counter] = s /\ \A r \in Ranges : r # root_counter => own2[r] = own[r]
      BY <2>1
    <3>4. \A u : Mine(own2, done, u)' =
                    {r \in Ranges : r < root_counter' /\ r \notin done /\ own2[r] = u}
      BY <1>5 DEF Mine
    <3>5. ~ (root_counter < root_counter)
      BY <1>5
    <3> QED
      BY <2>1, <3>1, <3>2, <3>3, <3>4, <3>5 DEF Mine
  <2> HIDE DEF x
  <2>6. LocalInv(x)
    BY <1>1, <1>2, <1>4, <2>3 DEF LocalInv, Middle
  <2>7. /\ ReadsReachable(x) /\ Pending(y) \subseteq Pending(x)
        /\ roots[root_counter] \subseteq Pending(x)
    BY <1>1, <1>2, <1>4, <2>1, <2>3, ReachableClosed DEF ReadsReachable, Pending
  <2>8. Owed(x) = y.completed + 1
    BY <2>3 DEF Owed, Middle
  <2>9. Cardinality(Mine(own2, done, s)') = Owed(x)
    <3>1. IsFiniteSet(Mine(own, done, s))
      BY RangesFinite DEF Mine
    <3>2. Cardinality(Mine(own, done, s) \cup {root_counter})
             = Cardinality(Mine(own, done, s)) + 1
      BY <2>5, <3>1, FS_AddElement
    <3> QED
      BY <1>6, <2>5, <2>8, <3>2
  <2>10. \A r \in Mine(own2, done, s)' : roots[r] \subseteq marked \cup Pending(x)
    BY <1>6, <2>5, <2>7
  <2>11. sib'[s] = x /\ \A u \in Siblings : u # s => sib'[u] = sib[u]
    BY <1>1, <2>2
  <2>12. \A u \in Siblings : u # s /\ Live(sib[u]) =>
            /\ Cardinality(Mine(own2, done, u)') = Owed(sib[u])
            /\ \A r \in Mine(own2, done, u)' : roots[r] \subseteq marked \cup Pending(sib[u])
    BY <1>6, <2>5
  <2>13. /\ Cardinality(Mine(own2, done, s)') = Owed(sib'[s])
         /\ \A r \in Mine(own2, done, s)' : roots[r] \subseteq marked \cup Pending(sib'[s])
    BY <2>9, <2>10, <2>11
  <2>14. ShareInv'
    BY <1>5, <1>6, <2>4, <2>11, <2>12, <2>13, NewShares
  <2>15. ToldInv' /\ root_counter' \in Nat /\ roots_completed' \in 0 .. NRanges
    BY <1>1, <1>5, <2>3, <2>11 DEF ToldInv
  <2> QED
    BY <1>5, <2>2, <2>3, <2>6, <2>7, <2>14, <2>15, Unmarked
<1>8. CASE ~ (root_counter < NRanges)
  <2> DEFINE x == [y EXCEPT !.pc = "rest"]
  <2>1. sib' = [sib EXCEPT ![s] = x]
    BY <1>2, <1>8 DEF ClaimRange
  <2>2. /\ x \in Sibling /\ x.pc = "rest" /\ x.range = y.range
        /\ x.target = y.target /\ x.lookaside = y.lookaside /\ x.stack = y.stack
        /\ x.count = y.count /\ x.completed = y.completed
    BY DEF Sibling, PcValues
  <2>3. \A u : Mine(own, done, u)' = Mine(own, done, u)
    <3>1. \A r \in Ranges : r < root_counter' /\ r < root_counter
      BY <1>5, <1>8, SizesAssumption DEF Ranges
    <3> QED
      BY <1>5, <3>1 DEF Mine
  <2> HIDE DEF x
  <2>4. LocalInv(x)
    BY <1>1, <1>2, <1>4, <2>2 DEF LocalInv, Middle
  <2>5. ReadsReachable(x) /\ Pending(y) = Pending(x)
    BY <1>1, <1>2, <2>2 DEF ReadsReachable, Pending
  <2>6. Owed(x) = y.completed
    BY <1>4, <2>2 DEF Owed, Middle
  <2>7. /\ Cardinality(Mine(own, done, s)') = Owed(x)
        /\ \A r \in Mine(own, done, s)' : roots[r] \subseteq marked \cup Pending(x)
    BY <1>6, <2>3, <2>5, <2>6
  <2>8. sib'[s] = x /\ \A u \in Siblings : u # s => sib'[u] = sib[u]
    BY <1>1, <2>1
  <2>9. ShareInv'
    BY <1>5, <1>6, <2>3, <2>7, <2>8, NewShares
  <2>10. ToldInv' /\ root_counter' \in Nat /\ roots_completed' \in 0 .. NRanges
    BY <1>1, <1>5, <2>2, <2>8 DEF ToldInv
  <2> QED
    BY <1>5, <2>1, <2>2, <2>4, <2>5, <2>9, <2>10, Unmarked
<1> QED
  BY <1>7, <1>8

\* A sibling that reports has marked the roots of all its ranges.
LEMMA ReportStep ==
    ASSUME IInv, NEW s \in Siblings, Report(s)
    PROVE  IInv'
<1>1. /\ sib[s] \in Sibling /\ LocalInv(sib[s]) /\ ReadsReachable(sib[s])
      /\ sib \in [Siblings -> Sibling] /\ TypeOK /\ ToldInv
  BY Own DEF IInv
<1>2. PICK y \in Sibling : y = sib[s]
  BY <1>1
<1>3. PICK own \in [Ranges -> Siblings], done \in SUBSET Ranges : Shares(own, done)
  BY DEF IInv, ShareInv
<1>4. /\ y.pc = "report" /\ Live(y) /\ Owed(y) = y.completed /\ Pending(y) = {}
  <2>1. y.pc = "report" /\ y.count = 0
    BY <1>1, <1>2 DEF Report, LocalInv
  <2> QED
    BY <1>1, <1>2, <2>1 DEF Live, Owed, Middle, LocalInv, Sibling, Pending
<1>5. /\ UNCHANGED <<words, roots, marked, root_counter, written, parent>>
      /\ roots_completed' = roots_completed + y.completed
      /\ root_counter \in Nat /\ roots_completed \in 0 .. NRanges
  BY <1>1, <1>2 DEF TypeOK, Report, snapshot
<1>6. PICK mine : mine = Mine(own, done, s)
  OBVIOUS
<1>7. PICK done2 : done2 = done \cup mine
  OBVIOUS
<1>8. /\ \A r \in mine : r \in Ranges /\ r < root_counter /\ r \notin done /\ own[r] = s
      /\ \A r \in mine : roots[r] \subseteq marked
      /\ Cardinality(mine) = y.completed
  <2>1. mine = {r \in Ranges : r < root_counter /\ r \notin done /\ own[r] = s}
    BY <1>6 DEF Mine
  <2>2. Cardinality(mine) = y.completed /\ \A r \in mine : roots[r] \subseteq marked
    BY <1>2, <1>3, <1>4, <1>6 DEF Shares
  <2> QED
    BY <2>1, <2>2
<1>9. /\ \A r \in done2 : r < root_counter' /\ roots[r] \subseteq marked
      /\ done2 \in SUBSET Ranges
  BY <1>3, <1>5, <1>7, <1>8 DEF Shares
<1>10. roots_completed' = Cardinality(done2)
  <2>1. IsFiniteSet(done) /\ IsFiniteSet(mine) /\ done \cap mine = {}
    BY <1>8, RangesFinite
  <2>2. Cardinality(done2) = Cardinality(done) + Cardinality(mine)
    <3>1. Cardinality(done \cup mine) = Cardinality(done) + Cardinality(mine)
                                       - Cardinality(done \cap mine)
      BY <2>1, FS_Union
    <3>2. Cardinality(done) \in Nat /\ Cardinality(mine) \in Nat
      BY <2>1, FS_CardinalityType
    <3>3. Cardinality(done \cap mine) = 0
      BY <2>1, FS_EmptySet
    <3> QED
      BY <1>7, <3>1, <3>2, <3>3
  <2> QED
    BY <1>3, <1>5, <1>8, <2>2 DEF Shares
<1>11. roots_completed' \in 0 .. NRanges /\ root_counter' \in Nat
  BY <1>5, <1>9, <1>10, RangesFinite
<1>12. PICK c \in {"notify", "exited"} :
          /\ c = IF roots_completed' = NRanges THEN "notify" ELSE "exited"
          /\ c = "notify" => roots_completed' = NRanges
  OBVIOUS
<1> DEFINE x == [y EXCEPT !.pc = c]
<1>13. sib' = [sib EXCEPT ![s] = x]
  BY <1>2, <1>12 DEF Report
<1>14. /\ x \in Sibling /\ x.pc = c /\ x.range = y.range /\ x.target = y.target
       /\ x.lookaside = y.lookaside /\ x.stack = y.stack
       /\ x.count = y.count /\ x.completed = y.completed
  BY <1>12 DEF Sibling, PcValues
<1> HIDE DEF x
<1>15. LocalInv(x) /\ ReadsReachable(x) /\ ~ Live(x)
  <2>1. ~ Live(x) /\ x.pc = c /\ y.count < LookasideSize
    BY <1>1, <1>2, <1>4, <1>14 DEF Live, LocalInv
  <2> QED
    BY <1>1, <1>2, <1>4, <1>14, <2>1 DEF LocalInv, ReadsReachable, Pending, Middle
<1>16. sib'[s] = x /\ \A u \in Siblings : u # s => sib'[u] = sib[u]
  BY <1>1, <1>13
<1>17. ASSUME NEW u \in Siblings, u # s
       PROVE  Mine(own, done2, u)' = Mine(own, done, u)
  <2>1. Mine(own, done2, u)' =
           {r \in Ranges : r < root_counter /\ r \notin done2 /\ own[r] = u}
    BY <1>5 DEF Mine
  <2> QED
    BY <1>7, <1>8, <1>17, <2>1 DEF Mine
<1>18. \A u \in Siblings : u # s /\ Live(sib[u]) =>
          /\ Cardinality(Mine(own, done2, u)') = Owed(sib[u])
          /\ \A r \in Mine(own, done2, u)' : roots[r] \subseteq marked \cup Pending(sib[u])
  BY <1>3, <1>17 DEF Shares
<1>19. ShareInv'
  BY <1>5, <1>9, <1>10, <1>15, <1>16, <1>18, NewShares
<1>20. ToldInv'
  <2>1. roots_completed = NRanges => roots_completed' = NRanges
    BY <1>2, <1>5, <1>11 DEF Sibling
  <2> QED
    BY <1>1, <1>5, <1>12, <1>14, <1>16, <2>1 DEF ToldInv
<1> QED
  BY <1>5, <1>11, <1>13, <1>14, <1>15, <1>19, <1>20, Unmarked

-----------------------------------------------------------------------------
(***************************************************************************)
(* The theorems.                                                           *)
(***************************************************************************)
LEMMA StepIInv == IInv /\ [Next]_vars => IInv'
<1> SUFFICES ASSUME IInv, [Next]_vars PROVE IInv'
  OBVIOUS
<1>1. ASSUME NEW s \in Siblings, Scanning(s) PROVE IInv'
  BY <1>1, ForkStep, ClaimRangeStep, SetAsideStep, RangeDoneStep, RemainderStep,
     LookupWordStep, MarkWordStep, SetMarkStep, MarkReturnStep, LookupDoneStep,
     ReportStep, NotifyStep DEF Scanning
<1>2. ASSUME NEW s \in Siblings, Crash(s) PROVE IInv'
  BY <1>2, CrashStep
<1>3. ASSUME UNCHANGED <<words, roots, marked, root_counter, roots_completed, sib, written>>,
             parent' \in {"waiting", "done", "fatal"}
      PROVE  IInv'
  <2>1. TypeOK'
    BY <1>3 DEF IInv, TypeOK
  <2>2. Reachable' = Reachable
    BY <1>3 DEF Reachable, RootNodes, Closed
  <2>3. SiblingInv' /\ (marked \subseteq Reachable)' /\ ToldInv'
    BY <1>3, <2>2 DEF IInv, SiblingInv, LocalInv, ReadsReachable, Middle, Pending, ToldInv
  <2>4. ShareInv'
    BY <1>3 DEF IInv, ShareInv, Shares, Mine, Live, Owed, Middle, Pending
  <2> QED
    BY <2>1, <2>3, <2>4 DEF IInv
<1>4. CASE ParentReads
  BY <1>3, <1>4 DEF ParentReads, snapshot
<1>5. CASE UNCHANGED vars
  BY <1>3, <1>5 DEF vars, IInv, TypeOK
<1> QED
  BY <1>1, <1>2, <1>4, <1>5 DEF Next

LEMMA Invariance == Spec => []IInv
BY InitIInv, StepIInv, PTL DEF Spec

\* Every variable has its type; in particular no sibling sets more words aside
\* than its lookaside list holds, and no more ranges are reported than there are
\* (child.c:147-230, 487-523).
THEOREM TypeCorrect == Spec => []TypeOK
BY Invariance, PTL DEF IInv

\* A node is marked only if it can be reached from outside the pool: one that
\* nobody can reach is never kept by the marks of the siblings, however they race
\* for the nodes (child.c:147-230).
THEOREM OnlyReachableMarked == Spec => []MarkedReachable
<1>1. IInv => MarkedReachable
  BY DEF IInv, MarkedReachable
<1> QED
  BY <1>1, Invariance, PTL

\* Once the count of reported ranges is that of all ranges, every root is marked
\* and no sibling has a node left to mark.
LEMMA AllReported ==
    ASSUME IInv, roots_completed = NRanges
    PROVE  RootNodes \subseteq marked /\ \A s \in Siblings : sib[s].target = {}
<1>1. PICK own \in [Ranges -> Siblings], done \in SUBSET Ranges : Shares(own, done)
  BY DEF IInv, ShareInv
<1>2. done = Ranges
  BY <1>1, RangesFinite DEF Shares
<1>3. RootNodes \subseteq marked
  BY <1>1, <1>2 DEF Shares, RootNodes, Ranges
<1>4. ASSUME NEW s \in Siblings, sib[s].target # {} PROVE FALSE
  <2>1. sib[s] \in Sibling /\ LocalInv(sib[s])
    BY Own
  <2>2. sib[s].pc = "lookup" /\ Live(sib[s])
    BY <1>4, <2>1 DEF LocalInv, Live
  <2>3. Owed(sib[s]) # 0
    BY <2>1, <2>2 DEF Owed, Middle, LocalInv, Sibling
  <2>4. Mine(own, done, s) = {}
    BY <1>2 DEF Mine
  <2> QED
    BY <1>1, <2>2, <2>3, <2>4, FS_EmptySet DEF Shares
<1> QED
  BY <1>3, <1>4

\* When the parent is told that the scan is complete, the roots of every range are
\* marked, whichever siblings claimed the ranges, raced for the marks or were
\* killed: the ranges of a killed sibling are never reported, so the count falls
\* short for good (child.c:487-523).
THEOREM ToldComplete == Spec => []NotifiedComplete
<1>1. IInv => NotifiedComplete
  BY AllReported DEF IInv, ToldInv, NotifiedComplete
<1> QED
  BY <1>1, Invariance, PTL

\* Once the parent has been told, no mark changes under it, although siblings may
\* still be running while it sorts the nodes (forkscan.c:224-244).
THEOREM MarksNeverChange == Spec => MarksFinal
<1>1. IInv /\ [Next]_vars => [written > 0 => marked' = marked]_vars
  <2> SUFFICES ASSUME IInv, Next, written > 0 PROVE marked' = marked
    BY DEF vars
  <2>1. roots_completed = NRanges
    BY DEF IInv, ToldInv
  <2>2. \A s \in Siblings : ~ SetMark(s)
    BY <2>1, AllReported DEF SetMark
  <2> QED
    BY <2>2 DEF Next, Scanning, ParentReads, Crash, ForkSibling, ForkingDone, ClaimRange,
                SetAside, RangeDone, Remainder, LookupWord, MarkWord, MarkReturn,
                LookupDone, Report, Notify
<1> QED
  BY <1>1, Invariance, PTL DEF Spec, MarksFinal
=============================================================================
