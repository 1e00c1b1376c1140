---------------------------- MODULE Lookup_proofs ---------------------------
(***************************************************************************)
(* Proofs about the searches and the lookup that uses them, for every      *)
(* pool, page size, threshold and length of the list.                      *)
(*                                                                         *)
(* First AddrSearch: no search reads where it should not, and a node that  *)
(* is not marked is found, while other siblings set marks in the words     *)
(* being compared.  Then AvlSort: what insert_node, the build of the tree  *)
(* and the compaction make of an array.  Both together give Lookup:        *)
(* whatever words are set aside, none of their nodes is missed.            *)
(***************************************************************************)
EXTENDS Lookup, SequenceTheorems, FiniteSetTheorems, TLAPS

-----------------------------------------------------------------------------
(***************************************************************************)
(* Pages.                                                                  *)
(***************************************************************************)
PageOf(i) == i \div PageAddrs

\* The page of an index, from its first index to the first one of the next.
LEMMA PageBounds ==
    ASSUME NEW i \in Nat
    PROVE  /\ PageOf(i) \in Nat
           /\ PageOf(i) * PageAddrs <= i
           /\ i < PageOf(i) * PageAddrs + PageAddrs
<1>1. PageAddrs \in Nat /\ PageAddrs >= 1
  BY SizesAssumption
<1>2. /\ i = PageAddrs * (i \div PageAddrs) + (i % PageAddrs)
      /\ i % PageAddrs \in 0 .. (PageAddrs - 1)
  BY <1>1, Z3
<1>3. i \div PageAddrs \in Nat
  BY <1>1, Z3
<1>4. (i \div PageAddrs) * PageAddrs = PageAddrs * (i \div PageAddrs)
  BY <1>1, <1>3, Z3
<1> DEFINE x == (i \div PageAddrs) * PageAddrs
<1>5. x \in Nat
  BY <1>1, <1>3, Z3
<1>6. i = x + (i % PageAddrs)
  BY <1>2, <1>4
<1> HIDE DEF x
<1>7. x <= i /\ i < x + PageAddrs
  BY <1>1, <1>2, <1>5, <1>6
<1> QED
  BY <1>3, <1>7 DEF PageOf, x

\* Page numbers and their first indices are in the same order.
LEMMA PageOrder ==
    ASSUME NEW v \in Nat, NEW w \in Nat, v < w
    PROVE  /\ v * PageAddrs \in Nat /\ w * PageAddrs \in Nat
           /\ v * PageAddrs + PageAddrs <= w * PageAddrs
           /\ (v + 1) * PageAddrs = v * PageAddrs + PageAddrs
<1>1. PageAddrs \in Nat /\ PageAddrs >= 1
  BY SizesAssumption
<1>2. v * PageAddrs \in Nat /\ w * PageAddrs \in Nat
  BY <1>1, Z3
<1>3. (v + 1) * PageAddrs = v * PageAddrs + PageAddrs
  BY <1>1, Z3
<1>4. w * PageAddrs = (v + 1) * PageAddrs + (w - (v + 1)) * PageAddrs
  BY <1>1, Z3
<1>5. (w - (v + 1)) * PageAddrs \in Nat
  <2>1. w - (v + 1) \in Nat
    OBVIOUS
  <2> QED
    BY <2>1, <1>1, Z3
<1> DEFINE a == v * PageAddrs
           b == (w - (v + 1)) * PageAddrs
           c == w * PageAddrs
<1>6. c = (a + PageAddrs) + b
  BY <1>3, <1>4
<1>7. a \in Nat /\ b \in Nat
  BY <1>2, <1>5
<1> HIDE DEF a, b, c
<1>8. a + PageAddrs <= c
  BY <1>1, <1>6, <1>7
<1> QED
  BY <1>2, <1>3, <1>8 DEF a, c

\* An index lies on a page if it lies between the first indices of that page and
\* of the next one.
LEMMA PageUnique ==
    ASSUME NEW i \in Nat, NEW v \in Nat
    PROVE  /\ v * PageAddrs <= i <=> v <= PageOf(i)
           /\ i < v * PageAddrs <=> PageOf(i) < v
<1>1. PageAddrs \in Nat /\ PageAddrs >= 1
  BY SizesAssumption
<1>2. v * PageAddrs \in Nat
  BY <1>1, Z3
<1>3. /\ PageOf(i) \in Nat
      /\ PageOf(i) * PageAddrs <= i
      /\ i < PageOf(i) * PageAddrs + PageAddrs
  BY PageBounds
<1>4. PageOf(i) * PageAddrs \in Nat
  BY <1>1, <1>3, Z3
<1>5. CASE v < PageOf(i)
  <2>1. v * PageAddrs + PageAddrs <= PageOf(i) * PageAddrs
    BY <1>3, <1>5, PageOrder
  <2> QED
    BY <2>1, <1>1, <1>2, <1>3, <1>4, <1>5
<1>6. CASE v = PageOf(i)
  BY <1>2, <1>3, <1>6
<1>7. CASE PageOf(i) < v
  <2>1. PageOf(i) * PageAddrs + PageAddrs <= v * PageAddrs
    BY <1>3, <1>7, PageOrder
  <2> QED
    BY <2>1, <1>1, <1>2, <1>3, <1>4, <1>7
<1> QED
  BY <1>3, <1>5, <1>6, <1>7

\* The minimap has a word for every page of the pool and for no other.
LEMMA MinimapPages ==
    ASSUME n_addrs \in Nat, n_addrs >= 1
    PROVE  /\ NMinimap \in Nat /\ NMinimap >= 1 /\ NMinimap <= n_addrs
           /\ \A v \in Nat : v < NMinimap <=> v * PageAddrs < n_addrs
<1>1. PageAddrs \in Nat /\ PageAddrs >= 1
  BY SizesAssumption
<1> DEFINE top == n_addrs + PageAddrs - 1
<1>2. top \in Nat
  BY <1>1
<1>3. NMinimap = PageOf(top)
  BY DEF NMinimap, PageOf
<1>4. NMinimap \in Nat
  BY <1>2, <1>3, PageBounds
<1>5. ASSUME NEW v \in Nat
      PROVE  v < NMinimap <=> v * PageAddrs < n_addrs
  <2>1. v * PageAddrs \in Nat /\ (v + 1) * PageAddrs = v * PageAddrs + PageAddrs
    BY <1>1, Z3
  <2>2. (v + 1) * PageAddrs <= top <=> v + 1 <= NMinimap
    BY <1>2, <1>3, PageUnique
  <2>3. v + 1 <= NMinimap <=> v < NMinimap
    BY <1>4
  <2> DEFINE x == v * PageAddrs
  <2>4. x \in Nat /\ (v + 1) * PageAddrs = x + PageAddrs
    BY <2>1
  <2> HIDE DEF x
  <2>5. x + PageAddrs <= top <=> x < n_addrs
    BY <2>4, <1>1
  <2> QED
    BY <2>2, <2>3, <2>4, <2>5 DEF x
<1>6. NMinimap >= 1
  <2>1. 0 * PageAddrs = 0
    BY <1>1
  <2>2. 0 < NMinimap
    BY <2>1, <1>5
  <2> QED
    BY <2>2, <1>4
<1>7. NMinimap <= n_addrs
  <2>1. n_addrs * PageAddrs >= n_addrs
    BY <1>1, Z3
  <2>2. n_addrs * PageAddrs \in Nat
    BY <1>1, Z3
  <2>3. ~(n_addrs * PageAddrs < n_addrs)
    BY <2>1, <2>2
  <2>4. ~(n_addrs < NMinimap)
    BY <2>3, <1>5
  <2> QED
    BY <2>4, <1>4
<1> QED
  BY <1>4, <1>5, <1>6, <1>7

\* The range that addr_find gives to its second level.
PageStart(v) == v * PageAddrs
PageEnd(v) == IF v = NMinimap - 1 THEN n_addrs ELSE (v + 1) * PageAddrs

\* It is the part of the pool that lies on page v, never empty.
LEMMA PageRange ==
    ASSUME n_addrs \in Nat, n_addrs >= 1, NEW v \in Nat, v < NMinimap
    PROVE  /\ PageStart(v) \in Nat /\ PageEnd(v) \in Nat
           /\ PageStart(v) < PageEnd(v) /\ PageEnd(v) <= n_addrs
           /\ \A i \in Index :
                 PageOf(i) = v => PageStart(v) <= i /\ i < PageEnd(v)
<1>1. PageAddrs \in Nat /\ PageAddrs >= 1
  BY SizesAssumption
<1>2. /\ NMinimap \in Nat
      /\ \A w \in Nat : w < NMinimap <=> w * PageAddrs < n_addrs
  BY MinimapPages
<1>3. v * PageAddrs \in Nat /\ (v + 1) * PageAddrs = v * PageAddrs + PageAddrs
  BY <1>1, Z3
<1>4. v * PageAddrs < n_addrs
  BY <1>2
<1>5. v # NMinimap - 1 => (v + 1) * PageAddrs < n_addrs
  <2>1. v # NMinimap - 1 => v + 1 < NMinimap
    BY <1>2
  <2> QED
    BY <2>1, <1>2
<1>6. ASSUME NEW i \in Index, PageOf(i) = v
      PROVE  PageStart(v) <= i /\ i < PageEnd(v)
  <2>1. i \in Nat /\ i < n_addrs
    BY DEF Index
  <2>2. v * PageAddrs <= i /\ i < v * PageAddrs + PageAddrs
    BY <2>1, <1>6, PageBounds
  <2> QED
    BY <2>1, <2>2, <1>3 DEF PageStart, PageEnd
<1> DEFINE x == v * PageAddrs
           y == (v + 1) * PageAddrs
<1>7. x \in Nat /\ y = x + PageAddrs /\ x < n_addrs /\ (v # NMinimap - 1 => y < n_addrs)
  BY <1>3, <1>4, <1>5
<1>8. PageStart(v) = x /\ PageEnd(v) = IF v = NMinimap - 1 THEN n_addrs ELSE y
  BY DEF PageStart, PageEnd
<1> HIDE DEF x, y
<1>9. /\ PageStart(v) \in Nat /\ PageEnd(v) \in Nat
      /\ PageStart(v) < PageEnd(v) /\ PageEnd(v) <= n_addrs
  BY <1>1, <1>7, <1>8
<1> QED
  BY <1>6, <1>9

-----------------------------------------------------------------------------
(***************************************************************************)
(* The inductive invariant.                                                *)
(***************************************************************************)

\* What is searched for lies between the smallest and the largest address.
ValInv == search.at # "idle" => search.val \in Words /\ InRange(search.val)

\* The range that remains lies within the array of its level.
Top == IF search.level = "minimap" THEN NMinimap ELSE n_addrs
RangeInv ==
    /\ search.at = "binary" => search.min < search.max /\ search.max <= Top
    /\ search.at = "iterate" =>
          search.min <= search.max /\ search.max >= 1 /\ search.max <= Top

\* The walk along the line started at the hint and stays in front of the end.
HintInv ==
    /\ search.at = "hint" => search.hint = search.from
    /\ search.at = "line" => search.hint \in Index /\ search.hint + 1 \in Index

\* A search ends in front of the pool only by the race for the first node.
LocInv == search.at = "done" /\ search.loc = -1 => 0 \in marked

\* An unmarked node that has the address searched for lies ahead of the walk
\* along the line, or in the range that remains; iterative_search may have gone
\* one past it.
IsTarget(i) ==
    i \in Index /\ i >= search.from /\ pool[i] = search.val /\ i \notin marked
Pos(i) == IF search.level = "minimap" THEN PageOf(i) ELSE i
TargetInv ==
    \A i \in Index : IsTarget(i) =>
        /\ search.at = "line" => i > search.hint
        /\ search.at = "binary" => search.min <= Pos(i) /\ Pos(i) < search.max
        /\ search.at = "iterate" => search.min - 1 <= Pos(i) /\ Pos(i) < search.max
        /\ search.at = "done" => search.loc = i

IInv ==
    /\ SearchTypeOK
    /\ IsPool(n_addrs, pool)
    /\ ValInv
    /\ RangeInv
    /\ HintInv
    /\ LocInv
    /\ TargetInv

-----------------------------------------------------------------------------
(***************************************************************************)
(* What a comparison with a word tells, whatever its mark.                 *)
(***************************************************************************)

\* A mark does not lift a word over a greater one.
LEMMA WordsApart ==
    ASSUME NEW v \in Words, NEW w \in Words, v < w
    PROVE  v \in Nat /\ w \in Nat /\ v > 0 /\ v + 1 < w
BY WordsAssumption

\* A word of the pool is its address or one more, and one more only if marked.
LEMMA WordValue ==
    ASSUME SearchTypeOK, NEW j \in Index
    PROVE  /\ pool[j] \in Words /\ pool[j] \in Nat /\ pool[j] > 0
           /\ Word(j) \in Nat
           /\ Word(j) = pool[j] \/ (j \in marked /\ Word(j) = pool[j] + 1)
           /\ j \in Nat /\ j < n_addrs /\ n_addrs \in Nat
<1>1. n_addrs \in Nat /\ n_addrs >= 1
  BY SizesAssumption DEF SearchTypeOK
<1>2. j \in Nat /\ j < n_addrs
  BY <1>1 DEF Index
<1>3. pool[j] \in Words
  BY DEF SearchTypeOK
<1>4. pool[j] \in Nat /\ pool[j] > 0
  BY <1>3, WordsAssumption
<1> QED
  BY <1>1, <1>2, <1>3, <1>4 DEF Word

\* The order of addresses in the pool is that of their indices.
LEMMA PoolOrder ==
    ASSUME SearchTypeOK, IsPool(n_addrs, pool), NEW i \in Index, NEW j \in Index
    PROVE  /\ i < j <=> pool[i] < pool[j]
           /\ i = j <=> pool[i] = pool[j]
           /\ i < j => pool[i] + 1 < pool[j]
<1>1. /\ pool[i] \in Words /\ pool[i] \in Nat /\ pool[j] \in Words /\ pool[j] \in Nat
      /\ i \in Nat /\ j \in Nat
  BY WordValue
<1>2. i < j => pool[i] < pool[j]
  BY DEF IsPool, Index
<1>3. j < i => pool[j] < pool[i]
  BY DEF IsPool, Index
<1>4. pool[i] < pool[j] => pool[i] + 1 < pool[j]
  BY <1>1, WordsApart
<1> QED
  BY <1>1, <1>2, <1>3, <1>4

\* An unmarked node, with the address searched for, against a word of the pool.
LEMMA WordOrder ==
    ASSUME SearchTypeOK, IsPool(n_addrs, pool), NEW i \in Index, IsTarget(i),
           NEW j \in Index
    PROVE  /\ Word(j) = search.val <=> j = i
           /\ Word(j) > search.val <=> i < j
           /\ Word(j) < search.val <=> j < i
<1>1. /\ pool[i] \in Nat /\ pool[j] \in Nat /\ i \in Nat /\ j \in Nat
      /\ Word(j) \in Nat
      /\ Word(j) = pool[j] \/ (j \in marked /\ Word(j) = pool[j] + 1)
  BY WordValue
<1>2. search.val = pool[i] /\ i \notin marked
  BY DEF IsTarget
<1>3. CASE i < j
  <2>1. pool[i] + 1 < pool[j]
    BY <1>3, PoolOrder
  <2> QED
    BY <2>1, <1>1, <1>2, <1>3
<1>4. CASE i = j
  BY <1>1, <1>2, <1>4
<1>5. CASE j < i
  <2>1. pool[j] + 1 < pool[i]
    BY <1>5, PoolOrder
  <2> QED
    BY <2>1, <1>1, <1>2, <1>5
<1> QED
  BY <1>1, <1>3, <1>4, <1>5

\* The same for the arrays of both levels.
LEMMA ReadOrder ==
    ASSUME SearchTypeOK, IsPool(n_addrs, pool), NEW i \in Index, IsTarget(i),
           NEW j \in Nat, j < Top
    PROVE  /\ Pos(i) \in Nat
           /\ Read(j) = search.val => Pos(i) = j
           /\ Read(j) > search.val => Pos(i) < j
           /\ ~(Read(j) = search.val) /\ ~(Read(j) > search.val) => Pos(i) >= j
<1>1. n_addrs \in Nat /\ n_addrs >= 1 /\ i \in Nat /\ PageAddrs \in Nat /\ PageAddrs >= 1
  BY SizesAssumption, WordValue DEF SearchTypeOK
<1>2. CASE search.level = "minimap"
  <2>1. Top = NMinimap /\ Read(j) = pool[j * PageAddrs] /\ Pos(i) = PageOf(i)
    BY <1>2 DEF Top, Read, Minimap, Pos
  <2>2. j * PageAddrs \in Nat
    BY <1>1, Z3
  <2>3. j * PageAddrs \in Index
    <3>1. j * PageAddrs < n_addrs
      BY <2>1, <1>1, MinimapPages
    <3> QED
      BY <3>1, <2>2, <1>1 DEF Index
  <2>4. /\ j * PageAddrs < i => pool[j * PageAddrs] < pool[i]
        /\ i < j * PageAddrs <=> pool[i] < pool[j * PageAddrs]
        /\ i = j * PageAddrs <=> pool[i] = pool[j * PageAddrs]
        /\ pool[i] \in Nat /\ pool[j * PageAddrs] \in Nat
    BY <2>3, PoolOrder, WordValue
  <2>5. /\ j * PageAddrs <= i <=> j <= PageOf(i)
        /\ i < j * PageAddrs <=> PageOf(i) < j
        /\ PageOf(i) \in Nat
    BY <1>1, PageUnique, PageBounds
  <2>6. i = j * PageAddrs => PageOf(i) = j
    <3>1. ASSUME i = j * PageAddrs PROVE PageOf(i) = j
      <4>1. j <= PageOf(i)
        BY <2>2, <2>5, <3>1
      <4>2. PageOf(i) < j + 1
        <5>1. (j + 1) * PageAddrs = j * PageAddrs + PageAddrs
          BY <1>1, Z3
        <5>2. i < (j + 1) * PageAddrs
          BY <5>1, <3>1, <1>1, <2>2
        <5> QED
          BY <5>2, <1>1, PageUnique
      <4> QED
        BY <4>1, <4>2, <2>5
    <3> QED
      BY <3>1
  <2>7. search.val = pool[i]
    BY DEF IsTarget
  <2> DEFINE x == j * PageAddrs
  <2>8. /\ x \in Nat
        /\ Read(j) = pool[x] /\ pool[x] \in Nat /\ pool[i] \in Nat
        /\ i < x <=> pool[i] < pool[x]
        /\ i = x <=> pool[i] = pool[x]
        /\ x <= i <=> j <= PageOf(i)
        /\ i < x <=> PageOf(i) < j
        /\ i = x => PageOf(i) = j
    BY <2>1, <2>2, <2>4, <2>5, <2>6
  <2> HIDE DEF x
  <2> QED
    BY <2>1, <2>5, <2>7, <2>8, <1>1
<1>3. CASE search.level # "minimap"
  <2>1. Top = n_addrs /\ Read(j) = Word(j) /\ Pos(i) = i
    BY <1>3 DEF Top, Read, Pos
  <2>2. j \in Index
    BY <2>1, <1>1 DEF Index
  <2>3. /\ Word(j) = search.val <=> j = i
        /\ Word(j) > search.val <=> i < j
    BY <2>2, WordOrder
  <2> QED
    BY <2>1, <2>3, <1>1
<1> QED
  BY <1>2, <1>3

-----------------------------------------------------------------------------
(***************************************************************************)
(* The steps.                                                              *)
(***************************************************************************)

\* The fields of a search.
Searches == [at : {"idle", "binary", "iterate", "hint", "line", "done"},
             val : Words \cup {0}, from : Index,
             hint : Index \cup {NoHint}, left : Nat,
             level : {"minimap", "addrs"}, min : 0 .. n_addrs,
             max : 0 .. n_addrs, loc : Index \cup {-1}]

\* What the type invariant says about numbers.
LEMMA Sizes ==
    ASSUME SearchTypeOK
    PROVE  /\ n_addrs \in Nat /\ n_addrs >= 1
           /\ Index \subseteq Nat /\ \A i \in Index : i < n_addrs
           /\ search.min \in Nat /\ search.max \in Nat
           /\ NMinimap \in Nat /\ NMinimap >= 1 /\ NMinimap <= n_addrs
           /\ Top \in Nat /\ Top >= 1 /\ Top <= n_addrs
<1>1. n_addrs \in Nat /\ n_addrs >= 1
  BY SizesAssumption DEF SearchTypeOK
<1>2. search.min \in Nat /\ search.max \in Nat
  BY <1>1 DEF SearchTypeOK
<1>3. NMinimap \in Nat /\ NMinimap >= 1 /\ NMinimap <= n_addrs
  BY <1>1, MinimapPages
<1> QED
  BY <1>1, <1>2, <1>3 DEF Index, Top

\* A step that leaves the pool alone leaves its indices and its pages alone.
LEMMA PoolStays ==
    ASSUME SearchTypeOK, IsPool(n_addrs, pool), UNCHANGED pvars
    PROVE  /\ n_addrs' = n_addrs /\ pool' = pool
           /\ Index' = Index /\ NMinimap' = NMinimap
           /\ IsPool(n_addrs, pool)'
           /\ \A val \in Words : InRange(val) => InRange(val)'
BY DEF pvars, Index, NMinimap, IsPool, InRange

\* The search ends.
LEMMA FoundStep ==
    ASSUME IInv, search.at # "idle", NEW loc \in Index \cup {-1},
           loc = -1 => 0 \in marked,
           \A i \in Index : IsTarget(i) => loc = i,
           search' = Found(search, loc), UNCHANGED <<pvars, marked>>
    PROVE  IInv'
<1>1. /\ n_addrs' = n_addrs /\ pool' = pool /\ marked' = marked /\ Index' = Index
      /\ IsPool(n_addrs, pool)'
  BY PoolStays DEF IInv
<1>2. search \in Searches
  BY DEF IInv, SearchTypeOK, Searches
<1>3. /\ search' \in Searches
      /\ search'.at = "done" /\ search'.loc = loc
      /\ search'.val = search.val /\ search'.from = search.from
  BY <1>2 DEF Searches, Found
<1>4. SearchTypeOK'
  BY <1>1, <1>3 DEF IInv, SearchTypeOK, Searches
<1>5. ValInv'
  BY <1>1, <1>3 DEF IInv, ValInv, InRange
<1>6. RangeInv' /\ HintInv' /\ LocInv'
  BY <1>1, <1>3 DEF RangeInv, HintInv, LocInv
<1>7. TargetInv'
  BY <1>1, <1>3 DEF TargetInv, IsTarget
<1> QED
  BY <1>1, <1>4, <1>5, <1>6, <1>7 DEF IInv

\* addr_find begins, whatever search s was tried before.
LEMMA LevelOneStep ==
    ASSUME IInv, NEW s \in Searches, s.val \in Words, InRange(s.val),
           search' = LevelOne(s), UNCHANGED <<pvars, marked>>
    PROVE  IInv'
<1>1. /\ n_addrs' = n_addrs /\ pool' = pool /\ marked' = marked /\ Index' = Index
      /\ NMinimap' = NMinimap /\ IsPool(n_addrs, pool)'
  BY PoolStays DEF IInv
<1>2. /\ n_addrs \in Nat /\ n_addrs >= 1
      /\ NMinimap \in Nat /\ NMinimap >= 1 /\ NMinimap <= n_addrs
  BY Sizes DEF IInv
<1>3. /\ search' \in Searches
      /\ search'.at = "binary" /\ search'.level = "minimap"
      /\ search'.min = 0 /\ search'.max = NMinimap
      /\ search'.val = s.val /\ search'.from = s.from
  <2>1. NMinimap \in 0 .. n_addrs /\ 0 \in 0 .. n_addrs
    BY <1>2
  <2>2. search' = [s EXCEPT !.at = "binary", !.level = "minimap", !.min = 0, !.max = NMinimap]
    BY DEF LevelOne
  <2> QED
    BY <2>1, <2>2 DEF Searches
<1>4. SearchTypeOK'
  BY <1>1, <1>3 DEF IInv, SearchTypeOK, Searches
<1>5. ValInv'
  BY <1>1, <1>3 DEF ValInv, InRange
<1>6. RangeInv' /\ HintInv' /\ LocInv'
  BY <1>1, <1>2, <1>3 DEF RangeInv, HintInv, LocInv, Top
<1>7. ASSUME NEW i \in Index
      PROVE  0 <= PageOf(i) /\ PageOf(i) < NMinimap
  <2>1. i \in Nat /\ i < n_addrs
    BY <1>2 DEF Index
  <2>2. PageOf(i) \in Nat /\ PageOf(i) * PageAddrs <= i
    BY <2>1, PageBounds
  <2>3. PageOf(i) * PageAddrs \in Nat
    BY <2>2, SizesAssumption, Z3
  <2>4. PageOf(i) * PageAddrs < n_addrs
    BY <2>1, <2>2, <2>3, <1>2
  <2> QED
    BY <2>2, <2>4, <1>2, MinimapPages
<1>8. TargetInv'
  <2>1. \A i \in Index : Pos(i)' = PageOf(i)
    BY <1>3 DEF Pos, PageOf
  <2> QED
    BY <2>1, <1>1, <1>3, <1>7 DEF TargetInv
<1> QED
  BY <1>1, <1>4, <1>5, <1>6, <1>8 DEF IInv

\* binary_search returns r: to the second level, or as the result.
LEMMA ReturnStep ==
    ASSUME IInv, search.at \in {"binary", "iterate"}, NEW r \in Int,
           r >= -1, r < Top,
           r = -1 => search.level # "minimap" /\ 0 \in marked,
           \A i \in Index : IsTarget(i) => Pos(i) = r,
           search' = Return(r), UNCHANGED <<pvars, marked>>
    PROVE  IInv'
<1>1. CASE search.level # "minimap"
  <2>1. Top = n_addrs /\ search' = Found(search, r) /\ \A i \in Index : Pos(i) = i
    BY <1>1 DEF Top, Return, Pos
  <2>2. n_addrs \in Nat
    BY Sizes DEF IInv
  <2>3. r \in Index \cup {-1}
    BY <2>1, <2>2 DEF Index
  <2> QED
    BY <2>1, <2>3, FoundStep
<1>2. CASE search.level = "minimap"
  <2>1. Top = NMinimap /\ r \in Nat /\ r < NMinimap /\ \A i \in Index : Pos(i) = PageOf(i)
    BY <1>2 DEF Top, Pos
  <2>2. search' = [search EXCEPT !.at = "binary", !.level = "addrs",
                                 !.min = PageStart(r), !.max = PageEnd(r)]
    BY <1>2 DEF Return, LevelTwo, PageStart, PageEnd
  <2>3. /\ n_addrs' = n_addrs /\ pool' = pool /\ marked' = marked /\ Index' = Index
        /\ IsPool(n_addrs, pool)'
    BY PoolStays DEF IInv
  <2>4. n_addrs \in Nat /\ n_addrs >= 1
    BY Sizes DEF IInv
  <2>5. /\ PageStart(r) \in Nat /\ PageEnd(r) \in Nat
        /\ PageStart(r) < PageEnd(r) /\ PageEnd(r) <= n_addrs
        /\ \A i \in Index : PageOf(i) = r => PageStart(r) <= i /\ i < PageEnd(r)
    BY <2>1, <2>4, PageRange
  <2>6. search \in Searches
    BY DEF IInv, SearchTypeOK, Searches
  <2>7. /\ search' \in Searches
        /\ search'.at = "binary" /\ search'.level = "addrs"
        /\ search'.min = PageStart(r) /\ search'.max = PageEnd(r)
        /\ search'.val = search.val /\ search'.from = search.from
    <3>1. PageStart(r) \in 0 .. n_addrs /\ PageEnd(r) \in 0 .. n_addrs
      BY <2>4, <2>5
    <3> QED
      BY <3>1, <2>2, <2>6 DEF Searches
  <2>8. SearchTypeOK'
    BY <2>3, <2>7 DEF IInv, SearchTypeOK, Searches
  <2>9. ValInv'
    BY <2>3, <2>7 DEF IInv, ValInv, InRange
  <2>10. RangeInv' /\ HintInv' /\ LocInv'
    BY <2>3, <2>5, <2>7 DEF RangeInv, HintInv, LocInv, Top
  <2>11. TargetInv'
    <3>1. \A i \in Index : Pos(i)' = i /\ (IsTarget(i)' => IsTarget(i))
      BY <2>3, <2>7 DEF Pos, IsTarget
    <3> QED
      BY <3>1, <2>1, <2>3, <2>5, <2>7 DEF TargetInv
  <2> QED
    BY <2>3, <2>8, <2>9, <2>10, <2>11 DEF IInv
<1> QED
  BY <1>1, <1>2

\* The search goes on in a smaller range.
LEMMA NarrowStep ==
    ASSUME IInv, search.at \in {"binary", "iterate"},
           NEW lo \in Nat, NEW hi \in Nat, hi >= 1, hi <= Top,
           search' \in Searches, search'.at \in {"binary", "iterate"},
           search'.level = search.level, search'.min = lo, search'.max = hi,
           search'.val = search.val, search'.from = search.from,
           search'.at = "binary" => lo < hi,
           search'.at = "iterate" => lo <= hi,
           \A i \in Index : IsTarget(i) =>
               /\ search'.at = "binary" => lo <= Pos(i) /\ Pos(i) < hi
               /\ search'.at = "iterate" => lo - 1 <= Pos(i) /\ Pos(i) < hi,
           UNCHANGED <<pvars, marked>>
    PROVE  IInv'
<1>1. /\ n_addrs' = n_addrs /\ pool' = pool /\ marked' = marked /\ Index' = Index
      /\ NMinimap' = NMinimap /\ IsPool(n_addrs, pool)'
  BY PoolStays DEF IInv
<1>2. SearchTypeOK'
  BY <1>1 DEF IInv, SearchTypeOK, Searches
<1>3. ValInv'
  BY <1>1 DEF IInv, ValInv, InRange
<1>4. Top' = Top
  BY <1>1 DEF Top
<1>5. RangeInv' /\ HintInv' /\ LocInv'
  BY <1>4 DEF RangeInv, HintInv, LocInv
<1>6. TargetInv'
  <2>1. \A i \in Index : Pos(i)' = Pos(i) /\ (IsTarget(i)' => IsTarget(i))
    BY <1>1 DEF Pos, PageOf, IsTarget
  <2> QED
    BY <2>1, <1>1 DEF TargetInv
<1> QED
  BY <1>1, <1>2, <1>3, <1>5, <1>6 DEF IInv

\* The middle of a range that is not small lies inside it.
LEMMA Middle ==
    ASSUME SearchTypeOK, ~IsSmall
    PROVE  LET mid == (search.max + search.min) \div 2
           IN  mid \in Nat /\ search.min < mid /\ mid < search.max
<1>1. search.min \in Nat /\ search.max \in Nat
  BY Sizes
<1>2. search.max - search.min >= 2
  BY <1>1, SizesAssumption DEF IsSmall
<1> QED
  BY <1>1, <1>2

\* A halving of binary_search keeps the invariant.
LEMMA BinaryStepKeeps == IInv /\ BinaryStep => IInv'
<1> SUFFICES ASSUME IInv, BinaryStep PROVE IInv'
  OBVIOUS
<1> DEFINE mid == (search.max + search.min) \div 2
<1>1. search.at = "binary" /\ ~IsSmall /\ UNCHANGED <<pvars, marked>>
  BY DEF BinaryStep
<1>2. mid \in Nat /\ search.min < mid /\ mid < search.max
  BY <1>1, Middle DEF IInv
<1>3. /\ search.min \in Nat /\ search.max \in Nat /\ search.max <= Top
      /\ n_addrs \in Nat /\ Top \in Nat /\ Top <= n_addrs
  BY <1>1, Sizes DEF IInv, RangeInv
<1>4. search \in Searches
  BY DEF IInv, SearchTypeOK, Searches
<1>5. search' = CASE Read(mid) = search.val -> Return(mid)
                  [] Read(mid) > search.val -> [search EXCEPT !.max = mid]
                  [] OTHER -> [search EXCEPT !.min = mid]
  BY DEF BinaryStep
<1> HIDE DEF mid
<1>6. \A i \in Index : IsTarget(i) =>
         /\ Pos(i) \in Nat /\ search.min <= Pos(i) /\ Pos(i) < search.max
         /\ Read(mid) = search.val => Pos(i) = mid
         /\ Read(mid) > search.val => Pos(i) < mid
         /\ ~(Read(mid) = search.val) /\ ~(Read(mid) > search.val) => Pos(i) >= mid
  <2>1. mid < Top
    BY <1>2, <1>3
  <2> QED
    BY <2>1, <1>1, <1>2, ReadOrder DEF IInv, TargetInv
<1>7. CASE Read(mid) = search.val
  <2>0. ~(Read(mid) > search.val)
    BY <1>1, <1>7, WordsAssumption DEF IInv, ValInv
  <2>1. search' = Return(mid)
    BY <2>0, <1>5, <1>7
  <2>2. mid \in Int /\ mid >= -1 /\ mid < Top /\ mid # -1
    BY <1>2, <1>3
  <2> QED
    BY <2>1, <2>2, <1>1, <1>6, <1>7, ReturnStep
<1>8. CASE ~(Read(mid) = search.val) /\ Read(mid) > search.val
  <2>1. search' = [search EXCEPT !.max = mid]
    BY <1>5, <1>8
  <2>2. mid \in 0 .. n_addrs /\ mid >= 1 /\ mid <= Top
    BY <1>2, <1>3
  <2>3. /\ search' \in Searches /\ search'.at = "binary"
        /\ search'.level = search.level /\ search'.min = search.min /\ search'.max = mid
        /\ search'.val = search.val /\ search'.from = search.from
    BY <2>1, <2>2, <1>1, <1>4 DEF Searches
  <2> QED
    BY <2>2, <2>3, <1>1, <1>2, <1>3, <1>6, <1>8, NarrowStep
<1>9. CASE ~(Read(mid) = search.val) /\ ~(Read(mid) > search.val)
  <2>1. search' = [search EXCEPT !.min = mid]
    BY <1>5, <1>9
  <2>2. mid \in 0 .. n_addrs /\ search.max >= 1
    BY <1>2, <1>3
  <2>3. /\ search' \in Searches /\ search'.at = "binary"
        /\ search'.level = search.level /\ search'.min = mid /\ search'.max = search.max
        /\ search'.val = search.val /\ search'.from = search.from
    BY <2>1, <2>2, <1>1, <1>4 DEF Searches
  <2>4. \A i \in Index : IsTarget(i) => mid <= Pos(i) /\ Pos(i) < search.max
    BY <1>2, <1>6, <1>9
  <2> QED
    BY <2>2, <2>3, <2>4, <1>1, <1>2, <1>3, NarrowStep
<1> QED
  BY <1>7, <1>8, <1>9

\* So does the first test of iterative_search, ...
LEMMA IterativeFirstKeeps == IInv /\ IterativeFirst => IInv'
<1> SUFFICES ASSUME IInv, IterativeFirst PROVE IInv'
  OBVIOUS
<1>1. search.at = "binary" /\ UNCHANGED <<pvars, marked>>
  BY DEF IterativeFirst
<1>2. /\ search.min \in Nat /\ search.max \in Nat /\ search.min < search.max
      /\ search.max <= Top /\ n_addrs \in Nat /\ Top \in Nat /\ Top <= n_addrs
  BY <1>1, Sizes DEF IInv, RangeInv
<1>3. search \in Searches
  BY DEF IInv, SearchTypeOK, Searches
<1>4. \A i \in Index : IsTarget(i) =>
         /\ Pos(i) \in Nat /\ search.min <= Pos(i) /\ Pos(i) < search.max
         /\ Read(search.min) > search.val => Pos(i) < search.min
  <2>1. search.min < Top
    BY <1>2
  <2> QED
    BY <2>1, <1>1, <1>2, ReadOrder DEF IInv, TargetInv
<1>5. CASE Read(search.min) > search.val
  <2>1. search' = Return(search.min)
    BY <1>5 DEF IterativeFirst
  <2>2. /\ search.min \in Int /\ search.min >= -1 /\ search.min < Top /\ search.min # -1
    BY <1>2
  <2>3. \A i \in Index : IsTarget(i) => Pos(i) = search.min
    BY <1>2, <1>4, <1>5
  <2> QED
    BY <2>1, <2>2, <2>3, <1>1, ReturnStep
<1>6. CASE ~(Read(search.min) > search.val)
  <2>1. search' = [search EXCEPT !.at = "iterate"]
    BY <1>2, <1>6 DEF IterativeFirst
  <2>2. /\ search' \in Searches /\ search'.at = "iterate"
        /\ search'.level = search.level
        /\ search'.min = search.min /\ search'.max = search.max
        /\ search'.val = search.val /\ search'.from = search.from
    BY <2>1, <1>3 DEF Searches
  <2>3. \A i \in Index : IsTarget(i) => search.min - 1 <= Pos(i) /\ Pos(i) < search.max
    BY <1>2, <1>4
  <2>4. search.max >= 1 /\ search.min <= search.max
    BY <1>2
  <2> QED
    BY <2>2, <2>3, <2>4, <1>1, <1>2, NarrowStep
<1> QED
  BY <1>5, <1>6

\* ... a turn of its loop, ...
LEMMA IterativeStepKeeps == IInv /\ IterativeStep => IInv'
<1> SUFFICES ASSUME IInv, IterativeStep PROVE IInv'
  OBVIOUS
<1>1. search.at = "iterate" /\ search.min < search.max /\ UNCHANGED <<pvars, marked>>
  BY DEF IterativeStep
<1>2. /\ search.min \in Nat /\ search.max \in Nat /\ search.max >= 1
      /\ search.max <= Top /\ n_addrs \in Nat /\ Top \in Nat /\ Top <= n_addrs
      /\ n_addrs >= 1
  BY <1>1, Sizes DEF IInv, RangeInv
<1>3. search \in Searches
  BY DEF IInv, SearchTypeOK, Searches
<1>4. search.val \in Words /\ search.val \in Nat /\ pool[0] <= search.val
  BY <1>1, WordsAssumption DEF IInv, ValInv, InRange
<1>5. search.min < Top
  BY <1>1, <1>2
<1>6. \A i \in Index : IsTarget(i) =>
         /\ Pos(i) \in Nat /\ search.min - 1 <= Pos(i) /\ Pos(i) < search.max
         /\ Read(search.min) = search.val => Pos(i) = search.min
         /\ Read(search.min) > search.val => Pos(i) < search.min
         /\ ~(Read(search.min) = search.val) /\ ~(Read(search.min) > search.val) =>
               Pos(i) >= search.min
  BY <1>1, <1>2, <1>5, ReadOrder DEF IInv, TargetInv
<1>7. CASE Read(search.min) = search.val
  <2>1. ~(Read(search.min) > search.val)
    BY <1>4, <1>7
  <2>2. search' = Return(search.min)
    BY <2>1, <1>7 DEF IterativeStep
  <2>3. search.min \in Int /\ search.min >= -1 /\ search.min # -1
    BY <1>2
  <2> QED
    BY <2>2, <2>3, <1>1, <1>5, <1>6, <1>7, ReturnStep
<1>8. CASE ~(Read(search.min) = search.val) /\ Read(search.min) > search.val
  <2>1. search' = Return(search.min - 1)
    BY <1>8 DEF IterativeStep
  <2>2. search.min - 1 \in Int /\ search.min - 1 >= -1 /\ search.min - 1 < Top
    BY <1>2, <1>5
  <2>3. \A i \in Index : IsTarget(i) => Pos(i) = search.min - 1
    BY <1>2, <1>6, <1>8
  <2>4. ASSUME search.min - 1 = -1
        PROVE  search.level # "minimap" /\ 0 \in marked
    <3>1. search.min = 0
      BY <2>4, <1>2
    <3>2. 0 \in Index
      BY <1>2 DEF Index
    <3>3. /\ pool[0] \in Nat
          /\ Word(0) = pool[0] \/ (0 \in marked /\ Word(0) = pool[0] + 1)
      BY <3>2, WordValue DEF IInv
    <3>4. 0 * PageAddrs = 0
      BY SizesAssumption
    <3>5. search.level # "minimap"
      <4>1. Minimap(0) = pool[0]
        BY <3>4 DEF Minimap
      <4>2. ~(Minimap(0) > search.val)
        BY <4>1, <3>3, <1>4
      <4> QED
        BY <4>2, <3>1, <1>8 DEF Read
    <3>6. Read(0) = Word(0)
      BY <3>5 DEF Read
    <3>7. Word(0) > search.val
      BY <3>1, <3>6, <1>8
    <3>8. Word(0) # pool[0]
      BY <3>3, <3>7, <1>4
    <3> QED
      BY <3>3, <3>5, <3>8
  <2> QED
    BY <2>1, <2>2, <2>3, <2>4, <1>1, ReturnStep
<1>9. CASE ~(Read(search.min) = search.val) /\ ~(Read(search.min) > search.val)
  <2>1. search' = [search EXCEPT !.min = @ + 1]
    BY <1>9 DEF IterativeStep
  <2>2. search.min + 1 \in 0 .. n_addrs /\ search.min + 1 <= search.max
    BY <1>1, <1>2
  <2>3. /\ search' \in Searches /\ search'.at = "iterate"
        /\ search'.level = search.level
        /\ search'.min = search.min + 1 /\ search'.max = search.max
        /\ search'.val = search.val /\ search'.from = search.from
    BY <2>1, <2>2, <1>1, <1>3 DEF Searches
  <2>4. \A i \in Index : IsTarget(i) =>
           (search.min + 1) - 1 <= Pos(i) /\ Pos(i) < search.max
    BY <1>2, <1>6, <1>9
  <2>5. search.min + 1 \in Nat
    BY <1>2
  <2> QED
    BY <2>2, <2>3, <2>4, <2>5, <1>1, <1>2, NarrowStep
<1> QED
  BY <1>7, <1>8, <1>9

\* ... and its end.
LEMMA IterativeEndKeeps == IInv /\ IterativeEnd => IInv'
<1> SUFFICES ASSUME IInv, IterativeEnd PROVE IInv'
  OBVIOUS
<1>1. /\ search.at = "iterate" /\ search.min = search.max /\ UNCHANGED <<pvars, marked>>
      /\ search' = Return(search.min - 1)
  BY DEF IterativeEnd
<1>2. /\ search.min \in Nat /\ search.max \in Nat /\ search.max >= 1
      /\ search.max <= Top /\ Top \in Nat
  BY <1>1, Sizes DEF IInv, RangeInv
<1>3. /\ search.min - 1 \in Int /\ search.min - 1 >= -1
      /\ search.min - 1 < Top /\ search.min - 1 # -1
  BY <1>1, <1>2
<1>4. \A i \in Index : IsTarget(i) => Pos(i) = search.min - 1
  <2>1. \A i \in Index : Pos(i) \in Nat
    <3>1. Index \subseteq Nat
      BY Sizes DEF IInv
    <3> QED
      BY <3>1, PageBounds DEF Pos
  <2> QED
    BY <2>1, <1>1, <1>2 DEF IInv, TargetInv
<1> QED
  BY <1>1, <1>3, <1>4, ReturnStep

\* The walk along the line goes on behind a word that is less than the one
\* searched for.
LEMMA LineStep ==
    ASSUME IInv, search.at \in {"hint", "line"}, NEW h \in Index,
           ~(search.val <= Word(h)),
           \A i \in Index : IsTarget(i) => i >= h,
           search' \in Searches, search'.at = "line", search'.hint = h,
           search'.val = search.val, search'.from = search.from,
           UNCHANGED <<pvars, marked>>
    PROVE  IInv'
<1>1. /\ n_addrs' = n_addrs /\ pool' = pool /\ marked' = marked /\ Index' = Index
      /\ IsPool(n_addrs, pool)'
  BY PoolStays DEF IInv
<1>2. /\ search.val \in Words /\ search.val \in Nat /\ search.val > 0
      /\ search.val <= pool[n_addrs - 1]
  BY WordsAssumption DEF IInv, ValInv, InRange
<1>3. n_addrs \in Nat /\ n_addrs >= 1 /\ n_addrs - 1 \in Index /\ Index \subseteq Nat
  BY Sizes DEF IInv, Index
<1>4. h + 1 \in Index
  <2>1. /\ pool[h] \in Nat /\ Word(h) \in Nat /\ pool[n_addrs - 1] \in Nat
        /\ Word(h) = pool[h] \/ Word(h) = pool[h] + 1
        /\ h \in Nat /\ h < n_addrs
    BY <1>3, WordValue DEF IInv
  <2>2. h # n_addrs - 1
    BY <2>1, <1>2
  <2> QED
    BY <2>1, <2>2, <1>3 DEF Index
<1>5. ASSUME NEW i \in Index, IsTarget(i) PROVE i > h
  <2>1. h = i => Word(h) = search.val
    BY <1>5, WordOrder DEF IInv
  <2>2. h # i
    BY <2>1, <1>2
  <2> QED
    BY <2>2, <1>3, <1>5
<1>6. SearchTypeOK'
  BY <1>1 DEF IInv, SearchTypeOK, Searches
<1>7. ValInv'
  BY <1>1, <1>2 DEF IInv, ValInv, InRange
<1>8. RangeInv' /\ HintInv' /\ LocInv'
  BY <1>1, <1>4 DEF RangeInv, HintInv, LocInv
<1>9. TargetInv'
  <2>1. \A i \in Index : IsTarget(i)' => IsTarget(i)
    BY <1>1 DEF IsTarget
  <2> QED
    BY <2>1, <1>1, <1>5 DEF TargetInv
<1> QED
  BY <1>1, <1>6, <1>7, <1>8, <1>9 DEF IInv

\* A search from a hint ends at the first word that is not less.
LEMMA HintFound ==
    ASSUME IInv, search.at \in {"hint", "line"}, NEW h \in Index,
           search.val <= Word(h),
           \A i \in Index : IsTarget(i) => i >= h,
           search' = Found(search, h), UNCHANGED <<pvars, marked>>
    PROVE  IInv'
<1>1. search.val \in Nat /\ search.val > 0
  BY WordsAssumption DEF IInv, ValInv
<1>2. h # -1
  BY Sizes DEF IInv
<1>3. ASSUME NEW i \in Index, IsTarget(i) PROVE h = i
  <2>1. Word(h) < search.val <=> h < i
    BY <1>2, <1>3, WordOrder DEF IInv
  <2>2. Word(h) \in Nat /\ h \in Nat /\ i \in Nat
    BY <1>2, <1>3, WordValue DEF IInv
  <2> QED
    BY <2>1, <2>2, <1>1, <1>3
<1> QED
  BY <1>2, <1>3, FoundStep

\* addr_find_hint keeps the invariant with its test of the hint, ...
LEMMA HintFirstKeeps == IInv /\ HintFirst => IInv'
<1> SUFFICES ASSUME IInv, HintFirst PROVE IInv'
  OBVIOUS
<1>1. search.at = "hint" /\ UNCHANGED <<pvars, marked>>
  BY DEF HintFirst
<1>2. search \in Searches
  BY DEF IInv, SearchTypeOK, Searches
<1>3. search.hint \in Index /\ search.hint = search.from
  BY <1>1, <1>2 DEF Searches, IInv, HintInv
<1>4. \A i \in Index : IsTarget(i) => i >= search.hint
  BY <1>3 DEF IsTarget
<1>5. CASE search.val <= Word(search.hint)
  <2>1. search' = Found(search, search.hint)
    BY <1>5 DEF HintFirst
  <2> QED
    BY <2>1, <1>1, <1>3, <1>4, <1>5, HintFound
<1>6. CASE ~(search.val <= Word(search.hint))
  <2> DEFINE left == RemainingLine(search.hint)
  <2>1. search' = [search EXCEPT !.at = "line", !.left = left]
    BY <1>6 DEF HintFirst
  <2>2. left \in Nat
    <3>1. search.hint \in Int
      BY <1>3, Sizes DEF IInv
    <3>2. LineWords \in Nat /\ LineWords >= 1 /\ Slack \in Nat
      BY SizesAssumption
    <3>3. search.hint % LineWords \in 0 .. (LineWords - 1)
      BY <3>1, <3>2, Z3
    <3> QED
      BY <3>2, <3>3 DEF RemainingLine
  <2> HIDE DEF left
  <2>3. /\ search' \in Searches /\ search'.at = "line" /\ search'.hint = search.hint
        /\ search'.val = search.val /\ search'.from = search.from
    BY <2>1, <2>2, <1>2 DEF Searches
  <2> QED
    BY <2>2, <2>3, <1>1, <1>3, <1>4, <1>6, LineStep
<1> QED
  BY <1>5, <1>6

\* ... with a step along the line, ...
LEMMA HintStepKeeps == IInv /\ HintStep => IInv'
<1> SUFFICES ASSUME IInv, HintStep PROVE IInv'
  OBVIOUS
<1>1. search.at = "line" /\ search.left > 0 /\ UNCHANGED <<pvars, marked>>
  BY DEF HintStep
<1>2. search \in Searches /\ search.left \in Nat
  BY DEF IInv, SearchTypeOK, Searches
<1>3. search.hint \in Index /\ search.hint + 1 \in Index
  BY <1>1, <1>2 DEF Searches, IInv, HintInv
<1>4. n_addrs \in Nat /\ Index \subseteq Nat /\ \A i \in Index : i < n_addrs
  BY Sizes DEF IInv
<1> DEFINE h == search.hint + 1
<1>5. search' = IF search.val <= Word(h) THEN Found(search, h)
                ELSE [search EXCEPT !.hint = h, !.left = @ - 1]
  <2>1. ~(n_addrs < search.hint + 1)
    BY <1>3, <1>4 DEF Index
  <2> QED
    BY <2>1 DEF HintStep
<1>6. h \in Index
  BY <1>3
<1>7. \A i \in Index : IsTarget(i) => i >= h
  <2>1. \A i \in Index : IsTarget(i) => i > search.hint
    BY <1>1 DEF IInv, TargetInv
  <2>2. search.hint \in Int
    BY <1>3, <1>4 DEF Index
  <2> QED
    BY <2>1, <2>2, <1>4
<1> HIDE DEF h
<1>8. CASE search.val <= Word(h)
  <2>1. search' = Found(search, h)
    BY <1>5, <1>8
  <2> QED
    BY <2>1, <1>1, <1>6, <1>7, <1>8, HintFound
<1>9. CASE ~(search.val <= Word(h))
  <2>1. search' = [search EXCEPT !.hint = h, !.left = @ - 1]
    BY <1>5, <1>9
  <2>2. search.left - 1 \in Nat
    BY <1>1, <1>2
  <2>3. /\ search' \in Searches /\ search'.at = "line" /\ search'.hint = h
        /\ search'.val = search.val /\ search'.from = search.from
    BY <2>1, <2>2, <1>1, <1>2, <1>6 DEF Searches
  <2> QED
    BY <2>2, <2>3, <1>1, <1>6, <1>7, <1>9, LineStep
<1> QED
  BY <1>8, <1>9

\* ... and when it turns to addr_find.
LEMMA HintEndKeeps == IInv /\ HintEnd => IInv'
<1> SUFFICES ASSUME IInv, HintEnd PROVE IInv'
  OBVIOUS
<1>1. search.at = "line" /\ search' = LevelOne(search) /\ UNCHANGED <<pvars, marked>>
  BY DEF HintEnd
<1>2. search \in Searches
  BY DEF IInv, SearchTypeOK, Searches
<1>3. search.val \in Words /\ InRange(search.val)
  BY <1>1 DEF IInv, ValInv
<1> QED
  BY <1>1, <1>2, <1>3, LevelOneStep

\* A new search, for a word between the smallest and the largest address.
LEMMA StartKeeps ==
    ASSUME IInv, NEW val \in Words,
           StartFind(val) \/ \E hint \in Index : StartHint(val, hint)
    PROVE  IInv'
<1>1. n_addrs \in Nat /\ n_addrs >= 1 /\ Index \subseteq Nat
  BY Sizes DEF IInv
<1>2. 0 \in Index /\ 0 \in 0 .. n_addrs
  BY <1>1 DEF Index
<1>3. CASE StartFind(val)
  <2> DEFINE s == NewSearch(val, 0)
  <2>1. s \in Searches /\ s.val = val
    BY <1>2 DEF NewSearch, Idle, Searches, NoHint
  <2>2. InRange(val) /\ search' = LevelOne(s) /\ UNCHANGED <<pvars, marked>>
    BY <1>3 DEF StartFind
  <2> HIDE DEF s
  <2> QED
    BY <2>1, <2>2, LevelOneStep
<1>4. ASSUME NEW hint \in Index, StartHint(val, hint)
      PROVE  IInv'
  <2>1. /\ InRange(val) /\ UNCHANGED <<pvars, marked>>
        /\ search' = [NewSearch(val, hint) EXCEPT !.at = "hint", !.hint = hint]
    BY <1>4 DEF StartHint
  <2>2. /\ n_addrs' = n_addrs /\ pool' = pool /\ marked' = marked /\ Index' = Index
        /\ IsPool(n_addrs, pool)'
    BY <2>1, PoolStays DEF IInv
  <2>3. /\ search' \in Searches /\ search'.at = "hint" /\ search'.val = val
        /\ search'.from = hint /\ search'.hint = hint
    BY <2>1, <1>2 DEF NewSearch, Idle, Searches, NoHint
  <2>4. SearchTypeOK'
    BY <2>2, <2>3 DEF IInv, SearchTypeOK, Searches
  <2>5. ValInv'
    BY <2>1, <2>2, <2>3 DEF ValInv, InRange
  <2>6. RangeInv' /\ HintInv' /\ LocInv' /\ TargetInv'
    BY <2>3 DEF RangeInv, HintInv, LocInv, TargetInv
  <2> QED
    BY <2>2, <2>4, <2>5, <2>6 DEF IInv
<1> QED
  BY <1>3, <1>4

\* The caller uses the result.
LEMMA UseResultKeeps == IInv /\ UseResult => IInv'
<1> SUFFICES ASSUME IInv, UseResult PROVE IInv'
  OBVIOUS
<1>1. /\ marked' = marked \cup {i \in Index : i = search.loc /\ IsRef(i, search.val)}
      /\ search' = Idle /\ UNCHANGED pvars
  BY DEF UseResult
<1>2. /\ n_addrs' = n_addrs /\ pool' = pool /\ Index' = Index
      /\ IsPool(n_addrs, pool)'
  BY <1>1, PoolStays DEF IInv
<1>3. 0 \in Index /\ 0 \in 0 .. n_addrs
  BY Sizes DEF IInv, Index
<1>4. search' \in Searches /\ search'.at = "idle"
  BY <1>1, <1>3 DEF Idle, Searches, NoHint
<1>5. SearchTypeOK'
  BY <1>1, <1>2, <1>4 DEF IInv, SearchTypeOK, Searches
<1>6. ValInv' /\ RangeInv' /\ HintInv' /\ LocInv' /\ TargetInv'
  BY <1>4 DEF ValInv, RangeInv, HintInv, LocInv, TargetInv
<1> QED
  BY <1>2, <1>5, <1>6 DEF IInv

\* A mark that another sibling sets takes a node away from those to be found, and
\* moves nothing.
LEMMA OtherMarkKeeps ==
    ASSUME IInv, NEW k \in Index, OtherMark(k)
    PROVE  IInv'
<1>1. marked' = marked \cup {k} /\ search' = search /\ UNCHANGED pvars
  BY DEF OtherMark
<1>2. /\ n_addrs' = n_addrs /\ pool' = pool /\ Index' = Index /\ NMinimap' = NMinimap
      /\ IsPool(n_addrs, pool)'
  BY <1>1, PoolStays DEF IInv
<1>3. SearchTypeOK'
  BY <1>1, <1>2 DEF IInv, SearchTypeOK
<1>4. ValInv' /\ HintInv' /\ LocInv'
  BY <1>1, <1>2 DEF IInv, ValInv, InRange, HintInv, LocInv
<1>5. RangeInv'
  BY <1>1, <1>2 DEF IInv, RangeInv, Top
<1>6. TargetInv'
  <2>1. \A i \in Index : Pos(i)' = Pos(i) /\ (IsTarget(i)' => IsTarget(i))
    BY <1>1, <1>2 DEF Pos, PageOf, IsTarget
  <2> QED
    BY <2>1, <1>1, <1>2 DEF IInv, TargetInv
<1> QED
  BY <1>2, <1>3, <1>4, <1>5, <1>6 DEF IInv

-----------------------------------------------------------------------------
(***************************************************************************)
(* All steps together.                                                     *)
(***************************************************************************)

\* No search is under way when the collector has sorted the addresses.
LEMMA InitIInv == SearchInit => IInv
<1> SUFFICES ASSUME SearchInit PROVE IInv
  OBVIOUS
<1>1. n_addrs \in Nat /\ n_addrs >= 1
  BY SizesAssumption DEF SearchInit
<1>2. 0 \in Index /\ 0 \in 0 .. n_addrs
  BY <1>1 DEF Index
<1>3. search \in Searches /\ search.at = "idle"
  BY <1>2 DEF SearchInit, Idle, Searches, NoHint
<1>4. SearchTypeOK
  BY <1>3 DEF SearchInit, SearchTypeOK, Searches, Index
<1> QED
  BY <1>3, <1>4 DEF SearchInit, IInv, ValInv, RangeInv, HintInv, LocInv, TargetInv

\* Every step keeps the invariant.
LEMMA NextIInv == IInv /\ [SearchNext]_svars => IInv'
<1> SUFFICES ASSUME IInv, [SearchNext]_svars PROVE IInv'
  OBVIOUS
<1>1. CASE SearchStep
  BY <1>1, BinaryStepKeeps, IterativeFirstKeeps, IterativeStepKeeps, IterativeEndKeeps,
     HintFirstKeeps, HintStepKeeps, HintEndKeeps DEF SearchStep
<1>2. CASE \E val \in Words :
              StartFind(val) \/ \E hint \in Index : StartHint(val, hint)
  BY <1>2, StartKeeps
<1>3. CASE UseResult
  BY <1>3, UseResultKeeps
<1>4. CASE \E i \in Index : OtherMark(i)
  BY <1>4, OtherMarkKeeps
<1>5. CASE UNCHANGED svars
  <2>1. n_addrs' = n_addrs /\ pool' = pool /\ marked' = marked /\ search' = search
    BY <1>5 DEF svars
  <2> QED
    BY <2>1 DEF IInv, SearchTypeOK, IsPool, ValInv, InRange, RangeInv, HintInv, LocInv,
                TargetInv, IsTarget, Pos, PageOf, Top, NMinimap, Index
<1> QED
  BY <1>1, <1>2, <1>3, <1>4, <1>5 DEF SearchNext

\* What a search under way keeps.
LEMMA SearchKeeps ==
    ASSUME IInv, SearchStep
    PROVE  /\ search'.val = search.val /\ search'.from = search.from
           /\ search.at # "idle" /\ search'.at # "idle"
           /\ search.hint \in Index => search'.hint \in Index
           /\ search.hint = NoHint => search'.hint = NoHint
<1>1. search \in Searches
  BY DEF IInv, SearchTypeOK, Searches
<1>2. ASSUME NEW r, search' = Return(r), search.at # "idle"
      PROVE  /\ search'.val = search.val /\ search'.from = search.from
             /\ search'.at # "idle" /\ search'.hint = search.hint
  BY <1>1, <1>2 DEF Return, LevelTwo, Found, Searches
<1>3. CASE BinaryStep
  <2> DEFINE mid == (search.max + search.min) \div 2
  <2>1. search' = CASE Read(mid) = search.val -> Return(mid)
                    [] Read(mid) > search.val -> [search EXCEPT !.max = mid]
                    [] OTHER -> [search EXCEPT !.min = mid]
    BY <1>3 DEF BinaryStep
  <2>2. search.at = "binary"
    BY <1>3 DEF BinaryStep
  <2>3. Read(mid) = search.val => ~(Read(mid) > search.val)
    BY <2>2, WordsAssumption DEF IInv, ValInv
  <2> HIDE DEF mid
  <2>4. \/ search' = Return(mid)
        \/ search' = [search EXCEPT !.max = mid]
        \/ search' = [search EXCEPT !.min = mid]
    BY <2>1, <2>3
  <2> QED
    BY <1>1, <1>2, <2>2, <2>4 DEF Searches
<1>4. CASE IterativeFirst
  BY <1>1, <1>2, <1>4 DEF IterativeFirst, Searches
<1>5. CASE IterativeStep
  <2>1. search' = CASE Read(search.min) = search.val -> Return(search.min)
                    [] Read(search.min) > search.val -> Return(search.min - 1)
                    [] OTHER -> [search EXCEPT !.min = @ + 1]
    BY <1>5 DEF IterativeStep
  <2>2. search.at = "iterate"
    BY <1>5 DEF IterativeStep
  <2>3. Read(search.min) = search.val => ~(Read(search.min) > search.val)
    BY <2>2, WordsAssumption DEF IInv, ValInv
  <2>4. \/ search' = Return(search.min) \/ search' = Return(search.min - 1)
        \/ search' = [search EXCEPT !.min = @ + 1]
    BY <2>1, <2>3
  <2> QED
    BY <1>1, <1>2, <2>2, <2>4 DEF Searches
<1>6. CASE IterativeEnd
  BY <1>1, <1>2, <1>6 DEF IterativeEnd
<1>7. CASE HintFirst
  BY <1>1, <1>7 DEF HintFirst, Found, Searches
<1>8. CASE HintStep
  <2> DEFINE h == IF n_addrs < search.hint + 1 THEN n_addrs ELSE search.hint + 1
  <2>1. \/ search' = Found(search, h)
        \/ \E l : search' = [search EXCEPT !.hint = h, !.left = l]
    BY <1>8 DEF HintStep
  <2>2. search.at = "line" /\ search.hint \in Index /\ search.hint + 1 \in Index
    BY <1>8 DEF HintStep, IInv, HintInv
  <2>3. n_addrs \in Nat /\ Index \subseteq Nat /\ \A i \in Index : i < n_addrs
    BY Sizes DEF IInv
  <2>4. h = search.hint + 1
    <3>1. search.hint \in Nat /\ search.hint + 1 < n_addrs
      BY <2>2, <2>3
    <3> QED
      BY <2>3, <3>1
  <2>5. search.hint # NoHint
    BY <2>2, <2>3 DEF NoHint
  <2> HIDE DEF h
  <2>6. h \in Index
    BY <2>2, <2>4
  <2> QED
    BY <1>1, <2>1, <2>2, <2>5, <2>6 DEF Found, Searches
<1>9. CASE HintEnd
  BY <1>1, <1>9 DEF HintEnd, LevelOne, Searches
<1> QED
  BY <1>3, <1>4, <1>5, <1>6, <1>7, <1>8, <1>9 DEF SearchStep

-----------------------------------------------------------------------------
(***************************************************************************)
(* Where a search from a hint ends.  Once it has passed a word of the      *)
(* pool, what it searches for is greater than the first address, marked or *)
(* not: it does not end in front of the pool, as addr_find without a hint  *)
(* may.                                                                    *)
(***************************************************************************)
AboveInv ==
    search.hint # NoHint =>
        /\ search.at \in {"line", "binary", "iterate"} => pool[0] < search.val
        /\ search.at = "done" => search.loc \in Index

\* A word searched for that is greater than the first address is greater than the
\* first word, with its mark, on both levels.
LEMMA FirstWord ==
    ASSUME IInv, search.at # "idle", pool[0] < search.val
    PROVE  ~(Read(0) > search.val)
<1>1. 0 \in Index
  BY Sizes DEF IInv, Index
<1>2. /\ pool[0] \in Words /\ pool[0] \in Nat
      /\ Word(0) = pool[0] \/ Word(0) = pool[0] + 1
  BY <1>1, WordValue DEF IInv
<1>3. search.val \in Words /\ search.val \in Nat
  BY WordsAssumption DEF IInv, ValInv
<1>4. pool[0] + 1 < search.val
  BY <1>2, <1>3, WordsApart
<1>5. 0 * PageAddrs = 0
  BY SizesAssumption
<1>6. Minimap(0) = pool[0]
  BY <1>5 DEF Minimap
<1> QED
  BY <1>2, <1>3, <1>4, <1>6 DEF Read

\* A search that returns to addr_find.
LEMMA AboveReturn ==
    ASSUME IInv, AboveInv, search.at \in {"binary", "iterate"}, NEW r \in Int,
           r >= -1, r < Top, r = -1 => ~(pool[0] < search.val),
           search' = Return(r), UNCHANGED <<pvars, marked>>
    PROVE  AboveInv'
<1>1. search \in Searches
  BY DEF IInv, SearchTypeOK, Searches
<1>2. pool' = pool /\ Index' = Index /\ n_addrs \in Nat
  BY PoolStays, Sizes DEF IInv
<1>3. CASE search.level = "minimap"
  <2>1. search'.at = "binary" /\ search'.hint = search.hint /\ search'.val = search.val
    BY <1>1, <1>3 DEF Return, LevelTwo, Searches
  <2> QED
    BY <2>1, <1>2 DEF AboveInv
<1>4. CASE search.level # "minimap"
  <2>1. search'.at = "done" /\ search'.hint = search.hint /\ search'.loc = r
    BY <1>1, <1>4 DEF Return, Found, Searches
  <2>2. r # -1 => r \in Index
    BY <1>2, <1>4 DEF Top, Index
  <2> QED
    BY <2>1, <2>2, <1>2 DEF AboveInv
<1> QED
  BY <1>3, <1>4

\* A search that goes on, for the same word.
LEMMA AboveSame ==
    ASSUME AboveInv, search'.hint = search.hint, search'.val = search.val, pool' = pool,
           search.at \in {"line", "binary", "iterate"},
           search'.at \in {"line", "binary", "iterate"}
    PROVE  AboveInv'
BY DEF AboveInv

\* The steps of addr_find.
LEMMA FindAbove ==
    ASSUME IInv, AboveInv,
           BinaryStep \/ IterativeFirst \/ IterativeStep \/ IterativeEnd
    PROVE  AboveInv'
<1>1. search \in Searches /\ search.at \in {"binary", "iterate"}
  BY DEF IInv, SearchTypeOK, Searches, BinaryStep, IterativeFirst, IterativeStep,
     IterativeEnd
<1>2. UNCHANGED <<pvars, marked>> /\ pool' = pool
  BY DEF pvars, BinaryStep, IterativeFirst, IterativeStep, IterativeEnd
<1>3. /\ search.min \in Nat /\ search.max \in Nat /\ Top \in Nat /\ search.max <= Top
      /\ search.max >= 1
      /\ search.at = "binary" => search.min < search.max
  BY <1>1, Sizes DEF IInv, RangeInv
<1>4. search.val \in Nat
  BY <1>1, WordsAssumption DEF IInv, ValInv
<1>5. CASE BinaryStep
  <2> DEFINE mid == (search.max + search.min) \div 2
  <2>1. search.at = "binary" /\ ~IsSmall
    BY <1>5 DEF BinaryStep
  <2>2. mid \in Nat /\ search.min < mid /\ mid < search.max
    BY <2>1, Middle DEF IInv
  <2>3. search' = CASE Read(mid) = search.val -> Return(mid)
                    [] Read(mid) > search.val -> [search EXCEPT !.max = mid]
                    [] OTHER -> [search EXCEPT !.min = mid]
    BY <1>5 DEF BinaryStep
  <2>4. Read(mid) = search.val => ~(Read(mid) > search.val)
    BY <1>4
  <2> HIDE DEF mid
  <2>5. CASE search' = Return(mid)
    BY <1>1, <1>2, <1>3, <2>2, <2>5, AboveReturn
  <2>6. CASE search' = [search EXCEPT !.max = mid] \/ search' = [search EXCEPT !.min = mid]
    <3>1. /\ search'.hint = search.hint /\ search'.val = search.val
          /\ search'.at = search.at
      BY <1>1, <2>6 DEF Searches
    <3> QED
      BY <1>1, <1>2, <3>1, AboveSame
  <2> QED
    BY <2>3, <2>4, <2>5, <2>6
<1>6. CASE IterativeFirst
  <2>1. search.at = "binary"
    BY <1>6 DEF IterativeFirst
  <2>2. CASE search' = Return(search.min)
    BY <1>1, <1>2, <1>3, <2>1, <2>2, AboveReturn
  <2>3. CASE search' = [search EXCEPT !.at = "iterate"]
    <3>1. /\ search'.hint = search.hint /\ search'.val = search.val
          /\ search'.at = "iterate"
      BY <1>1, <2>3 DEF Searches
    <3> QED
      BY <1>1, <1>2, <3>1, AboveSame
  <2> QED
    BY <1>6, <2>2, <2>3 DEF IterativeFirst
<1>7. CASE IterativeStep
  <2>1. search.at = "iterate" /\ search.min < search.max
    BY <1>7 DEF IterativeStep
  <2>2. search' = CASE Read(search.min) = search.val -> Return(search.min)
                    [] Read(search.min) > search.val -> Return(search.min - 1)
                    [] OTHER -> [search EXCEPT !.min = @ + 1]
    BY <1>7 DEF IterativeStep
  <2>3. CASE search' = Return(search.min)
    BY <1>1, <1>2, <1>3, <2>1, <2>3, AboveReturn
  <2>4. CASE Read(search.min) > search.val /\ search' = Return(search.min - 1)
    <3>1. search.min - 1 = -1 => search.min = 0
      BY <1>3
    <3>2. search.min - 1 = -1 => ~(pool[0] < search.val)
      BY <1>1, <2>4, <3>1, FirstWord
    <3>3. search.min - 1 \in Int /\ search.min - 1 >= -1 /\ search.min - 1 < Top
      BY <1>3, <2>1
    <3> QED
      BY <1>1, <1>2, <2>4, <3>2, <3>3, AboveReturn
  <2>5. CASE search' = [search EXCEPT !.min = @ + 1]
    <3>1. /\ search'.hint = search.hint /\ search'.val = search.val
          /\ search'.at = search.at
      BY <1>1, <2>5 DEF Searches
    <3> QED
      BY <1>1, <1>2, <3>1, AboveSame
  <2>6. Read(search.min) = search.val => ~(Read(search.min) > search.val)
    BY <1>4
  <2> QED
    BY <2>2, <2>3, <2>4, <2>5, <2>6
<1>8. CASE IterativeEnd
  <2>1. search.min = search.max /\ search' = Return(search.min - 1)
    BY <1>8 DEF IterativeEnd
  <2>2. search.min - 1 \in Int /\ search.min - 1 >= 0 /\ search.min - 1 < Top
    BY <1>3, <2>1
  <2> QED
    BY <1>1, <1>2, <2>1, <2>2, AboveReturn
<1> QED
  BY <1>5, <1>6, <1>7, <1>8

\* The steps of addr_find_hint: it goes on behind a smaller word only.
LEMMA HintAbove ==
    ASSUME IInv, AboveInv, HintFirst \/ HintStep \/ HintEnd
    PROVE  AboveInv'
<1>1. search \in Searches /\ search.at \in {"hint", "line"}
  BY DEF IInv, SearchTypeOK, Searches, HintFirst, HintStep, HintEnd
<1>2. pool' = pool /\ Index' = Index /\ 0 \in Index /\ Index \subseteq Nat
  <2>1. UNCHANGED pvars
    BY DEF HintFirst, HintStep, HintEnd
  <2> QED
    BY <2>1, PoolStays, Sizes DEF IInv, Index
<1>3. search.val \in Nat
  BY <1>1, WordsAssumption DEF IInv, ValInv
<1>4. ASSUME NEW h \in Index, ~(search.val <= Word(h)) PROVE pool[0] < search.val
  <2>1. /\ pool[0] \in Nat /\ pool[h] \in Nat /\ h \in Nat
        /\ Word(h) = pool[h] \/ Word(h) = pool[h] + 1
    BY <1>2, WordValue DEF IInv
  <2>2. pool[0] <= pool[h]
    BY <1>2, <2>1, PoolOrder DEF IInv
  <2> QED
    BY <1>3, <1>4, <2>1, <2>2
<1>5. CASE HintFirst
  <2>1. search.hint \in Index
    BY <1>1, <1>5 DEF HintFirst, Searches, IInv, HintInv
  <2>2. CASE search' = Found(search, search.hint)
    <3>1. search'.at = "done" /\ search'.loc = search.hint
      BY <1>1, <2>2 DEF Found, Searches
    <3> QED
      BY <1>2, <2>1, <3>1 DEF AboveInv
  <2>3. CASE /\ ~(search.val <= Word(search.hint))
             /\ search' = [search EXCEPT !.at = "line", !.left = RemainingLine(search.hint)]
    <3>1. search'.at = "line" /\ search'.val = search.val
      BY <1>1, <2>3 DEF Searches
    <3> QED
      BY <1>2, <1>4, <2>1, <2>3, <3>1 DEF AboveInv
  <2> QED
    BY <1>5, <2>2, <2>3 DEF HintFirst
<1>6. CASE HintStep
  <2> DEFINE h == IF n_addrs < search.hint + 1 THEN n_addrs ELSE search.hint + 1
  <2>1. search.at = "line" /\ search.hint + 1 \in Index
    BY <1>6 DEF HintStep, IInv, HintInv
  <2>2. h \in Index
    BY <2>1, Sizes DEF IInv
  <2>3. search' = IF search.val <= Word(h) THEN Found(search, h)
                  ELSE [search EXCEPT !.hint = h, !.left = @ - 1]
    BY <1>6 DEF HintStep
  <2> HIDE DEF h
  <2>4. CASE search' = Found(search, h)
    <3>1. search'.at = "done" /\ search'.loc = h
      BY <1>1, <2>4 DEF Found, Searches
    <3> QED
      BY <1>2, <2>2, <3>1 DEF AboveInv
  <2>5. CASE /\ ~(search.val <= Word(h))
             /\ search' = [search EXCEPT !.hint = h, !.left = @ - 1]
    <3>1. search'.at = "line" /\ search'.val = search.val
      BY <1>1, <2>1, <2>5 DEF Searches
    <3> QED
      BY <1>2, <1>4, <2>2, <2>5, <3>1 DEF AboveInv
  <2> QED
    BY <2>3, <2>4, <2>5
<1>7. CASE HintEnd
  <2>1. search.at = "line" /\ search' = LevelOne(search)
    BY <1>7 DEF HintEnd
  <2>2. /\ search'.at = "binary" /\ search'.val = search.val
        /\ search'.hint = search.hint
    BY <1>1, <2>1 DEF LevelOne, Searches
  <2> QED
    BY <1>2, <2>1, <2>2, AboveSame
<1> QED
  BY <1>5, <1>6, <1>7

\* No step takes a search from a hint in front of the pool.
LEMMA NextAbove == IInv /\ AboveInv /\ [SearchNext]_svars => AboveInv'
<1> SUFFICES ASSUME IInv, AboveInv, [SearchNext]_svars PROVE AboveInv'
  OBVIOUS
<1>1. CASE SearchStep
  BY <1>1, FindAbove, HintAbove DEF SearchStep
<1>2. ASSUME NEW val \in Words, StartFind(val) PROVE AboveInv'
  <2>1. search'.hint = NoHint
    BY <1>2 DEF StartFind, LevelOne, NewSearch, Idle
  <2> QED
    BY <2>1 DEF AboveInv, NoHint
<1>3. ASSUME NEW val \in Words, NEW hint \in Index, StartHint(val, hint)
      PROVE  AboveInv'
  <2>1. search'.at = "hint"
    BY <1>3 DEF StartHint, NewSearch, Idle
  <2> QED
    BY <2>1 DEF AboveInv
<1>4. CASE UseResult
  <2>1. search'.at = "idle"
    BY <1>4 DEF UseResult, Idle
  <2> QED
    BY <2>1 DEF AboveInv
<1>5. ASSUME NEW i \in Index, OtherMark(i) PROVE AboveInv'
  <2>1. n_addrs' = n_addrs /\ pool' = pool /\ search' = search
    BY <1>5 DEF OtherMark, pvars
  <2> QED
    BY <2>1 DEF AboveInv, Index, NoHint
<1>6. CASE UNCHANGED svars
  <2>1. n_addrs' = n_addrs /\ pool' = pool /\ search' = search
    BY <1>6 DEF svars
  <2> QED
    BY <2>1 DEF AboveInv, Index, NoHint
<1> QED
  BY <1>1, <1>2, <1>3, <1>4, <1>5, <1>6 DEF SearchNext

-----------------------------------------------------------------------------
(***************************************************************************)
(* The theorems.                                                           *)
(***************************************************************************)

\* The strengthened invariant holds throughout.
THEOREM SearchInvariant == SearchSpec => [](IInv /\ AboveInv)
<1>1. SearchInit => IInv /\ AboveInv
  BY InitIInv DEF SearchInit, Idle, AboveInv
<1>2. IInv /\ AboveInv /\ [SearchNext]_svars => (IInv /\ AboveInv)'
  BY NextIInv, NextAbove
<1> QED
  BY <1>1, <1>2, PTL DEF SearchSpec

\* addr_find and addr_find_hint keep their types: in particular a search ends at
\* an index of the pool, or right in front of it.
THEOREM SearchTypeCorrect == SearchSpec => []SearchTypeOK
<1>1. IInv => SearchTypeOK
  BY DEF IInv
<1> QED
  BY <1>1, SearchInvariant, PTL

\* No search reads outside of the minimap and the pool, and addr_find_hint returns
\* an index of the pool (child.c:78-145), for every size of pool, page and line,
\* every hint, and whatever is marked meanwhile.
THEOREM SearchesStayInside == SearchSpec => []ReadsMapped
<1>1. IInv /\ search.at = "hint" => search.hint \in Index
  BY DEF IInv, SearchTypeOK, HintInv
<1>2. IInv /\ AboveInv => ReadsMapped
  BY <1>1 DEF IInv, AboveInv, RangeInv, HintInv, ReadsMapped, Top
<1> QED
  BY <1>2, SearchInvariant, PTL

\* A search does not miss a node that nobody has marked (child.c:68-145).
THEOREM UnmarkedFound == SearchSpec => []FoundOrMarked
<1>1. IInv => FoundOrMarked
  BY DEF IInv, TargetInv, IsTarget, FoundOrMarked
<1> QED
  BY <1>1, SearchInvariant, PTL

-----------------------------------------------------------------------------
(***************************************************************************)
(* The recursive functions satisfy the equations that define them.         *)
(***************************************************************************)
Itself(n) == n
TreesDef(f, n) ==
    IF n = 0 THEN {NoTree} ELSE {NoTree} \cup Nodes(f[n - 1])

TreesRec == INSTANCE Recursion WITH Dom <- Nat, Rank <- Itself, Def <- TreesDef

\* The levels of trees.
LEMMA TreesUnfold ==
    /\ Trees[0] = {NoTree}
    /\ \A n \in Nat : Trees[n + 1] = {NoTree} \cup Nodes(Trees[n])
<1>1. \A n \in Nat : Itself(n) \in Nat
  BY DEF Itself
<1>2. TreesRec!Calls
  <2> SUFFICES ASSUME NEW g, NEW h, NEW x \in Nat,
                      \A y \in Nat : Itself(y) < Itself(x) => g[y] = h[y]
               PROVE  TreesDef(g, x) = TreesDef(h, x)
    BY DEF TreesRec!Calls
  <2>1. CASE x = 0
    BY <2>1 DEF TreesDef
  <2>2. CASE x # 0
    <3>1. x - 1 \in Nat /\ Itself(x - 1) < Itself(x)
      BY <2>2 DEF Itself
    <3>2. g[x - 1] = h[x - 1]
      BY <3>1
    <3> QED
      BY <2>2, <3>2 DEF TreesDef
  <2> QED
    BY <2>1, <2>2
<1>3. Trees = CHOOSE g : g = [n \in Nat |-> TreesDef(g, n)]
  BY DEF Trees, TreesDef
<1>4. Trees = [n \in Nat |-> TreesDef(Trees, n)]
  BY <1>1, <1>2, <1>3, TreesRec!DefinedByRecursion, Zenon
<1>5. ASSUME NEW n \in Nat PROVE Trees[n] = TreesDef(Trees, n)
  BY <1>4
<1>6. Trees[0] = {NoTree}
  BY <1>5 DEF TreesDef
<1>7. ASSUME NEW n \in Nat PROVE Trees[n + 1] = {NoTree} \cup Nodes(Trees[n])
  <2>1. n + 1 \in Nat /\ n + 1 # 0 /\ (n + 1) - 1 = n
    OBVIOUS
  <2>2. Trees[n + 1] = TreesDef(Trees, n + 1)
    BY <1>5, <2>1
  <2> QED
    BY <2>1, <2>2 DEF TreesDef
<1> QED
  BY <1>6, <1>7

\* Deeper levels contain the shallower ones.
LEMMA TreesGrow ==
    \A n \in Nat : Trees[n] \subseteq Trees[n + 1]
<1> DEFINE S == {n \in Nat : Trees[n] \subseteq Trees[n + 1]}
<1>1. 0 \in S
  <2>1. Trees[0] = {NoTree} /\ Trees[0 + 1] = {NoTree} \cup Nodes(Trees[0])
    BY TreesUnfold
  <2> QED
    BY <2>1
<1>2. ASSUME NEW n \in Nat, n \in S PROVE n + 1 \in S
  <2>1. Trees[n] \subseteq Trees[n + 1]
    BY <1>2
  <2>2. Nodes(Trees[n]) \subseteq Nodes(Trees[n + 1])
    BY <2>1 DEF Nodes
  <2>3. /\ Trees[n + 1] = {NoTree} \cup Nodes(Trees[n])
        /\ Trees[(n + 1) + 1] = {NoTree} \cup Nodes(Trees[n + 1])
    BY TreesUnfold
  <2> QED
    BY <2>2, <2>3
<1>3. Nat \subseteq S
  <2> HIDE DEF S
  <2> QED
    BY <1>1, <1>2, TreesRec!Induction
<1> QED
  BY <1>3

\* So do all the levels further down.
LEMMA TreesMonotone ==
    ASSUME NEW m \in Nat, NEW n \in Nat, m <= n
    PROVE  Trees[m] \subseteq Trees[n]
<1> DEFINE S == {k \in Nat : Trees[m] \subseteq Trees[m + k]}
<1>1. 0 \in S
  OBVIOUS
<1>2. ASSUME NEW k \in Nat, k \in S PROVE k + 1 \in S
  <2>1. Trees[m + k] \subseteq Trees[(m + k) + 1]
    BY TreesGrow
  <2>2. (m + k) + 1 = m + (k + 1)
    OBVIOUS
  <2> QED
    BY <1>2, <2>1, <2>2
<1>3. Nat \subseteq S
  <2> HIDE DEF S
  <2> QED
    BY <1>1, <1>2, TreesRec!Induction
<1>4. n - m \in S /\ m + (n - m) = n
  BY <1>3
<1> QED
  BY <1>4

\* A tree is NoTree or a node with two subtrees one level up.
LEMMA TreeParts ==
    ASSUME NEW n \in Nat, NEW node \in Trees[n], node # NoTree
    PROVE  n - 1 \in Nat /\ node \in Nodes(Trees[n - 1])
<1>1. n # 0
  BY TreesUnfold
<1>2. n - 1 \in Nat /\ (n - 1) + 1 = n
  BY <1>1
<1>3. Trees[(n - 1) + 1] = {NoTree} \cup Nodes(Trees[n - 1])
  BY <1>2, TreesUnfold
<1> QED
  BY <1>2, <1>3

\* NoTree is on every level, ...
LEMMA NoTreeInTrees == \A n \in Nat : NoTree \in Trees[n]
<1> SUFFICES ASSUME NEW n \in Nat PROVE NoTree \in Trees[n]
  OBVIOUS
<1>1. NoTree \in Trees[0] /\ Trees[0] \subseteq Trees[n]
  BY TreesUnfold, TreesMonotone
<1> QED
  BY <1>1

\* ... and a node is one level below its subtrees.
LEMMA NodeInTrees ==
    ASSUME NEW n \in Nat, NEW l \in Trees[n], NEW r \in Trees[n], NEW k \in Nat,
           NEW h \in Nat \ {0}
    PROVE  [key |-> k, height |-> h, left |-> l, right |-> r] \in Trees[n + 1]
<1>1. Trees[n + 1] = {NoTree} \cup Nodes(Trees[n])
  BY TreesUnfold
<1> QED
  BY <1>1 DEF Nodes

-----------------------------------------------------------------------------
\* The first level that a tree is in: what the recursive calls lower.
TreeRank(node) ==
    CHOOSE n \in Nat : node \in Trees[n] /\ \A m \in Nat : node \in Trees[m] => n <= m

\* It is a level that the tree is in, and no other is less.
LEMMA TreeRankLeast ==
    ASSUME NEW n \in Nat, NEW node \in Trees[n]
    PROVE  /\ TreeRank(node) \in Nat
           /\ node \in Trees[TreeRank(node)]
           /\ TreeRank(node) <= n
<1> DEFINE S == {m \in Nat : node \in Trees[m]}
<1>1. PICK m \in S : \A k \in S : m <= k
  <2>1. S \subseteq Nat /\ n \in S
    OBVIOUS
  <2> HIDE DEF S
  <2> QED
    BY <2>1, TreesRec!LeastNatural
<1>2. m \in Nat /\ node \in Trees[m] /\ \A k \in Nat : node \in Trees[k] => m <= k
  BY <1>1
<1>3. /\ TreeRank(node) \in Nat /\ node \in Trees[TreeRank(node)]
      /\ \A k \in Nat : node \in Trees[k] => TreeRank(node) <= k
  BY <1>2 DEF TreeRank
<1> QED
  BY <1>3

\* The fields of a node; its subtrees have lower ranks.
LEMMA SubtreeInTree ==
    ASSUME NEW node \in Tree, node # NoTree
    PROVE  /\ node.key \in Nat /\ node.height \in Nat \ {0}
           /\ node.left \in Tree /\ TreeRank(node.left) < TreeRank(node)
           /\ node.right \in Tree /\ TreeRank(node.right) < TreeRank(node)
           /\ node = [key |-> node.key, height |-> node.height,
                      left |-> node.left, right |-> node.right]
<1> DEFINE n == TreeRank(node)
<1>1. n \in Nat /\ node \in Trees[n] /\ n <= MaxDepth
  BY TreeRankLeast, DepthAssumption DEF Tree
<1> HIDE DEF n
<1>2. n - 1 \in Nat /\ node \in Nodes(Trees[n - 1])
  BY <1>1, TreeParts
<1>3. Trees[n - 1] \subseteq Tree
  BY <1>1, <1>2, TreesMonotone, DepthAssumption DEF Tree
<1>4. \A t \in Trees[n - 1] : TreeRank(t) \in Nat /\ TreeRank(t) <= n - 1
  BY <1>2, TreeRankLeast
<1>5. node.left \in Trees[n - 1] /\ node.right \in Trees[n - 1]
  BY <1>2 DEF Nodes
<1>6. /\ node.key \in Nat /\ node.height \in Nat \ {0}
      /\ node = [key |-> node.key, height |-> node.height,
                 left |-> node.left, right |-> node.right]
  BY <1>2 DEF Nodes
<1>7. TreeRank(node.left) < n /\ TreeRank(node.right) < n
  BY <1>1, <1>2, <1>4, <1>5
<1> QED
  BY <1>3, <1>5, <1>6, <1>7 DEF n

\* Every tree has a rank.
LEMMA TreeRanked == \A node \in Tree : TreeRank(node) \in Nat
BY TreeRankLeast, DepthAssumption DEF Tree

\* NoTree is a tree.
LEMMA NoTreeInTree == NoTree \in Tree
BY NoTreeInTrees, DepthAssumption DEF Tree

-----------------------------------------------------------------------------
InsertDef(f, node) ==
    [key \in Nat |->
        IF node = NoTree THEN NewNode(key)
        ELSE IF key < node.key
        THEN Rebalance(WithHeight([node EXCEPT !.left = f[@][key]]), key)
        ELSE IF key > node.key
        THEN Rebalance(WithHeight([node EXCEPT !.right = f[@][key]]), key)
        ELSE node]
InsertRec == INSTANCE Recursion WITH Dom <- Tree, Rank <- TreeRank, Def <- InsertDef

\* insert_node.
LEMMA InsertUnfold ==
    \A node \in Tree, key \in Nat : InsertNode[node][key] =
        IF node = NoTree THEN NewNode(key)
        ELSE IF key < node.key
        THEN Rebalance(WithHeight([node EXCEPT !.left = InsertNode[node.left][key]]), key)
        ELSE IF key > node.key
        THEN Rebalance(WithHeight([node EXCEPT !.right = InsertNode[node.right][key]]), key)
        ELSE node
<1>1. InsertRec!Calls
  <2> SUFFICES ASSUME NEW g, NEW h, NEW x \in Tree,
                      \A y \in Tree : TreeRank(y) < TreeRank(x) => g[y] = h[y]
               PROVE  InsertDef(g, x) = InsertDef(h, x)
    BY DEF InsertRec!Calls
  <2>1. CASE x = NoTree
    BY <2>1 DEF InsertDef
  <2>2. CASE x # NoTree
    <3>1. g[x.left] = h[x.left] /\ g[x.right] = h[x.right]
      BY <2>2, SubtreeInTree
    <3> QED
      BY <2>2, <3>1 DEF InsertDef
  <2> QED
    BY <2>1, <2>2
<1>2. InsertNode = CHOOSE g : g = [node \in Tree |-> InsertDef(g, node)]
  BY DEF InsertNode, InsertDef
<1>3. InsertNode = [node \in Tree |-> InsertDef(InsertNode, node)]
  BY <1>1, <1>2, TreeRanked, InsertRec!DefinedByRecursion, Zenon
<1>4. ASSUME NEW node \in Tree PROVE InsertNode[node] = InsertDef(InsertNode, node)
  BY <1>3
<1> QED
  BY <1>4 DEF InsertDef

InorderDef(f, node) ==
    IF node = NoTree THEN <<>> ELSE f[node.left] \o <<node.key>> \o f[node.right]
InorderRec == INSTANCE Recursion WITH Dom <- Tree, Rank <- TreeRank, Def <- InorderDef

\* inorder_traverse.
LEMMA InorderUnfold ==
    \A node \in Tree : Inorder[node] =
        IF node = NoTree THEN <<>>
        ELSE Inorder[node.left] \o <<node.key>> \o Inorder[node.right]
<1>1. InorderRec!Calls
  <2> SUFFICES ASSUME NEW g, NEW h, NEW x \in Tree,
                      \A y \in Tree : TreeRank(y) < TreeRank(x) => g[y] = h[y]
               PROVE  InorderDef(g, x) = InorderDef(h, x)
    BY DEF InorderRec!Calls
  <2> QED
    BY SubtreeInTree DEF InorderDef
<1>2. Inorder = CHOOSE g : g = [node \in Tree |-> InorderDef(g, node)]
  BY DEF Inorder, InorderDef
<1>3. Inorder = [node \in Tree |-> InorderDef(Inorder, node)]
  BY <1>1, <1>2, TreeRanked, InorderRec!DefinedByRecursion, Zenon
<1>4. ASSUME NEW node \in Tree PROVE Inorder[node] = InorderDef(Inorder, node)
  BY <1>3
<1> QED
  BY <1>4 DEF InorderDef

DepthDef(f, node) ==
    IF node = NoTree THEN 0 ELSE Higher(f[node.left], f[node.right]) + 1
DepthRec == INSTANCE Recursion WITH Dom <- Tree, Rank <- TreeRank, Def <- DepthDef

\* The depth of a tree.
LEMMA DepthUnfold ==
    \A node \in Tree : Depth[node] =
        IF node = NoTree THEN 0 ELSE Higher(Depth[node.left], Depth[node.right]) + 1
<1>1. DepthRec!Calls
  <2> SUFFICES ASSUME NEW g, NEW h, NEW x \in Tree,
                      \A y \in Tree : TreeRank(y) < TreeRank(x) => g[y] = h[y]
               PROVE  DepthDef(g, x) = DepthDef(h, x)
    BY DEF DepthRec!Calls
  <2> QED
    BY SubtreeInTree DEF DepthDef
<1>2. Depth = CHOOSE g : g = [node \in Tree |-> DepthDef(g, node)]
  BY DEF Depth, DepthDef
<1>3. Depth = [node \in Tree |-> DepthDef(Depth, node)]
  BY <1>1, <1>2, TreeRanked, DepthRec!DefinedByRecursion, Zenon
<1>4. ASSUME NEW node \in Tree PROVE Depth[node] = DepthDef(Depth, node)
  BY <1>3
<1> QED
  BY <1>4 DEF DepthDef

SubtreesDef(f, node) ==
    IF node = NoTree THEN {} ELSE {node} \cup f[node.left] \cup f[node.right]
SubtreesRec == INSTANCE Recursion WITH Dom <- Tree, Rank <- TreeRank, Def <- SubtreesDef

\* The nodes of a tree.
LEMMA SubtreesUnfold ==
    \A node \in Tree : Subtrees[node] =
        IF node = NoTree THEN {}
        ELSE {node} \cup Subtrees[node.left] \cup Subtrees[node.right]
<1>1. SubtreesRec!Calls
  <2> SUFFICES ASSUME NEW g, NEW h, NEW x \in Tree,
                      \A y \in Tree : TreeRank(y) < TreeRank(x) => g[y] = h[y]
               PROVE  SubtreesDef(g, x) = SubtreesDef(h, x)
    BY DEF SubtreesRec!Calls
  <2> QED
    BY SubtreeInTree DEF SubtreesDef
<1>2. Subtrees = CHOOSE g : g = [node \in Tree |-> SubtreesDef(g, node)]
  BY DEF Subtrees, SubtreesDef
<1>3. Subtrees = [node \in Tree |-> SubtreesDef(Subtrees, node)]
  BY <1>1, <1>2, TreeRanked, SubtreesRec!DefinedByRecursion, Zenon
<1>4. ASSUME NEW node \in Tree PROVE Subtrees[node] = SubtreesDef(Subtrees, node)
  BY <1>3
<1> QED
  BY <1>4 DEF SubtreesDef

Length(a) == Len(a)
BuildDef(f, a) == IF a = <<>> THEN NoTree ELSE InsertNode[f[Front(a)]][Last(a)]
BuildRec == INSTANCE Recursion WITH Dom <- Seq(Nat), Rank <- Length, Def <- BuildDef
CompactDef(f, a) ==
    IF a = <<>> THEN <<>>
    ELSE LET kept == f[Front(a)] IN
         IF kept # <<>> /\ Last(kept) = Last(a) THEN kept ELSE Append(kept, Last(a))
CompactRec == INSTANCE Recursion WITH Dom <- Seq(Nat), Rank <- Length, Def <- CompactDef

\* An array is shorter without its last word.
LEMMA FrontShorter ==
    ASSUME NEW a \in Seq(Nat), a # <<>>
    PROVE  /\ Front(a) \in Seq(Nat) /\ Len(Front(a)) = Len(a) - 1
           /\ Last(a) \in Nat /\ Last(a) = a[Len(a)] /\ Len(a) >= 1
           /\ \A i \in 1 .. (Len(a) - 1) : Front(a)[i] = a[i]
           /\ a = Append(Front(a), Last(a))
<1>1. Len(a) \in Nat /\ Len(a) >= 1
  BY EmptySeq
<1>2. /\ Front(a) \in Seq(Nat) /\ Len(Front(a)) = Len(a) - 1
      /\ \A i \in 1 .. (Len(a) - 1) : Front(a)[i] = a[i]
  <2> DEFINE n == Len(a) - 1
  <2>1. n \in Nat /\ 1 \in Int /\ \A i \in 1 .. n : a[i] \in Nat
    BY <1>1
  <2>2. /\ SubSeq(a, 1, n) \in Seq(Nat)
        /\ Len(SubSeq(a, 1, n)) = IF 1 <= n THEN n - 1 + 1 ELSE 0
        /\ \A i \in 1 .. (n - 1 + 1) : SubSeq(a, 1, n)[i] = a[1 + i - 1]
    <3> HIDE DEF n
    <3> QED
      BY <2>1, SubSeqProperties
  <2> HIDE DEF n
  <2>3. Len(SubSeq(a, 1, n)) = n /\ \A i \in 1 .. n : SubSeq(a, 1, n)[i] = a[i]
    BY <2>1, <2>2
  <2> QED
    BY <2>2, <2>3 DEF n, Front
<1>3. Last(a) = a[Len(a)] /\ Last(a) \in Nat
  BY <1>1 DEF Last
<1>4. a = Append(Front(a), Last(a))
  BY <1>1, <1>2, <1>3, SeqEqual, AppendProperties
<1> QED
  BY <1>1, <1>2, <1>3, <1>4

\* avl_build_from_array.
LEMMA BuildUnfold ==
    \A a \in Seq(Nat) : BuildFromArray[a] =
        IF a = <<>> THEN NoTree ELSE InsertNode[BuildFromArray[Front(a)]][Last(a)]
<1>1. BuildRec!Calls
  <2> SUFFICES ASSUME NEW g, NEW h, NEW x \in Seq(Nat),
                      \A y \in Seq(Nat) : Length(y) < Length(x) => g[y] = h[y]
               PROVE  BuildDef(g, x) = BuildDef(h, x)
    BY DEF BuildRec!Calls
  <2>1. ASSUME x # <<>> PROVE g[Front(x)] = h[Front(x)]
    BY <2>1, FrontShorter DEF Length
  <2> QED
    BY <2>1 DEF BuildDef
<1>2. BuildFromArray = CHOOSE g : g = [a \in Seq(Nat) |-> BuildDef(g, a)]
  BY DEF BuildFromArray, BuildDef
<1>3. \A a \in Seq(Nat) : Length(a) \in Nat
  BY DEF Length
<1>4. BuildFromArray = [a \in Seq(Nat) |-> BuildDef(BuildFromArray, a)]
  BY <1>1, <1>2, <1>3, BuildRec!DefinedByRecursion, Zenon
<1>5. ASSUME NEW a \in Seq(Nat) PROVE BuildFromArray[a] = BuildDef(BuildFromArray, a)
  BY <1>4
<1> QED
  BY <1>5 DEF BuildDef

\* forkscan_util_compact.
LEMMA CompactUnfold ==
    \A a \in Seq(Nat) : Compacted[a] = CompactDef(Compacted, a)
<1>1. CompactRec!Calls
  <2> SUFFICES ASSUME NEW g, NEW h, NEW x \in Seq(Nat),
                      \A y \in Seq(Nat) : Length(y) < Length(x) => g[y] = h[y]
               PROVE  CompactDef(g, x) = CompactDef(h, x)
    BY DEF CompactRec!Calls
  <2>1. ASSUME x # <<>> PROVE g[Front(x)] = h[Front(x)]
    BY <2>1, FrontShorter DEF Length
  <2> QED
    BY <2>1 DEF CompactDef
<1>2. Compacted = CHOOSE g : g = [a \in Seq(Nat) |-> CompactDef(g, a)]
  BY DEF Compacted, CompactDef
<1>3. \A a \in Seq(Nat) : Length(a) \in Nat
  BY DEF Length
<1>4. Compacted = [a \in Seq(Nat) |-> CompactDef(Compacted, a)]
  BY <1>1, <1>2, <1>3, CompactRec!DefinedByRecursion, Zenon
<1> QED
  BY <1>4

-----------------------------------------------------------------------------
(***************************************************************************)
(* The keys of a tree in order.                                            *)
(***************************************************************************)
\* Depths are numbers.
LEMMA DepthType == \A node \in Tree : Depth[node] \in Nat
<1> DEFINE S == {node \in Tree : Depth[node] \in Nat}
           rank == [node \in Tree |-> TreeRank(node)]
<1>1. rank \in [Tree -> Nat]
  BY TreeRanked
<1>2. ASSUME NEW x \in Tree, \A y \in Tree : rank[y] < rank[x] => y \in S PROVE x \in S
  <2>1. CASE x = NoTree
    BY <2>1, DepthUnfold
  <2>2. CASE x # NoTree
    <3>1. x.left \in S /\ x.right \in S
      BY <1>2, <2>2, SubtreeInTree
    <3>2. Depth[x] = Higher(Depth[x.left], Depth[x.right]) + 1
      BY <2>2, DepthUnfold
    <3> QED
      BY <3>1, <3>2 DEF Higher
  <2> QED
    BY <2>1, <2>2
<1>3. Tree \subseteq S
  <2> HIDE DEF S, rank
  <2> QED
    BY <1>1, <1>2, TreesRec!RankInduction
<1> QED
  BY <1>3

\* A sequence around a key is ascending if its parts are and the key is between them.
LEMMA AroundKey ==
    ASSUME NEW s \in Seq(Nat), NEW t \in Seq(Nat), NEW k \in Nat
    PROVE  /\ s \o <<k>> \o t \in Seq(Nat)
           /\ ToSet(s \o <<k>> \o t) = ToSet(s) \cup {k} \cup ToSet(t)
           /\ Ascending(s \o <<k>> \o t) <=>
                 /\ Ascending(s) /\ Ascending(t)
                 /\ \A x \in ToSet(s) : x < k
                 /\ \A x \in ToSet(t) : k < x
<1> DEFINE u == s \o <<k>> \o t
           m == Len(s)
<1>1. /\ u \in Seq(Nat) /\ Len(u) = m + 1 + Len(t) /\ m \in Nat /\ Len(t) \in Nat
      /\ \A i \in 1 .. m : u[i] = s[i] /\ s[i] \in Nat
      /\ u[m + 1] = k
      /\ \A i \in 1 .. Len(t) : u[m + 1 + i] = t[i] /\ t[i] \in Nat
  OBVIOUS
<1>2. DOMAIN u = 1 .. Len(u) /\ DOMAIN s = 1 .. m /\ DOMAIN t = 1 .. Len(t)
  BY <1>1
<1> HIDE DEF u, m
<1>3. /\ \A v : v \in ToSet(s) <=> \E i \in 1 .. m : s[i] = v
      /\ \A v : v \in ToSet(t) <=> \E i \in 1 .. Len(t) : t[i] = v
      /\ \A v : v \in ToSet(u) <=> \E i \in 1 .. Len(u) : u[i] = v
  BY <1>2 DEF ToSet
<1>4. \A l \in 1 .. Len(u) : l > m + 1 => l - (m + 1) \in 1 .. Len(t) /\ u[l] = t[l - (m + 1)]
  <2> SUFFICES ASSUME NEW l \in 1 .. Len(u), l > m + 1
               PROVE  l - (m + 1) \in 1 .. Len(t) /\ u[l] = t[l - (m + 1)]
    OBVIOUS
  <2>1. l - (m + 1) \in 1 .. Len(t) /\ m + 1 + (l - (m + 1)) = l
    BY <1>1
  <2> QED
    BY <1>1, <2>1
<1>5. ToSet(u) = ToSet(s) \cup {k} \cup ToSet(t)
  <2>1. ASSUME NEW i \in 1 .. Len(u) PROVE u[i] \in ToSet(s) \cup {k} \cup ToSet(t)
    <3>1. CASE i <= m
      <4>1. i \in 1 .. m /\ u[i] = s[i]
        BY <1>1, <3>1
      <4> QED
        BY <1>3, <4>1
    <3>2. CASE i = m + 1
      BY <1>1, <3>2
    <3>3. CASE i > m + 1
      BY <1>3, <1>4, <3>3
    <3>4. i <= m \/ i = m + 1 \/ i > m + 1
      BY <1>1
    <3> QED
      BY <3>1, <3>2, <3>3, <3>4
  <2>2. ASSUME NEW i \in 1 .. m PROVE s[i] \in ToSet(u)
    <3>1. i \in 1 .. Len(u) /\ u[i] = s[i]
      BY <1>1
    <3> QED
      BY <1>3, <3>1
  <2>3. k \in ToSet(u)
    <3>1. m + 1 \in 1 .. Len(u) /\ u[m + 1] = k
      BY <1>1
    <3> QED
      BY <1>3, <3>1
  <2>4. ASSUME NEW i \in 1 .. Len(t) PROVE t[i] \in ToSet(u)
    <3>1. m + 1 + i \in 1 .. Len(u) /\ u[m + 1 + i] = t[i]
      BY <1>1
    <3> QED
      BY <1>3, <3>1
  <2> QED
    BY <1>3, <2>1, <2>2, <2>3, <2>4
<1>6. ASSUME Ascending(u)
      PROVE  /\ Ascending(s) /\ Ascending(t)
             /\ \A x \in ToSet(s) : x < k
             /\ \A x \in ToSet(t) : k < x
  <2>1. \A i, j \in 1 .. Len(u) : i < j => u[i] < u[j]
    BY <1>6 DEF Ascending
  <2>2. ASSUME NEW i \in 1 .. m PROVE s[i] < k
    <3>1. i \in 1 .. Len(u) /\ m + 1 \in 1 .. Len(u) /\ i < m + 1
      BY <1>1
    <3> QED
      BY <1>1, <2>1, <3>1
  <2>3. ASSUME NEW i \in 1 .. Len(t) PROVE k < t[i]
    <3>1. m + 1 + i \in 1 .. Len(u) /\ m + 1 \in 1 .. Len(u) /\ m + 1 < m + 1 + i
      BY <1>1
    <3> QED
      BY <1>1, <2>1, <3>1
  <2>4. ASSUME NEW i \in 1 .. Len(t), NEW j \in 1 .. Len(t), i < j PROVE t[i] < t[j]
    <3>1. m + 1 + i \in 1 .. Len(u) /\ m + 1 + j \in 1 .. Len(u) /\ m + 1 + i < m + 1 + j
      BY <1>1, <2>4
    <3> QED
      BY <1>1, <2>1, <3>1
  <2>5. ASSUME NEW i \in 1 .. m, NEW j \in 1 .. m, i < j PROVE s[i] < s[j]
    <3>1. i \in 1 .. Len(u) /\ j \in 1 .. Len(u)
      BY <1>1
    <3> QED
      BY <1>1, <2>1, <2>5, <3>1
  <2>6. Ascending(s) /\ Ascending(t)
    BY <2>4, <2>5 DEF Ascending, m
  <2> QED
    BY <1>3, <2>2, <2>3, <2>6
<1>7. ASSUME Ascending(s), Ascending(t), \A x \in ToSet(s) : x < k, \A x \in ToSet(t) : k < x
      PROVE  Ascending(u)
  <2>1. \A i, j \in 1 .. m : i < j => s[i] < s[j]
    BY <1>7 DEF Ascending, m
  <2>2. \A i, j \in 1 .. Len(t) : i < j => t[i] < t[j]
    BY <1>7 DEF Ascending
  <2>3. (\A i \in 1 .. m : s[i] < k) /\ (\A i \in 1 .. Len(t) : k < t[i])
    BY <1>3, <1>7
  <2> SUFFICES ASSUME NEW i \in 1 .. Len(u), NEW j \in 1 .. Len(u), i < j
               PROVE  u[i] < u[j]
    BY DEF Ascending
  <2>5. CASE j <= m
    BY <1>1, <2>1, <2>5
  <2>6. CASE j = m + 1
    <3>1. i \in 1 .. m
      BY <1>1, <2>6
    <3> QED
      BY <1>1, <2>3, <2>6, <3>1
  <2>7. CASE j > m + 1 /\ i > m + 1
    <3> DEFINE p == i - (m + 1)
               q == j - (m + 1)
    <3>1. p \in 1 .. Len(t) /\ q \in 1 .. Len(t) /\ p < q /\ u[i] = t[p] /\ u[j] = t[q]
      BY <1>1, <1>4, <2>7
    <3> HIDE DEF p, q
    <3> QED
      BY <2>2, <3>1
  <2>8. CASE j > m + 1 /\ i <= m + 1
    <3> DEFINE q == j - (m + 1)
    <3>1. q \in 1 .. Len(t) /\ u[j] = t[q]
      BY <1>4, <2>8
    <3> HIDE DEF q
    <3>2. k < t[q] /\ t[q] \in Nat
      BY <1>1, <2>3, <3>1
    <3>3. CASE i = m + 1
      BY <1>1, <3>1, <3>2, <3>3
    <3>4. CASE i # m + 1
      <4>1. i \in 1 .. m
        BY <1>1, <2>8, <3>4
      <4>2. u[i] = s[i] /\ s[i] < k /\ s[i] \in Nat
        BY <1>1, <2>3, <4>1
      <4> QED
        BY <3>1, <3>2, <4>2
    <3> QED
      BY <3>3, <3>4
  <2> QED
    BY <1>1, <2>5, <2>6, <2>7, <2>8
<1>8. Ascending(u) <=> /\ Ascending(s) /\ Ascending(t)
                       /\ \A x \in ToSet(s) : x < k
                       /\ \A x \in ToSet(t) : k < x
  BY <1>6, <1>7
<1> QED
  BY <1>1, <1>5, <1>8 DEF u

\* The keys in order are a sequence of words.
LEMMA InorderType == \A node \in Tree : Inorder[node] \in Seq(Nat)
<1> DEFINE S == {node \in Tree : Inorder[node] \in Seq(Nat)}
           rank == [node \in Tree |-> TreeRank(node)]
<1>1. rank \in [Tree -> Nat]
  BY TreeRanked
<1>2. ASSUME NEW x \in Tree, \A y \in Tree : rank[y] < rank[x] => y \in S PROVE x \in S
  <2>1. CASE x = NoTree
    <3>1. Inorder[x] = <<>>
      BY <2>1, InorderUnfold
    <3>2. <<>> \in Seq(Nat)
      OBVIOUS
    <3> QED
      BY <3>1, <3>2
  <2>2. CASE x # NoTree
    <3>1. x.left \in S /\ x.right \in S /\ x.key \in Nat
      BY <1>2, <2>2, SubtreeInTree
    <3>2. Inorder[x] = Inorder[x.left] \o <<x.key>> \o Inorder[x.right]
      BY <2>2, InorderUnfold
    <3>3. Inorder[x.left] \in Seq(Nat) /\ Inorder[x.right] \in Seq(Nat)
      BY <3>1
    <3>4. Inorder[x.left] \o <<x.key>> \o Inorder[x.right] \in Seq(Nat)
      <4> HIDE DEF S, rank
      <4> QED
        BY <3>1, <3>3, AroundKey
    <3> QED
      BY <3>2, <3>4
  <2> QED
    BY <2>1, <2>2
<1>3. Tree \subseteq S
  <2> HIDE DEF S, rank
  <2> QED
    BY <1>1, <1>2, TreesRec!RankInduction
<1> QED
  BY <1>3

-----------------------------------------------------------------------------
(***************************************************************************)
(* Nodes and rotations.                                                    *)
(***************************************************************************)

\* The node with these subtrees, its height computed.
Node(k, l, r) ==
    [key |-> k, height |-> Higher(Height(l), Height(r)) + 1, left |-> l, right |-> r]

\* A record of a node with a height that may be out of date.
IsNode(node) == \E k, h, l, r : node = [key |-> k, height |-> h, left |-> l, right |-> r]

\* Its fields.
LEMMA NodeFields ==
    ASSUME NEW k, NEW l, NEW r
    PROVE  /\ Node(k, l, r).key = k /\ Node(k, l, r).left = l /\ Node(k, l, r).right = r
           /\ IsNode(Node(k, l, r))
BY DEF Node, IsNode

\* Whatever is written to a field, recomputing the height gives the node with
\* those fields.
LEMMA NodeUpdates ==
    ASSUME NEW node, IsNode(node), NEW t
    PROVE  /\ WithHeight([node EXCEPT !.left = t]) = Node(node.key, t, node.right)
           /\ WithHeight([node EXCEPT !.right = t]) = Node(node.key, node.left, t)
           /\ IsNode([node EXCEPT !.left = t]) /\ IsNode([node EXCEPT !.right = t])
           /\ [node EXCEPT !.left = t].key = node.key
           /\ [node EXCEPT !.left = t].right = node.right
           /\ [node EXCEPT !.left = t].left = t
           /\ [node EXCEPT !.right = t].key = node.key
           /\ [node EXCEPT !.right = t].left = node.left
           /\ [node EXCEPT !.right = t].right = t
<1>1. PICK k, h, l, r : node = [key |-> k, height |-> h, left |-> l, right |-> r]
  BY DEF IsNode
<1>2. /\ [node EXCEPT !.left = t] = [key |-> k, height |-> h, left |-> t, right |-> r]
      /\ [node EXCEPT !.right = t] = [key |-> k, height |-> h, left |-> l, right |-> t]
  BY <1>1
<1>3. /\ WithHeight([key |-> k, height |-> h, left |-> t, right |-> r]) = Node(k, t, r)
      /\ WithHeight([key |-> k, height |-> h, left |-> l, right |-> t]) = Node(k, l, t)
  BY DEF WithHeight, Node
<1>4. IsNode([node EXCEPT !.left = t]) /\ IsNode([node EXCEPT !.right = t])
  <2>1. /\ IsNode([key |-> k, height |-> h, left |-> t, right |-> r])
        /\ IsNode([key |-> k, height |-> h, left |-> l, right |-> t])
    BY Zenon DEF IsNode
  <2> QED
    BY <1>2, <2>1, Zenon
<1>5. node.key = k /\ node.left = l /\ node.right = r
  BY <1>1
<1>6. /\ WithHeight([node EXCEPT !.left = t]) = Node(node.key, t, node.right)
      /\ WithHeight([node EXCEPT !.right = t]) = Node(node.key, node.left, t)
  BY <1>2, <1>3, <1>5
<1>7. /\ [node EXCEPT !.left = t].key = node.key
      /\ [node EXCEPT !.left = t].right = node.right
      /\ [node EXCEPT !.left = t].left = t
      /\ [node EXCEPT !.right = t].key = node.key
      /\ [node EXCEPT !.right = t].left = node.left
      /\ [node EXCEPT !.right = t].right = t
  BY <1>2, <1>5
<1> QED
  BY <1>4, <1>6, <1>7

\* right_rotate, with both heights it recomputes.
LEMMA RightRotateNode ==
    ASSUME NEW y, IsNode(y), IsNode(y.left)
    PROVE  RightRotate(y) =
               Node(y.left.key, y.left.left, Node(y.key, y.left.right, y.right))
<1>1. WithHeight([y EXCEPT !.left = y.left.right]) = Node(y.key, y.left.right, y.right)
  BY NodeUpdates
<1> DEFINE x == y.left
           z == Node(y.key, y.left.right, y.right)
<1>2. WithHeight([x EXCEPT !.right = z]) = Node(x.key, x.left, z)
  <2> HIDE DEF z
  <2> QED
    BY NodeUpdates
<1>3. RightRotate(y) = WithHeight([x EXCEPT !.right = z])
  BY <1>1, Zenon DEF RightRotate
<1> QED
  BY <1>2, <1>3

\* left_rotate, likewise.
LEMMA LeftRotateNode ==
    ASSUME NEW x, IsNode(x), IsNode(x.right)
    PROVE  LeftRotate(x) =
               Node(x.right.key, Node(x.key, x.left, x.right.left), x.right.right)
<1>1. WithHeight([x EXCEPT !.right = x.right.left]) = Node(x.key, x.left, x.right.left)
  <2> DEFINE t == x.right.left
  <2> HIDE DEF t
  <2>1. WithHeight([x EXCEPT !.right = t]) = Node(x.key, x.left, t)
    BY NodeUpdates
  <2> QED
    BY <2>1 DEF t
<1> DEFINE y == x.right
           z == Node(x.key, x.left, x.right.left)
<1>2. WithHeight([y EXCEPT !.left = z]) = Node(y.key, z, y.right)
  <2> HIDE DEF z
  <2> QED
    BY NodeUpdates
<1>3. LeftRotate(x) = WithHeight([y EXCEPT !.left = z])
  BY <1>1, Zenon DEF LeftRotate
<1> QED
  BY <1>2, <1>3

\* The rotations that insert_node makes, by the balance and the side of the key.
LEMMA RebalanceNode ==
    ASSUME NEW k \in Nat, NEW l, NEW r, NEW key \in Nat, Height(l) \in Nat, Height(r) \in Nat
    PROVE  LET node == Node(k, l, r) IN
           /\ Height(l) - Height(r) \in {-1, 0, 1} => Rebalance(node, key) = node
           /\ (Height(l) - Height(r) = 2 /\ IsNode(l) /\ l.key \in Nat /\ key < l.key) =>
                 Rebalance(node, key) = Node(l.key, l.left, Node(k, l.right, r))
           /\ (Height(l) - Height(r) = 2 /\ IsNode(l) /\ l.key \in Nat /\ key > l.key
                /\ IsNode(l.right)) =>
                 Rebalance(node, key) =
                    Node(l.right.key, Node(l.key, l.left, l.right.left),
                                      Node(k, l.right.right, r))
           /\ (Height(l) - Height(r) = -2 /\ IsNode(r) /\ r.key \in Nat /\ key > r.key) =>
                 Rebalance(node, key) = Node(r.key, Node(k, l, r.left), r.right)
           /\ (Height(l) - Height(r) = -2 /\ IsNode(r) /\ r.key \in Nat /\ key < r.key
                /\ IsNode(r.left)) =>
                 Rebalance(node, key) =
                    Node(r.left.key, Node(k, l, r.left.left),
                                     Node(r.key, r.left.right, r.right))
<1> DEFINE node == Node(k, l, r)
<1>1. node.key = k /\ node.left = l /\ node.right = r /\ IsNode(node)
  BY NodeFields
<1>2. GetBalance(node) = Height(l) - Height(r)
  BY <1>1 DEF GetBalance
<1> HIDE DEF node
<1> DEFINE b == GetBalance(node)
<1>b. b \in Int
  BY <1>2
<1>3. ASSUME b \in {-1, 0, 1}
      PROVE  Rebalance(node, key) = node
  BY <1>3 DEF Rebalance
<1>4. ASSUME b = 2, IsNode(l), l.key \in Nat, key < l.key
      PROVE  Rebalance(node, key) = Node(l.key, l.left, Node(k, l.right, r))
  <2>1. Rebalance(node, key) = RightRotate(node)
    BY <1>1, <1>4 DEF Rebalance
  <2> QED
    BY <1>1, <1>4, <2>1, RightRotateNode
<1>5. ASSUME b = 2, IsNode(l), l.key \in Nat, key > l.key, IsNode(l.right)
      PROVE  Rebalance(node, key) =
                 Node(l.right.key, Node(l.key, l.left, l.right.left),
                                   Node(k, l.right.right, r))
  <2>1. Rebalance(node, key) = RightRotate([node EXCEPT !.left = LeftRotate(node.left)])
    BY <1>1, <1>5 DEF Rebalance
  <2> DEFINE m == Node(l.right.key, Node(l.key, l.left, l.right.left), l.right.right)
             n == [node EXCEPT !.left = m]
  <2>2. LeftRotate(node.left) = m
    BY <1>1, <1>5, LeftRotateNode
  <2>3. /\ IsNode(m) /\ m.key = l.right.key /\ m.left = Node(l.key, l.left, l.right.left)
        /\ m.right = l.right.right
    BY NodeFields
  <2> HIDE DEF m
  <2>4. IsNode(n) /\ n.left = m /\ n.key = k /\ n.right = r
    BY <1>1, NodeUpdates
  <2>5. Rebalance(node, key) = RightRotate(n)
    BY <2>1, <2>2
  <2> HIDE DEF n
  <2> QED
    BY <2>3, <2>4, <2>5, RightRotateNode
<1>6. ASSUME b = -2, IsNode(r), r.key \in Nat, key > r.key
      PROVE  Rebalance(node, key) = Node(r.key, Node(k, l, r.left), r.right)
  <2>1. Rebalance(node, key) = LeftRotate(node)
    BY <1>1, <1>6 DEF Rebalance
  <2> QED
    BY <1>1, <1>6, <2>1, LeftRotateNode
<1>7. ASSUME b = -2, IsNode(r), r.key \in Nat, key < r.key, IsNode(r.left)
      PROVE  Rebalance(node, key) =
                 Node(r.left.key, Node(k, l, r.left.left),
                                  Node(r.key, r.left.right, r.right))
  <2>1. Rebalance(node, key) = LeftRotate([node EXCEPT !.right = RightRotate(node.right)])
    BY <1>1, <1>7 DEF Rebalance
  <2> DEFINE m == Node(r.left.key, r.left.left, Node(r.key, r.left.right, r.right))
             n == [node EXCEPT !.right = m]
  <2>2. RightRotate(node.right) = m
    BY <1>1, <1>7, RightRotateNode
  <2>3. /\ IsNode(m) /\ m.key = r.left.key /\ m.left = r.left.left
        /\ m.right = Node(r.key, r.left.right, r.right)
    BY NodeFields
  <2> HIDE DEF m
  <2>4. IsNode(n) /\ n.right = m /\ n.key = k /\ n.left = l
    BY <1>1, NodeUpdates
  <2>5. Rebalance(node, key) = LeftRotate(n)
    BY <2>1, <2>2
  <2> HIDE DEF n
  <2> QED
    BY <2>3, <2>4, <2>5, LeftRotateNode
<1> HIDE DEF b
<1>8. b = Height(l) - Height(r)
  BY <1>2 DEF b
<1> QED
  BY <1>3, <1>4, <1>5, <1>6, <1>7, <1>8 DEF node

-----------------------------------------------------------------------------
(***************************************************************************)
(* Sound trees.                                                            *)
(***************************************************************************)
Keys(t) == ToSet(Inorder[t])

\* A tree is on the level of its depth.
LEMMA DepthLevel == \A node \in Tree : node \in Trees[Depth[node]]
<1> DEFINE S == {node \in Tree : node \in Trees[Depth[node]]}
           rank == [node \in Tree |-> TreeRank(node)]
<1>1. rank \in [Tree -> Nat]
  BY TreeRanked
<1>2. ASSUME NEW x \in Tree, \A y \in Tree : rank[y] < rank[x] => y \in S PROVE x \in S
  <2>1. CASE x = NoTree
    BY <2>1, DepthUnfold, NoTreeInTrees
  <2>2. CASE x # NoTree
    <3> DEFINE l == x.left
               r == x.right
               d == Higher(Depth[l], Depth[r])
    <3>1. l \in S /\ r \in S /\ l \in Tree /\ r \in Tree
      BY <1>2, <2>2, SubtreeInTree
    <3>2. Depth[x] = d + 1
      BY <2>2, DepthUnfold
    <3>3. Depth[l] \in Nat /\ Depth[r] \in Nat
      BY <3>1, DepthType
    <3>4. d \in Nat /\ Depth[l] <= d /\ Depth[r] <= d
      BY <3>3 DEF Higher
    <3>5. l \in Trees[d] /\ r \in Trees[d]
      <4> HIDE DEF d
      <4>1. Trees[Depth[l]] \subseteq Trees[d] /\ Trees[Depth[r]] \subseteq Trees[d]
        BY <3>3, <3>4, TreesMonotone
      <4> QED
        BY <3>1, <4>1
    <3>6. [key |-> x.key, height |-> x.height, left |-> l, right |-> r] \in Trees[d + 1]
      <4> HIDE DEF d
      <4>1. x.key \in Nat /\ x.height \in Nat \ {0}
        BY <2>2, SubtreeInTree
      <4> HIDE DEF l, r
      <4> QED
        BY <3>4, <3>5, <4>1, NodeInTrees
    <3>7. x = [key |-> x.key, height |-> x.height, left |-> l, right |-> r]
      BY <2>2, SubtreeInTree
    <3> HIDE DEF d
    <3> QED
      BY <3>2, <3>6, <3>7
  <2> QED
    BY <2>1, <2>2
<1>3. Tree \subseteq S
  <2> HIDE DEF S, rank
  <2> QED
    BY <1>1, <1>2, TreesRec!RankInduction
<1> QED
  BY <1>3

\* A search tree that is balanced and whose heights are right.
Sound(t) ==
    /\ t \in Tree /\ Height(t) = Depth[t]
    /\ \A n \in Subtrees[t] : n.height = Depth[n] /\ GetBalance(n) \in {-1, 0, 1}
    /\ Ascending(Inorder[t])

\* The empty tree is sound.
LEMMA NoTreeSound == Sound(NoTree) /\ Keys(NoTree) = {} /\ Height(NoTree) = 0
<1>1. Height(NoTree) = 0
  BY DEF Height
<1>2. Inorder[NoTree] = <<>> /\ Subtrees[NoTree] = {} /\ Depth[NoTree] = 0
  BY NoTreeInTree, InorderUnfold, SubtreesUnfold, DepthUnfold
<1>4. Ascending(<<>>) /\ ToSet(<<>>) = {}
  BY DEF Ascending, ToSet
<1> QED
  BY <1>1, <1>2, <1>4, NoTreeInTree DEF Sound, Keys

\* NoTree is told from a node by its domain.
LEMMA NodeIsTree ==
    ASSUME NEW node, IsNode(node)
    PROVE  node # NoTree /\ Height(node) = node.height
<1>1. PICK k, h, l, r : node = [key |-> k, height |-> h, left |-> l, right |-> r]
  BY DEF IsNode
<1>2. DOMAIN node = {"key", "height", "left", "right"} /\ DOMAIN NoTree = {"height"}
  BY <1>1 DEF NoTree
<1>3. node # NoTree
  BY <1>2
<1> QED
  BY <1>3 DEF Height

\* The parts of a sound tree.
LEMMA SoundParts ==
    ASSUME NEW t, Sound(t), t # NoTree
    PROVE  /\ t.key \in Nat /\ Sound(t.left) /\ Sound(t.right) /\ IsNode(t)
           /\ t = Node(t.key, t.left, t.right)
           /\ Height(t.left) - Height(t.right) \in {-1, 0, 1}
           /\ Height(t) = Higher(Height(t.left), Height(t.right)) + 1
           /\ \A x \in Keys(t.left) : x < t.key
           /\ \A x \in Keys(t.right) : t.key < x
           /\ Keys(t) = Keys(t.left) \cup {t.key} \cup Keys(t.right)
<1> DEFINE k == t.key
           l == t.left
           r == t.right
<1>1. /\ k \in Nat /\ t.height \in Nat \ {0} /\ l \in Tree /\ r \in Tree
      /\ t = [key |-> k, height |-> t.height, left |-> l, right |-> r]
  BY SubtreeInTree DEF Sound
<1>2. /\ Inorder[t] = Inorder[l] \o <<k>> \o Inorder[r]
      /\ Subtrees[t] = {t} \cup Subtrees[l] \cup Subtrees[r]
      /\ Depth[t] = Higher(Depth[l], Depth[r]) + 1
  BY InorderUnfold, SubtreesUnfold, DepthUnfold DEF Sound
<1>3. Inorder[l] \in Seq(Nat) /\ Inorder[r] \in Seq(Nat)
  BY <1>1, InorderType
<1>4. /\ Ascending(Inorder[l]) /\ Ascending(Inorder[r])
      /\ \A x \in Keys(l) : x < k
      /\ \A x \in Keys(r) : k < x
      /\ Keys(t) = Keys(l) \cup {k} \cup Keys(r)
  <2> HIDE DEF k, l, r
  <2>1. Ascending(Inorder[l] \o <<k>> \o Inorder[r])
    BY <1>2 DEF Sound
  <2> QED
    BY <1>1, <1>2, <1>3, <2>1, AroundKey DEF Keys
<1>5. /\ t.height = Depth[t] /\ GetBalance(t) \in {-1, 0, 1}
      /\ \A n \in Subtrees[l] \cup Subtrees[r] :
            n.height = Depth[n] /\ GetBalance(n) \in {-1, 0, 1}
  BY <1>2 DEF Sound
<1>6. ASSUME NEW s \in {l, r} PROVE Height(s) = Depth[s] /\ Height(s) \in Nat
  <2>1. s \in Tree
    BY <1>1, <1>6
  <2>2. CASE s = NoTree
    BY <2>1, <2>2, DepthUnfold, DepthType DEF Height
  <2>3. CASE s # NoTree
    <3>1. s \in Subtrees[s]
      BY <2>1, <2>3, SubtreesUnfold
    <3> QED
      BY <1>5, <1>6, <2>1, <2>3, <3>1, DepthType DEF Height
  <2> QED
    BY <2>2, <2>3
<1>7. Height(t) = Higher(Height(l), Height(r)) + 1 /\ Height(t) = t.height
  BY <1>1, <1>2, <1>5, <1>6 DEF Height
<1>8. Height(l) - Height(r) \in {-1, 0, 1}
  BY <1>5 DEF GetBalance
<1>9. t = Node(k, l, r)
  BY <1>1, <1>7 DEF Node
<1>10. ASSUME NEW s \in {l, r} PROVE Sound(s)
  BY <1>1, <1>4, <1>5, <1>6, <1>10 DEF Sound
<1>11. IsNode(t)
  BY <1>1 DEF IsNode
<1> QED
  BY <1>1, <1>4, <1>7, <1>8, <1>9, <1>10, <1>11

\* Two sound trees under a key that separates them, not deeper than MaxDepth.
LEMMA NodeSound ==
    ASSUME NEW k \in Nat, NEW l, NEW r, Sound(l), Sound(r),
           Height(l) - Height(r) \in {-1, 0, 1},
           Height(l) + 1 <= MaxDepth, Height(r) + 1 <= MaxDepth,
           \A x \in Keys(l) : x < k, \A x \in Keys(r) : k < x
    PROVE  /\ Sound(Node(k, l, r))
           /\ Node(k, l, r) # NoTree
           /\ Height(Node(k, l, r)) = Higher(Height(l), Height(r)) + 1
           /\ Keys(Node(k, l, r)) = Keys(l) \cup {k} \cup Keys(r)
<1> DEFINE t == Node(k, l, r)
           d == Higher(Height(l), Height(r))
<1>1. /\ t.key = k /\ t.left = l /\ t.right = r /\ IsNode(t) /\ t.height = d + 1
      /\ t = [key |-> k, height |-> d + 1, left |-> l, right |-> r]
  BY NodeFields DEF Node
<1>2. t # NoTree /\ Height(t) = d + 1
  BY <1>1, NodeIsTree
<1>3. /\ l \in Tree /\ r \in Tree /\ Height(l) = Depth[l] /\ Height(r) = Depth[r]
      /\ Height(l) \in Nat /\ Height(r) \in Nat
  BY DepthType DEF Sound
<1>4. d \in Nat /\ Height(l) <= d /\ Height(r) <= d /\ d + 1 <= MaxDepth
  BY <1>3, DepthAssumption DEF Higher
<1> HIDE DEF t, d
<1>5. t \in Tree
  <2>1. l \in Trees[Height(l)] /\ r \in Trees[Height(r)]
    BY <1>3, DepthLevel
  <2>2. Trees[Height(l)] \subseteq Trees[d] /\ Trees[Height(r)] \subseteq Trees[d]
    BY <1>3, <1>4, TreesMonotone
  <2>3. l \in Trees[d] /\ r \in Trees[d]
    BY <2>1, <2>2
  <2>4. t \in Trees[d + 1]
    BY <1>1, <1>4, <2>3, NodeInTrees
  <2>5. Trees[d + 1] \subseteq Trees[MaxDepth]
    BY <1>4, DepthAssumption, TreesMonotone
  <2> QED
    BY <2>4, <2>5 DEF Tree
<1>6. /\ Inorder[t] = Inorder[l] \o <<k>> \o Inorder[r]
      /\ Subtrees[t] = {t} \cup Subtrees[l] \cup Subtrees[r]
      /\ Depth[t] = Higher(Depth[l], Depth[r]) + 1
  BY <1>1, <1>2, <1>5, InorderUnfold, SubtreesUnfold, DepthUnfold
<1>7. Inorder[l] \in Seq(Nat) /\ Inorder[r] \in Seq(Nat)
  BY <1>3, InorderType
<1>8. Ascending(Inorder[l]) /\ Ascending(Inorder[r])
  BY DEF Sound
<1>9. Ascending(Inorder[t]) /\ Keys(t) = Keys(l) \cup {k} \cup Keys(r)
  BY <1>6, <1>7, <1>8, AroundKey DEF Keys
<1>10. Depth[t] = d + 1
  BY <1>3, <1>6 DEF d
<1>11. GetBalance(t) \in {-1, 0, 1} /\ t.height = Depth[t]
  BY <1>1, <1>10 DEF GetBalance
<1>12. \A n \in Subtrees[t] : n.height = Depth[n] /\ GetBalance(n) \in {-1, 0, 1}
  BY <1>6, <1>11 DEF Sound
<1>13. Sound(t)
  BY <1>2, <1>5, <1>9, <1>10, <1>12 DEF Sound
<1> QED
  BY <1>2, <1>9, <1>13 DEF t, d

\* Heights and keys of a sound tree.
LEMMA SoundHeight ==
    ASSUME NEW t, Sound(t)
    PROVE  t \in Tree /\ Height(t) \in Nat
           /\ (Height(t) > 0 => t # NoTree) /\ Keys(t) \subseteq Nat
<1>1. t \in Tree /\ Height(t) = Depth[t] /\ Height(t) \in Nat
  BY DepthType DEF Sound
<1>3. Height(t) > 0 => t # NoTree
  BY DEF Height
<1>4. Keys(t) \subseteq Nat
  BY <1>1, InorderType DEF Keys, ToSet
<1> QED
  BY <1>1, <1>3, <1>4

-----------------------------------------------------------------------------
(***************************************************************************)
(* Insertion.                                                              *)
(***************************************************************************)

\* s is t with the key: the keys are those of t and the new one, and if s is
\* higher than t, the key is on the higher side.
Inserted(t, key, s) ==
    /\ Sound(s) /\ s # NoTree /\ Keys(s) = Keys(t) \cup {key}
    /\ Height(s) = Height(t) \/ Height(s) = Height(t) + 1
    /\ (Height(s) = Height(t) + 1 /\ t # NoTree) =>
          \/ key < s.key /\ Height(s.left) = Height(s.right) + 1
          \/ key > s.key /\ Height(s.right) = Height(s.left) + 1

\* The key goes to the left.
LEMMA InsertLeft ==
    ASSUME NEW t, Sound(t), t # NoTree, Height(t) + 1 <= MaxDepth,
           NEW key \in Nat, key < t.key, NEW s, Inserted(t.left, key, s)
    PROVE  Inserted(t, key, Rebalance(Node(t.key, s, t.right), key))
<1> DEFINE k == t.key
           l == t.left
           r == t.right
           u == Node(k, s, r)
           v == Rebalance(u, key)
<1>1. /\ k \in Nat /\ Sound(l) /\ Sound(r) /\ Height(t) = Higher(Height(l), Height(r)) + 1
      /\ Height(l) - Height(r) \in {-1, 0, 1}
      /\ (\A x \in Keys(l) : x < k) /\ (\A x \in Keys(r) : k < x)
      /\ Keys(t) = Keys(l) \cup {k} \cup Keys(r)
  BY SoundParts
<1>2. /\ Sound(s) /\ s # NoTree /\ Keys(s) = Keys(l) \cup {key}
      /\ Height(s) = Height(l) \/ Height(s) = Height(l) + 1
      /\ (Height(s) = Height(l) + 1 /\ l # NoTree) =>
            \/ key < s.key /\ Height(s.left) = Height(s.right) + 1
            \/ key > s.key /\ Height(s.right) = Height(s.left) + 1
  BY DEF Inserted
<1>3. key < k
  OBVIOUS
<1> HIDE DEF k, l, r, u, v
<1>4. /\ Height(l) \in Nat /\ Height(r) \in Nat /\ Height(s) \in Nat
      /\ (Height(l) > 0 => l # NoTree)
      /\ Keys(l) \subseteq Nat /\ Keys(r) \subseteq Nat /\ Keys(s) \subseteq Nat
  BY <1>1, <1>2, SoundHeight
<1>5. Height(t) \in Nat /\ Height(l) + 1 <= Height(t) /\ Height(r) + 1 <= Height(t)
  BY <1>1, <1>4 DEF Higher
<1>6. Height(s) + 1 <= MaxDepth /\ Height(r) + 1 <= MaxDepth
  BY <1>2, <1>4, <1>5, DepthAssumption
<1>7. \A x \in Keys(s) : x < k
  BY <1>1, <1>2, <1>3
<1>8. CASE Height(s) - Height(r) \in {-1, 0, 1}
  <2>1. v = u
    BY <1>1, <1>4, <1>8, RebalanceNode DEF u, v
  <2>2. /\ Sound(u) /\ u # NoTree /\ Keys(u) = Keys(s) \cup {k} \cup Keys(r)
        /\ Height(u) = Higher(Height(s), Height(r)) + 1
    BY <1>1, <1>2, <1>6, <1>7, <1>8, NodeSound DEF u, Higher
  <2>3. Keys(u) = Keys(t) \cup {key}
    BY <1>1, <1>2, <2>2
  <2>4. u.left = s /\ u.right = r /\ u.key = k
    BY NodeFields DEF u
  <2>5. Height(u) = Height(t) \/ Height(u) = Height(t) + 1
    BY <1>1, <1>2, <1>4, <2>2 DEF Higher
  <2>6. Height(u) = Height(t) + 1 => Height(s) = Height(r) + 1
    BY <1>1, <1>2, <1>4, <1>8, <2>2 DEF Higher
  <2>7. Height(u) = Height(t) + 1 =>
            key < u.key /\ Height(u.left) = Height(u.right) + 1
    BY <1>3, <2>4, <2>6
  <2> QED
    BY <2>1, <2>2, <2>3, <2>5, <2>7 DEF Inserted, u, v, k, l, r
<1>9. CASE Height(s) - Height(r) \notin {-1, 0, 1}
  <2>1. /\ Height(s) = Height(l) + 1 /\ Height(l) = Height(r) + 1
        /\ Height(s) - Height(r) = 2 /\ l # NoTree
    BY <1>1, <1>2, <1>4, <1>9
  <2> DEFINE h == Height(r)
  <2>2. Height(s) = h + 2 /\ Height(t) = h + 2 /\ h \in Nat
    BY <1>1, <1>4, <2>1 DEF Higher
  <2>3. /\ IsNode(s) /\ s.key \in Nat /\ Sound(s.left) /\ Sound(s.right)
        /\ Height(s) = Higher(Height(s.left), Height(s.right)) + 1
        /\ (\A x \in Keys(s.left) : x < s.key) /\ (\A x \in Keys(s.right) : s.key < x)
        /\ Keys(s) = Keys(s.left) \cup {s.key} \cup Keys(s.right)
    BY <1>2, SoundParts
  <2>4. Height(s.left) \in Nat /\ Height(s.right) \in Nat
    BY <2>3, SoundHeight
  <2>5. s.key < k
    BY <1>7, <2>3
  <2> HIDE DEF h
  <2>6. CASE key < s.key /\ Height(s.left) = Height(s.right) + 1
    <3> DEFINE w == Node(k, s.right, r)
    <3>1. Height(s.left) = h + 1 /\ Height(s.right) = h
      BY <2>2, <2>3, <2>4, <2>6 DEF Higher
    <3>2. v = Node(s.key, s.left, w)
      BY <1>1, <1>4, <2>1, <2>3, <2>6, RebalanceNode DEF u, v
    <3>3. \A x \in Keys(s.right) : x < k
      BY <1>7, <2>3
    <3>4. Sound(w) /\ Height(w) = h + 1 /\ Keys(w) = Keys(s.right) \cup {k} \cup Keys(r)
      BY <1>1, <1>6, <2>2, <2>3, <3>1, <3>3, NodeSound DEF h, Higher
    <3>5. \A x \in Keys(w) : s.key < x
      <4>1. \A x \in Keys(r) : s.key < x
        BY <1>1, <1>4, <2>3, <2>5
      <4> QED
        BY <2>3, <2>5, <3>4, <4>1
    <3> HIDE DEF w
    <3>6. /\ Sound(v) /\ v # NoTree /\ Height(v) = h + 2
          /\ Keys(v) = Keys(s.left) \cup {s.key} \cup Keys(w)
      BY <1>6, <2>2, <2>3, <3>1, <3>2, <3>4, <3>5, NodeSound, DepthAssumption DEF Higher
    <3>7. Keys(v) = Keys(t) \cup {key}
      BY <1>1, <1>2, <2>3, <3>4, <3>6
    <3>8. Height(v) = Height(t) /\ Height(v) # Height(t) + 1
      BY <2>2, <3>6
    <3> QED
      BY <3>6, <3>7, <3>8 DEF Inserted, u, v, k, l, r
  <2>7. CASE key > s.key /\ Height(s.right) = Height(s.left) + 1
    <3> DEFINE x == s.right
               p == Node(s.key, s.left, x.left)
               q == Node(k, x.right, r)
    <3>1. Height(x) = h + 1 /\ Height(s.left) = h
      BY <2>2, <2>3, <2>4, <2>7 DEF Higher
    <3>2. Sound(x) /\ x # NoTree
      BY <2>2, <2>3, <3>1, SoundHeight
    <3>3. /\ IsNode(x) /\ x.key \in Nat /\ Sound(x.left) /\ Sound(x.right)
          /\ Height(x) = Higher(Height(x.left), Height(x.right)) + 1
          /\ Height(x.left) - Height(x.right) \in {-1, 0, 1}
          /\ (\A y \in Keys(x.left) : y < x.key) /\ (\A y \in Keys(x.right) : x.key < y)
          /\ Keys(x) = Keys(x.left) \cup {x.key} \cup Keys(x.right)
      BY <3>2, SoundParts
    <3>4. v = Node(x.key, p, q)
      BY <1>1, <1>4, <2>1, <2>3, <2>7, <3>3, RebalanceNode DEF u, v
    <3>5. \A y \in Keys(x) : s.key < y /\ y < k
      BY <1>7, <2>3
    <3> HIDE DEF x
    <3>6. Height(x.left) \in Nat /\ Height(x.right) \in Nat /\ h + 2 <= MaxDepth
      BY <1>6, <2>2, <3>3, SoundHeight, DepthAssumption
    <3>7. /\ Height(x.left) = h \/ Height(x.left) = h - 1
          /\ Height(x.right) = h \/ Height(x.right) = h - 1
          /\ Height(x.left) = h \/ Height(x.right) = h
      BY <2>2, <3>1, <3>3, <3>6 DEF Higher
    <3>8. \A y \in Keys(x.left) : s.key < y
      BY <3>3, <3>5
    <3>9. Sound(p) /\ Height(p) = h + 1 /\ Keys(p) = Keys(s.left) \cup {s.key} \cup Keys(x.left)
      <4>1. Height(s.left) - Height(x.left) \in {-1, 0, 1}
        BY <2>2, <3>1, <3>7
      <4>2. Higher(Height(s.left), Height(x.left)) = h
        BY <2>2, <3>1, <3>7 DEF Higher
      <4>3. Height(s.left) + 1 <= MaxDepth /\ Height(x.left) + 1 <= MaxDepth
        BY <2>2, <3>1, <3>6, <3>7, DepthAssumption
      <4> QED
        BY <2>3, <3>3, <3>8, <4>1, <4>2, <4>3, NodeSound
    <3>10. \A y \in Keys(x.right) : y < k
      BY <3>3, <3>5
    <3>11. Sound(q) /\ Height(q) = h + 1 /\ Keys(q) = Keys(x.right) \cup {k} \cup Keys(r)
      <4>1. Height(x.right) - Height(r) \in {-1, 0, 1}
        BY <2>2, <3>7 DEF h
      <4>2. Higher(Height(x.right), Height(r)) = h
        BY <2>2, <3>7 DEF h, Higher
      <4>3. Height(r) + 1 <= MaxDepth /\ Height(x.right) + 1 <= MaxDepth
        BY <1>6, <2>2, <3>6, <3>7, DepthAssumption
      <4> QED
        BY <1>1, <3>3, <3>10, <4>1, <4>2, <4>3, NodeSound
    <3>12. s.key < x.key /\ x.key < k
      BY <3>3, <3>5
    <3>13. \A y \in Keys(p) : y < x.key
      <4>1. \A y \in Keys(s.left) : y < x.key
        <5>1. Keys(s.left) \subseteq Nat
          BY <2>3, SoundHeight
        <5> QED
          BY <2>3, <3>3, <3>12, <5>1
      <4> QED
        BY <3>3, <3>9, <3>12, <4>1
    <3>14. \A y \in Keys(q) : x.key < y
      <4>1. \A y \in Keys(r) : x.key < y
        BY <1>1, <1>4, <3>3, <3>12
      <4> QED
        BY <3>3, <3>11, <3>12, <4>1
    <3> HIDE DEF p, q
    <3>15. /\ Sound(v) /\ v # NoTree /\ Height(v) = h + 2
           /\ Keys(v) = Keys(p) \cup {x.key} \cup Keys(q)
      BY <2>2, <3>3, <3>4, <3>6, <3>9, <3>11, <3>13, <3>14, NodeSound, DepthAssumption DEF Higher
    <3>16. Keys(s) = Keys(s.left) \cup {s.key} \cup Keys(x)
      BY <2>3 DEF x
    <3>17. Keys(v) = Keys(t) \cup {key}
      BY <1>1, <1>2, <3>3, <3>9, <3>11, <3>15, <3>16
    <3>18. Height(v) = Height(t) /\ Height(v) # Height(t) + 1
      BY <2>2, <3>15
    <3> QED
      BY <3>15, <3>17, <3>18 DEF Inserted, u, v, k, l, r
  <2> QED
    BY <1>2, <2>1, <2>6, <2>7
<1> QED
  BY <1>8, <1>9

\* The key goes to the right.
LEMMA InsertRight ==
    ASSUME NEW t, Sound(t), t # NoTree, Height(t) + 1 <= MaxDepth,
           NEW key \in Nat, key > t.key, NEW s, Inserted(t.right, key, s)
    PROVE  Inserted(t, key, Rebalance(Node(t.key, t.left, s), key))
<1> DEFINE k == t.key
           l == t.right
           r == t.left
           u == Node(k, r, s)
           v == Rebalance(u, key)
<1>1. /\ k \in Nat /\ Sound(l) /\ Sound(r) /\ Height(t) = Higher(Height(r), Height(l)) + 1
      /\ Height(r) - Height(l) \in {-1, 0, 1}
      /\ (\A x \in Keys(l) : k < x) /\ (\A x \in Keys(r) : x < k)
      /\ Keys(t) = Keys(l) \cup {k} \cup Keys(r)
  BY SoundParts
<1>2. /\ Sound(s) /\ s # NoTree /\ Keys(s) = Keys(l) \cup {key}
      /\ Height(s) = Height(l) \/ Height(s) = Height(l) + 1
      /\ (Height(s) = Height(l) + 1 /\ l # NoTree) =>
            \/ key < s.key /\ Height(s.left) = Height(s.right) + 1
            \/ key > s.key /\ Height(s.right) = Height(s.left) + 1
  BY DEF Inserted
<1>3. k < key
  OBVIOUS
<1> HIDE DEF k, l, r, u, v
<1>4. /\ Height(l) \in Nat /\ Height(r) \in Nat /\ Height(s) \in Nat
      /\ (Height(l) > 0 => l # NoTree)
      /\ Keys(l) \subseteq Nat /\ Keys(r) \subseteq Nat /\ Keys(s) \subseteq Nat
  BY <1>1, <1>2, SoundHeight
<1>5. Height(t) \in Nat /\ Height(l) + 1 <= Height(t) /\ Height(r) + 1 <= Height(t)
  BY <1>1, <1>4 DEF Higher
<1>6. Height(s) + 1 <= MaxDepth /\ Height(r) + 1 <= MaxDepth
  BY <1>2, <1>4, <1>5, DepthAssumption
<1>7. \A x \in Keys(s) : k < x
  BY <1>1, <1>2, <1>3
<1>8. CASE Height(r) - Height(s) \in {-1, 0, 1}
  <2>1. v = u
    BY <1>1, <1>4, <1>8, RebalanceNode DEF u, v
  <2>2. /\ Sound(u) /\ u # NoTree /\ Keys(u) = Keys(s) \cup {k} \cup Keys(r)
        /\ Height(u) = Higher(Height(r), Height(s)) + 1
    BY <1>1, <1>2, <1>6, <1>7, <1>8, NodeSound DEF u, Higher
  <2>3. Keys(u) = Keys(t) \cup {key}
    BY <1>1, <1>2, <2>2
  <2>4. u.right = s /\ u.left = r /\ u.key = k
    BY NodeFields DEF u
  <2>5. Height(u) = Height(t) \/ Height(u) = Height(t) + 1
    BY <1>1, <1>2, <1>4, <2>2 DEF Higher
  <2>6. Height(u) = Height(t) + 1 => Height(s) = Height(r) + 1
    BY <1>1, <1>2, <1>4, <1>8, <2>2 DEF Higher
  <2>7. Height(u) = Height(t) + 1 =>
            key > u.key /\ Height(u.right) = Height(u.left) + 1
    BY <1>3, <2>4, <2>6
  <2> QED
    BY <2>1, <2>2, <2>3, <2>5, <2>7 DEF Inserted, u, v, k, l, r
<1>9. CASE Height(r) - Height(s) \notin {-1, 0, 1}
  <2>1. /\ Height(s) = Height(l) + 1 /\ Height(l) = Height(r) + 1
        /\ Height(r) - Height(s) = -2 /\ l # NoTree
    BY <1>1, <1>2, <1>4, <1>9
  <2> DEFINE h == Height(r)
  <2>2. Height(s) = h + 2 /\ Height(t) = h + 2 /\ h \in Nat
    BY <1>1, <1>4, <2>1 DEF Higher
  <2>3. /\ IsNode(s) /\ s.key \in Nat /\ Sound(s.left) /\ Sound(s.right)
        /\ Height(s) = Higher(Height(s.left), Height(s.right)) + 1
        /\ (\A x \in Keys(s.left) : x < s.key) /\ (\A x \in Keys(s.right) : s.key < x)
        /\ Keys(s) = Keys(s.left) \cup {s.key} \cup Keys(s.right)
    BY <1>2, SoundParts
  <2>4. Height(s.left) \in Nat /\ Height(s.right) \in Nat
    BY <2>3, SoundHeight
  <2>5. k < s.key
    BY <1>7, <2>3
  <2> HIDE DEF h
  <2>6. CASE key > s.key /\ Height(s.right) = Height(s.left) + 1
    <3> DEFINE w == Node(k, r, s.left)
    <3>1. Height(s.right) = h + 1 /\ Height(s.left) = h
      BY <2>2, <2>3, <2>4, <2>6 DEF Higher
    <3>2. v = Node(s.key, w, s.right)
      BY <1>1, <1>4, <2>1, <2>3, <2>6, RebalanceNode DEF u, v
    <3>3. \A x \in Keys(s.left) : k < x
      BY <1>7, <2>3
    <3>4. Sound(w) /\ Height(w) = h + 1 /\ Keys(w) = Keys(s.left) \cup {k} \cup Keys(r)
      BY <1>1, <1>6, <2>2, <2>3, <3>1, <3>3, NodeSound DEF h, Higher
    <3>5. \A x \in Keys(w) : x < s.key
      <4>1. \A x \in Keys(r) : x < s.key
        BY <1>1, <1>4, <2>3, <2>5
      <4> QED
        BY <2>3, <2>5, <3>4, <4>1
    <3> HIDE DEF w
    <3>6. /\ Sound(v) /\ v # NoTree /\ Height(v) = h + 2
          /\ Keys(v) = Keys(s.right) \cup {s.key} \cup Keys(w)
      BY <1>6, <2>2, <2>3, <3>1, <3>2, <3>4, <3>5, NodeSound, DepthAssumption DEF Higher
    <3>7. Keys(v) = Keys(t) \cup {key}
      BY <1>1, <1>2, <2>3, <3>4, <3>6
    <3>8. Height(v) = Height(t) /\ Height(v) # Height(t) + 1
      BY <2>2, <3>6
    <3> QED
      BY <3>6, <3>7, <3>8 DEF Inserted, u, v, k, l, r
  <2>7. CASE key < s.key /\ Height(s.left) = Height(s.right) + 1
    <3> DEFINE x == s.left
               p == Node(s.key, x.right, s.right)
               q == Node(k, r, x.left)
    <3>1. Height(x) = h + 1 /\ Height(s.right) = h
      BY <2>2, <2>3, <2>4, <2>7 DEF Higher
    <3>2. Sound(x) /\ x # NoTree
      BY <2>2, <2>3, <3>1, SoundHeight
    <3>3. /\ IsNode(x) /\ x.key \in Nat /\ Sound(x.left) /\ Sound(x.right)
          /\ Height(x) = Higher(Height(x.left), Height(x.right)) + 1
          /\ Height(x.left) - Height(x.right) \in {-1, 0, 1}
          /\ (\A y \in Keys(x.left) : y < x.key) /\ (\A y \in Keys(x.right) : x.key < y)
          /\ Keys(x) = Keys(x.left) \cup {x.key} \cup Keys(x.right)
      BY <3>2, SoundParts
    <3>4. v = Node(x.key, q, p)
      BY <1>1, <1>4, <2>1, <2>3, <2>7, <3>3, RebalanceNode DEF u, v
    <3>5. \A y \in Keys(x) : y < s.key /\ k < y
      BY <1>7, <2>3
    <3> HIDE DEF x
    <3>6. Height(x.left) \in Nat /\ Height(x.right) \in Nat /\ h + 2 <= MaxDepth
      BY <1>6, <2>2, <3>3, SoundHeight, DepthAssumption
    <3>7. /\ Height(x.left) = h \/ Height(x.left) = h - 1
          /\ Height(x.right) = h \/ Height(x.right) = h - 1
          /\ Height(x.left) = h \/ Height(x.right) = h
      BY <2>2, <3>1, <3>3, <3>6 DEF Higher
    <3>8. \A y \in Keys(x.right) : y < s.key
      BY <3>3, <3>5
    <3>9. Sound(p) /\ Height(p) = h + 1 /\ Keys(p) = Keys(s.right) \cup {s.key} \cup Keys(x.right)
      <4>1. Height(x.right) - Height(s.right) \in {-1, 0, 1}
        BY <2>2, <3>1, <3>7
      <4>2. Higher(Height(x.right), Height(s.right)) = h
        BY <2>2, <3>1, <3>7 DEF Higher
      <4>3. Height(s.right) + 1 <= MaxDepth /\ Height(x.right) + 1 <= MaxDepth
        BY <2>2, <3>1, <3>6, <3>7, DepthAssumption
      <4> QED
        BY <2>3, <3>3, <3>8, <4>1, <4>2, <4>3, NodeSound
    <3>10. \A y \in Keys(x.left) : k < y
      BY <3>3, <3>5
    <3>11. Sound(q) /\ Height(q) = h + 1 /\ Keys(q) = Keys(x.left) \cup {k} \cup Keys(r)
      <4>1. Height(r) - Height(x.left) \in {-1, 0, 1}
        BY <2>2, <3>7 DEF h
      <4>2. Higher(Height(r), Height(x.left)) = h
        BY <2>2, <3>7 DEF h, Higher
      <4>3. Height(r) + 1 <= MaxDepth /\ Height(x.left) + 1 <= MaxDepth
        BY <1>6, <2>2, <3>6, <3>7, DepthAssumption
      <4> QED
        BY <1>1, <3>3, <3>10, <4>1, <4>2, <4>3, NodeSound
    <3>12. x.key < s.key /\ k < x.key
      BY <3>3, <3>5
    <3>13. \A y \in Keys(p) : x.key < y
      <4>1. \A y \in Keys(s.right) : x.key < y
        <5>1. Keys(s.right) \subseteq Nat
          BY <2>3, SoundHeight
        <5> QED
          BY <2>3, <3>3, <3>12, <5>1
      <4> QED
        BY <3>3, <3>9, <3>12, <4>1
    <3>14. \A y \in Keys(q) : y < x.key
      <4>1. \A y \in Keys(r) : y < x.key
        BY <1>1, <1>4, <3>3, <3>12
      <4> QED
        BY <3>3, <3>11, <3>12, <4>1
    <3> HIDE DEF p, q
    <3>15. /\ Sound(v) /\ v # NoTree /\ Height(v) = h + 2
           /\ Keys(v) = Keys(p) \cup {x.key} \cup Keys(q)
      BY <2>2, <3>3, <3>4, <3>6, <3>9, <3>11, <3>13, <3>14, NodeSound, DepthAssumption DEF Higher
    <3>16. Keys(s) = Keys(s.right) \cup {s.key} \cup Keys(x)
      BY <2>3 DEF x
    <3>17. Keys(v) = Keys(t) \cup {key}
      BY <1>1, <1>2, <3>3, <3>9, <3>11, <3>15, <3>16
    <3>18. Height(v) = Height(t) /\ Height(v) # Height(t) + 1
      BY <2>2, <3>15
    <3> QED
      BY <3>15, <3>17, <3>18 DEF Inserted, u, v, k, l, r
  <2> QED
    BY <1>2, <2>1, <2>6, <2>7
<1> QED
  BY <1>8, <1>9

\* insert_node keeps a tree sound and adds the key to it.
LEMMA InsertSound ==
    \A t \in Tree : Sound(t) /\ Height(t) + 1 <= MaxDepth =>
        \A key \in Nat : Inserted(t, key, InsertNode[t][key])
<1> DEFINE Claim(t) == Sound(t) /\ Height(t) + 1 <= MaxDepth =>
                          \A key \in Nat : Inserted(t, key, InsertNode[t][key])
           S == {t \in Tree : Claim(t)}
           rank == [t \in Tree |-> TreeRank(t)]
<1>1. rank \in [Tree -> Nat]
  BY TreeRanked
<1>2. ASSUME NEW t \in Tree, \A y \in Tree : rank[y] < rank[t] => y \in S PROVE t \in S
  <2> SUFFICES ASSUME Sound(t), Height(t) + 1 <= MaxDepth, NEW key \in Nat
               PROVE  Inserted(t, key, InsertNode[t][key])
    OBVIOUS
  <2>1. CASE t = NoTree
    <3>1. InsertNode[t][key] = Node(key, NoTree, NoTree)
      <4>1. InsertNode[t][key] = NewNode(key)
        BY <2>1, InsertUnfold
      <4>2. Higher(Height(NoTree), Height(NoTree)) + 1 = 1
        BY NoTreeSound DEF Higher
      <4> QED
        BY <4>1, <4>2 DEF NewNode, Node
    <3>2. /\ Sound(Node(key, NoTree, NoTree)) /\ Node(key, NoTree, NoTree) # NoTree
          /\ Height(Node(key, NoTree, NoTree)) = 1
          /\ Keys(Node(key, NoTree, NoTree)) = Keys(NoTree) \cup {key} \cup Keys(NoTree)
      BY <2>1, NoTreeSound, NodeSound DEF Higher
    <3> QED
      BY <2>1, <3>1, <3>2, NoTreeSound DEF Inserted
  <2>2. CASE t # NoTree
    <3>1. /\ t.key \in Nat /\ Sound(t.left) /\ Sound(t.right) /\ IsNode(t)
          /\ t = Node(t.key, t.left, t.right)
          /\ Height(t) = Higher(Height(t.left), Height(t.right)) + 1
          /\ Keys(t) = Keys(t.left) \cup {t.key} \cup Keys(t.right)
      BY <2>2, SoundParts
    <3>2. Height(t.left) \in Nat /\ Height(t.right) \in Nat
      BY <3>1, SoundHeight
    <3>3. Height(t.left) + 1 <= MaxDepth /\ Height(t.right) + 1 <= MaxDepth
      BY <3>1, <3>2, DepthAssumption DEF Higher
    <3>4. t.left \in S /\ t.right \in S
      BY <1>2, <2>2, SubtreeInTree
    <3>5. /\ Inserted(t.left, key, InsertNode[t.left][key])
          /\ Inserted(t.right, key, InsertNode[t.right][key])
      BY <3>1, <3>3, <3>4
    <3> HIDE DEF S, rank
    <3>6. CASE key < t.key
      <4> DEFINE s == InsertNode[t.left][key]
      <4>1. InsertNode[t][key] = Rebalance(WithHeight([t EXCEPT !.left = s]), key)
        BY <2>2, <3>6, InsertUnfold
      <4>2. Inserted(t.left, key, s)
        BY <3>5
      <4> HIDE DEF s
      <4>3. WithHeight([t EXCEPT !.left = s]) = Node(t.key, s, t.right)
        BY <3>1, NodeUpdates
      <4>4. Inserted(t, key, Rebalance(Node(t.key, s, t.right), key))
        BY <2>2, <3>6, <4>2, InsertLeft
      <4> QED
        BY <4>1, <4>3, <4>4
    <3>7. CASE key > t.key
      <4> DEFINE s == InsertNode[t.right][key]
      <4>1. InsertNode[t][key] = Rebalance(WithHeight([t EXCEPT !.right = s]), key)
        <5>1. ~(key < t.key) /\ key > t.key
          BY <3>1, <3>7
        <5> QED
          BY <2>2, <5>1, InsertUnfold
      <4>2. Inserted(t.right, key, s)
        BY <3>5
      <4> HIDE DEF s
      <4>3. WithHeight([t EXCEPT !.right = s]) = Node(t.key, t.left, s)
        BY <3>1, NodeUpdates
      <4>4. Inserted(t, key, Rebalance(Node(t.key, t.left, s), key))
        BY <2>2, <3>7, <4>2, InsertRight
      <4> QED
        BY <4>1, <4>3, <4>4
    <3>8. CASE key = t.key
      <4>1. InsertNode[t][key] = t
        <5>1. ~(key < t.key) /\ ~(key > t.key)
          BY <3>1, <3>8
        <5> QED
          BY <2>2, <5>1, InsertUnfold
      <4>2. Keys(t) = Keys(t) \cup {key}
        BY <3>1, <3>8
      <4>3. Height(t) \in Nat
        BY SoundHeight
      <4> QED
        BY <2>2, <4>1, <4>2, <4>3 DEF Inserted
    <3> QED
      BY <3>1, <3>6, <3>7, <3>8
  <2> QED
    BY <2>1, <2>2
<1>3. Tree \subseteq S
  <2> HIDE DEF S, rank
  <2> QED
    BY <1>1, <1>2, TreesRec!RankInduction
<1> QED
  BY <1>3

-----------------------------------------------------------------------------
(***************************************************************************)
(* Arrays.                                                                 *)
(***************************************************************************)

\* The words of an array that ends in a word.
LEMMA FrontWords ==
    ASSUME NEW a \in Seq(Nat), a # <<>>
    PROVE  ToSet(a) = ToSet(Front(a)) \cup {Last(a)}
<1> DEFINE b == Front(a)
           n == Len(b)
<1>1. /\ b \in Seq(Nat) /\ Len(a) = n + 1 /\ n \in Nat /\ Last(a) = a[n + 1]
      /\ \A i \in 1 .. n : b[i] = a[i]
  BY FrontShorter
<1>2. DOMAIN a = 1 .. (n + 1) /\ DOMAIN b = 1 .. n
  BY <1>1
<1>3. \A i \in 1 .. (n + 1) : i \in 1 .. n \/ i = n + 1
  BY <1>1
<1> HIDE DEF b, n
<1>4. ToSet(a) \subseteq ToSet(b) \cup {Last(a)}
  BY <1>1, <1>2, <1>3 DEF ToSet
<1>5. ToSet(b) \subseteq ToSet(a)
  <2>1. ASSUME NEW i \in 1 .. n PROVE b[i] \in ToSet(a)
    <3>1. i \in 1 .. (n + 1) /\ b[i] = a[i]
      BY <1>1
    <3> QED
      BY <1>2, <3>1 DEF ToSet
  <2> QED
    BY <1>2, <2>1 DEF ToSet
<1>6. Last(a) \in ToSet(a)
  <2>1. n + 1 \in 1 .. (n + 1)
    BY <1>1
  <2> QED
    BY <1>1, <1>2, <2>1 DEF ToSet
<1> QED
  BY <1>4, <1>5, <1>6 DEF b

\* avl_build_from_array makes a sound tree of the words of the array.
LEMMA BuildSound ==
    \A a \in Seq(Nat) : Len(a) <= MaxDepth =>
        /\ Sound(BuildFromArray[a])
        /\ Height(BuildFromArray[a]) <= Len(a)
        /\ Keys(BuildFromArray[a]) = ToSet(a)
<1> DEFINE B(a) == BuildFromArray[a]
           S == {a \in Seq(Nat) : Len(a) <= MaxDepth =>
                    Sound(B(a)) /\ Height(B(a)) <= Len(a) /\ Keys(B(a)) = ToSet(a)}
           rank == [a \in Seq(Nat) |-> Len(a)]
<1>1. rank \in [Seq(Nat) -> Nat]
  OBVIOUS
<1>2. ASSUME NEW a \in Seq(Nat), \A b \in Seq(Nat) : rank[b] < rank[a] => b \in S
      PROVE  a \in S
  <2>1. CASE a = <<>>
    <3>1. B(a) = NoTree
      BY <2>1, BuildUnfold
    <3>2. Len(a) = 0 /\ ToSet(a) = {}
      BY <2>1 DEF ToSet
    <3>3. Sound(B(a)) /\ Height(B(a)) <= Len(a) /\ Keys(B(a)) = ToSet(a)
      <4> HIDE DEF B
      <4> QED
        BY <3>1, <3>2, NoTreeSound
    <3> QED
      BY <3>3
  <2>2. CASE a # <<>>
    <3> SUFFICES ASSUME Len(a) <= MaxDepth
                 PROVE  Sound(B(a)) /\ Height(B(a)) <= Len(a) /\ Keys(B(a)) = ToSet(a)
      OBVIOUS
    <3>1. /\ Front(a) \in Seq(Nat) /\ Len(Front(a)) = Len(a) - 1 /\ Last(a) \in Nat
          /\ Len(a) \in Nat /\ Len(a) >= 1
      BY <2>2, FrontShorter
    <3>2. Front(a) \in S
      BY <1>2, <3>1
    <3>3. /\ Sound(B(Front(a))) /\ Height(B(Front(a))) <= Len(a) - 1
          /\ Keys(B(Front(a))) = ToSet(Front(a))
      BY <3>1, <3>2, DepthAssumption
    <3>4. B(a) = InsertNode[B(Front(a))][Last(a)]
      BY <2>2, BuildUnfold
    <3> HIDE DEF S, rank, B
    <3>5. Height(B(Front(a))) \in Nat /\ B(Front(a)) \in Tree
      BY <3>3, SoundHeight
    <3>6. Height(B(Front(a))) + 1 <= MaxDepth
      BY <3>1, <3>3, <3>5, DepthAssumption
    <3>7. Inserted(B(Front(a)), Last(a), B(a))
      BY <3>1, <3>3, <3>4, <3>5, <3>6, InsertSound
    <3>8. ToSet(a) = ToSet(Front(a)) \cup {Last(a)}
      BY <2>2, FrontWords
    <3> QED
      BY <3>1, <3>3, <3>5, <3>7, <3>8 DEF Inserted
  <2> QED
    BY <2>1, <2>2
<1>3. Seq(Nat) \subseteq S
  <2> HIDE DEF S, rank
  <2> QED
    BY <1>1, <1>2, TreesRec!RankInduction
<1> QED
  BY <1>3

\* The keys of the tree in order: the words of the array, ascending.
Sorted(a) == Inorder[BuildFromArray[a]]

\* The tree is an AVL tree of the words, and its keys are sorted.
LEMMA SortedArray ==
    ASSUME NEW a \in Seq(Nat), Len(a) <= MaxDepth
    PROVE  /\ IsAvlTreeOf(BuildFromArray[a], a)
           /\ Sorted(a) \in Seq(Nat) /\ Ascending(Sorted(a)) /\ ToSet(Sorted(a)) = ToSet(a)
<1>1. Sound(BuildFromArray[a]) /\ Keys(BuildFromArray[a]) = ToSet(a)
  BY BuildSound
<1> QED
  BY <1>1, InorderType DEF Sound, IsAvlTreeOf, Keys, Sorted

\* It has a position in the array for each of its own.
LEMMA SortedNotLonger ==
    ASSUME NEW a \in Seq(Nat), Len(a) <= MaxDepth
    PROVE  Len(Sorted(a)) <= Len(a)
<1> DEFINE s == Sorted(a)
           M == 1 .. Len(s)
           N == 1 .. Len(a)
           f == [i \in M |-> CHOOSE j \in N : a[j] = s[i]]
<1>1. s \in Seq(Nat) /\ Ascending(s) /\ ToSet(s) = ToSet(a)
  BY SortedArray
<1> HIDE DEF s
<1>2. Len(s) \in Nat /\ Len(a) \in Nat /\ DOMAIN s = M /\ DOMAIN a = N
  BY <1>1
<1>3. ASSUME NEW i \in M PROVE \E j \in N : a[j] = s[i]
  <2>1. s[i] \in ToSet(a)
    BY <1>1, <1>2 DEF ToSet
  <2> QED
    BY <1>2, <2>1 DEF ToSet
<1>4. \A i \in M : f[i] \in N /\ a[f[i]] = s[i]
  BY <1>3
<1> HIDE DEF f
<1>5. ASSUME NEW i \in M, NEW j \in M, f[i] = f[j] PROVE i = j
  <2>1. s[i] = s[j]
    BY <1>4, <1>5
  <2>2. s[i] \in Nat /\ s[j] \in Nat
    BY <1>1
  <2> QED
    BY <1>1, <2>1, <2>2 DEF Ascending
<1>6. f \in Injection(M, N)
  <2>1. f = [i \in M |-> f[i]]
    BY DEF f
  <2> QED
    BY <1>4, <1>5, <2>1 DEF Injection, IsInjective
<1>7. /\ IsFiniteSet(N) /\ Cardinality(N) = Len(a)
      /\ Cardinality(M) = Len(s)
  <2>1. ASSUME NEW n \in Nat PROVE IsFiniteSet(1 .. n) /\ Cardinality(1 .. n) = n
    <3>1. /\ 1 \in Int /\ n \in Int /\ (IF 1 > n THEN 0 ELSE n - 1 + 1) = n
      OBVIOUS
    <3> QED
      BY <3>1, FS_Interval
  <2> QED
    BY <1>2, <2>1
<1>8. Cardinality(M) <= Cardinality(N)
  <2> HIDE DEF M, N
  <2> QED
    BY <1>6, <1>7, FS_Injection
<1> QED
  BY <1>7, <1>8 DEF s

-----------------------------------------------------------------------------
\* Compaction keeps the words and an ascending beginning.
LEMMA CompactedArray ==
    \A a \in Seq(Nat) :
        /\ Compacted[a] \in Seq(Nat)
        /\ Len(Compacted[a]) <= Len(a)
        /\ ToSet(Compacted[a]) \subseteq ToSet(a)
        /\ \A m \in 0 .. Len(a) :
              (\A j, k \in 1 .. m : j < k => a[j] < a[k]) =>
                  /\ m <= Len(Compacted[a])
                  /\ \A j \in 1 .. m : Compacted[a][j] = a[j]
<1> DEFINE C(a) == Compacted[a]
           Rising(a, m) == \A j, k \in 1 .. m : j < k => a[j] < a[k]
           Kept(a, m) == m <= Len(C(a)) /\ \A j \in 1 .. m : C(a)[j] = a[j]
           Claim(a) == /\ C(a) \in Seq(Nat) /\ Len(C(a)) <= Len(a)
                       /\ ToSet(C(a)) \subseteq ToSet(a)
                       /\ \A m \in 0 .. Len(a) : Rising(a, m) => Kept(a, m)
           S == {a \in Seq(Nat) : Claim(a)}
           rank == [a \in Seq(Nat) |-> Len(a)]
<1>1. rank \in [Seq(Nat) -> Nat]
  OBVIOUS
<1>2. ASSUME NEW a \in Seq(Nat), \A b \in Seq(Nat) : rank[b] < rank[a] => b \in S
      PROVE  Claim(a)
  <2>1. CASE a = <<>>
    <3>1. C(a) = <<>>
      BY <2>1, CompactUnfold DEF CompactDef
    <3> QED
      BY <2>1, <3>1
  <2>2. CASE a # <<>>
    <3> DEFINE b == Front(a)
               c == C(b)
               n == Len(b)
    <3>1. /\ b \in Seq(Nat) /\ Len(a) = n + 1 /\ n \in Nat
          /\ Last(a) = a[n + 1] /\ Last(a) \in Nat
          /\ \A i \in 1 .. n : b[i] = a[i]
      BY <2>2, FrontShorter
    <3>2. Claim(b)
      BY <1>2, <3>1
    <3>3. C(a) = IF c # <<>> /\ Last(c) = Last(a) THEN c ELSE Append(c, Last(a))
      BY <2>2, CompactUnfold DEF CompactDef
    <3>4. ToSet(a) = ToSet(b) \cup {Last(a)}
      BY <2>2, FrontWords
    <3> HIDE DEF b, S, rank
    <3>5. /\ c \in Seq(Nat) /\ Len(c) <= n /\ ToSet(c) \subseteq ToSet(b)
          /\ \A m \in 0 .. n : Rising(b, m) => m <= Len(c) /\ \A j \in 1 .. m : c[j] = b[j]
      BY <3>2
    <3>6. c \in Seq(Nat) /\ Len(c) \in Nat
      BY <3>5
    <3> HIDE DEF c, n
    <3> DEFINE d == Append(c, Last(a))
    <3>7. /\ d \in Seq(Nat) /\ Len(d) = Len(c) + 1 /\ d[Len(c) + 1] = Last(a)
          /\ \A j \in 1 .. Len(c) : d[j] = c[j]
      BY <3>1, <3>5
    <3>8. ToSet(d) \subseteq ToSet(a)
      <4>1. DOMAIN d = 1 .. (Len(c) + 1) /\ DOMAIN c = 1 .. Len(c)
        BY <3>6, <3>7
      <4>2. ASSUME NEW j \in 1 .. (Len(c) + 1) PROVE d[j] \in ToSet(a)
        <5>1. CASE j = Len(c) + 1
          BY <3>4, <3>7, <5>1
        <5>2. CASE j # Len(c) + 1
          <6>1. j \in 1 .. Len(c)
            BY <3>6, <5>2
          <6>2. c[j] \in ToSet(c)
            BY <4>1, <6>1 DEF ToSet
          <6> QED
            BY <3>4, <3>5, <3>7, <6>1, <6>2
        <5> QED
          BY <5>1, <5>2
      <4> HIDE DEF d
      <4> QED
        BY <4>1, <4>2 DEF ToSet
    <3> HIDE DEF d
    <3>9. C(a) = c \/ C(a) = d
      BY <3>3 DEF d
    <3>10. C(a) \in Seq(Nat) /\ Len(C(a)) <= Len(a) /\ ToSet(C(a)) \subseteq ToSet(a)
      BY <3>1, <3>4, <3>5, <3>6, <3>7, <3>8, <3>9
    <3>11. ASSUME NEW m \in 0 .. Len(a), Rising(a, m) PROVE Kept(a, m)
      <4>1. CASE m <= n
        <5>1. m \in 0 .. n
          BY <3>1, <4>1
        <5>2. Rising(b, m)
          BY <3>1, <3>11, <5>1
        <5>3. m <= Len(c) /\ \A j \in 1 .. m : c[j] = b[j]
          BY <3>5, <5>1, <5>2
        <5>4. \A j \in 1 .. m : j \in 1 .. Len(c) /\ j \in 1 .. n
          BY <3>1, <3>6, <5>1, <5>3
        <5> HIDE DEF C
        <5> QED
          BY <3>1, <3>6, <3>7, <3>9, <5>1, <5>3, <5>4
      <4>2. CASE m > n
        <5>1. m = n + 1
          BY <3>1, <4>2
        <5>2. Rising(b, n)
          BY <3>1, <3>11, <5>1
        <5>3. n <= Len(c) /\ \A j \in 1 .. n : c[j] = b[j]
          BY <3>1, <3>5, <5>2
        <5>4. Len(c) = n
          BY <3>1, <3>5, <3>6, <5>3
        <5>5. c # <<>> => Last(c) # Last(a)
          <6> SUFFICES ASSUME c # <<>> PROVE Last(c) # Last(a)
            OBVIOUS
          <6>1. n >= 1
            BY <3>6, <5>4, EmptySeq
          <6>2. Last(c) = a[n]
            BY <3>1, <5>3, <5>4, <6>1 DEF Last
          <6>3. a[n] < a[n + 1] /\ a[n] \in Nat /\ a[n + 1] \in Nat
            BY <3>1, <3>11, <5>1, <6>1
          <6> QED
            BY <3>1, <6>2, <6>3
        <5>6. C(a) = d
          BY <3>3, <5>5 DEF d
        <5> HIDE DEF C
        <5>7. ASSUME NEW j \in 1 .. m PROVE C(a)[j] = a[j]
          <6>1. j \in 1 .. n \/ j = n + 1
            BY <3>1, <5>1
          <6> QED
            BY <3>1, <3>7, <5>3, <5>4, <5>6, <6>1
        <5> QED
          BY <3>7, <5>1, <5>4, <5>6, <5>7
      <4>3. m \in Nat
        BY <3>1
      <4> HIDE DEF Kept
      <4> QED
        BY <3>1, <4>1, <4>2, <4>3
    <3> QED
      BY <3>10, <3>11
  <2> QED
    BY <2>1, <2>2
<1>3. Seq(Nat) \subseteq S
  <2>1. ASSUME NEW a \in Seq(Nat), \A b \in Seq(Nat) : rank[b] < rank[a] => b \in S
        PROVE  a \in S
    BY <1>2, <2>1
  <2> HIDE DEF S, rank
  <2> QED
    BY <1>1, <2>1, TreesRec!RankInduction
<1> QED
  BY <1>3

\* The list that lookup_lookaside_list goes through begins with the sorted words,
\* and has no other words than the array.
LEMMA SortedAndCompacted ==
    ASSUME NEW a \in Seq(Nat), Len(a) <= MaxDepth
    PROVE  LET kept == UtilCompact(UtilAvlSort(a)) IN
           /\ kept \in Seq(Nat) /\ Len(kept) <= Len(a)
           /\ ToSet(kept) \subseteq ToSet(a)
           /\ Len(Sorted(a)) <= Len(kept)
           /\ \A k \in 1 .. Len(Sorted(a)) : kept[k] = Sorted(a)[k]
<1> DEFINE s == Sorted(a)
           m == Len(s)
           u == UtilAvlSort(a)
           t == SubSeq(a, m + 1, Len(a))
<1>1. s \in Seq(Nat) /\ Ascending(s) /\ ToSet(s) = ToSet(a) /\ m <= Len(a)
  BY SortedArray, SortedNotLonger
<1>2. m \in Nat /\ Len(a) \in Nat /\ DOMAIN s = 1 .. m /\ DOMAIN a = 1 .. Len(a)
  BY <1>1
<1>3. \A j, k \in 1 .. m : j < k => s[j] < s[k]
  BY <1>1 DEF Ascending
<1> HIDE DEF s, m
<1>4. /\ u \in Seq(Nat) /\ Len(u) = Len(a) /\ ToSet(u) \subseteq ToSet(a)
      /\ \A k \in 1 .. m : u[k] = s[k]
  <2>1. CASE Len(a) <= 1
    <3>1. u = a
      BY <2>1 DEF UtilAvlSort
    <3>2. ASSUME NEW k \in 1 .. m PROVE a[k] = s[k]
      <4>1. k = 1 /\ Len(a) = 1
        BY <1>1, <1>2, <2>1
      <4>2. s[k] \in ToSet(s)
        BY <1>2 DEF ToSet
      <4>3. PICK j \in 1 .. Len(a) : a[j] = s[k]
        BY <1>1, <1>2, <4>2 DEF ToSet
      <4>4. j = 1
        BY <4>1
      <4> QED
        BY <4>1, <4>3, <4>4
    <3> QED
      BY <3>1, <3>2
  <2>2. CASE ~(Len(a) <= 1)
    <3>1. u = s \o t
      BY <2>2 DEF UtilAvlSort, s, m, Sorted
    <3>2. /\ t \in Seq(Nat) /\ Len(t) = Len(a) - m
          /\ \A i \in 1 .. (Len(a) - m) : t[i] = a[m + i]
      <4> DEFINE lo == m + 1
                 hi == Len(a)
      <4>1. lo \in Int /\ hi \in Nat /\ \A i \in lo .. hi : a[i] \in Nat
        BY <1>2
      <4>2. /\ SubSeq(a, lo, hi) \in Seq(Nat)
            /\ Len(SubSeq(a, lo, hi)) = IF lo <= hi THEN hi - lo + 1 ELSE 0
            /\ \A i \in 1 .. (hi - lo + 1) : SubSeq(a, lo, hi)[i] = a[lo + i - 1]
        <5> HIDE DEF lo, hi
        <5> QED
          BY <4>1, SubSeqProperties
      <4>3. hi - lo + 1 = Len(a) - m /\ (IF lo <= hi THEN hi - lo + 1 ELSE 0) = Len(a) - m
        <5>1. \A p, q \in Nat : p <= q =>
                 q - (p + 1) + 1 = q - p /\ (IF p + 1 <= q THEN q - (p + 1) + 1 ELSE 0) = q - p
          OBVIOUS
        <5>2. m \in Nat /\ Len(a) \in Nat /\ m <= Len(a)
          BY <1>1, <1>2
        <5> QED
          BY <5>1, <5>2
      <4>4. \A i \in 1 .. (Len(a) - m) : lo + i - 1 = m + i
        BY <1>2
      <4> HIDE DEF lo, hi
      <4> QED
        BY <4>2, <4>3, <4>4 DEF lo, hi
    <3> HIDE DEF t
    <3>3. /\ s \o t \in Seq(Nat) /\ Len(s \o t) = m + Len(t)
          /\ \A i \in 1 .. m : (s \o t)[i] = s[i]
          /\ \A i \in 1 .. Len(t) : (s \o t)[m + i] = t[i]
      BY <1>1, <3>2 DEF m
    <3>4. ASSUME NEW i \in 1 .. Len(a) PROVE (s \o t)[i] \in ToSet(a)
      <4>0. i \in Nat /\ m \in Nat
        BY <1>2
      <4>1. CASE i <= m
        <5>1. i \in 1 .. m
          BY <4>0, <4>1
        <5>2. s[i] \in ToSet(s)
          BY <1>2, <5>1 DEF ToSet
        <5> QED
          BY <1>1, <3>3, <5>1, <5>2
      <4>2. CASE i > m
        <5>1. i - m \in 1 .. Len(t) /\ m + (i - m) = i
          BY <1>2, <3>2, <4>2
        <5> QED
          BY <1>2, <3>2, <3>3, <5>1 DEF ToSet
      <4>3. i <= m \/ i > m
        BY <4>0
      <4> QED
        BY <4>1, <4>2, <4>3
    <3>5. Len(s \o t) = Len(a) /\ DOMAIN (s \o t) = 1 .. Len(a)
      <4>1. m + (Len(a) - m) = Len(a)
        BY <1>2
      <4> QED
        BY <3>2, <3>3, <4>1
    <3> HIDE DEF u
    <3> QED
      BY <3>1, <3>3, <3>4, <3>5 DEF ToSet
  <2> QED
    BY <2>1, <2>2
<1> HIDE DEF u
<1>5. m \in 0 .. Len(u) /\ \A j, k \in 1 .. m : j < k => u[j] < u[k]
  BY <1>1, <1>2, <1>3, <1>4
<1>6. /\ Compacted[u] \in Seq(Nat) /\ Len(Compacted[u]) <= Len(u)
      /\ ToSet(Compacted[u]) \subseteq ToSet(u)
      /\ m <= Len(Compacted[u]) /\ \A j \in 1 .. m : Compacted[u][j] = u[j]
  BY <1>4, <1>5, CompactedArray
<1> QED
  BY <1>4, <1>6 DEF UtilCompact, u, s, m

-----------------------------------------------------------------------------
(***************************************************************************)
(* Where a search ends.  A search from a hint for a greater word than the  *)
(* last one finds it if the hint is not behind it: the searches do not     *)
(* overtake the nodes with greater addresses than what they search for.    *)
(***************************************************************************)
IsLater(j) == j \in Index /\ j >= search.from /\ search.val < pool[j]
LaterInv ==
    \A j \in Index : IsLater(j) =>
        /\ search.at = "line" => search.hint < j
        /\ search.at = "binary" => search.min <= Pos(j)
        /\ search.at = "iterate" => search.min - 1 <= Pos(j)
        /\ search.at = "done" => search.loc <= j

\* A word that a search reads and that is not greater lies before them.
LEMMA ReadLater ==
    ASSUME SearchTypeOK, IsPool(n_addrs, pool), search.val \in Words,
           NEW i \in Index, IsLater(i),
           NEW j \in Nat, j < Top, ~(Read(j) > search.val)
    PROVE  Pos(i) \in Nat /\ j <= Pos(i)
<1>1. n_addrs \in Nat /\ n_addrs >= 1 /\ i \in Nat /\ PageAddrs \in Nat /\ PageAddrs >= 1
  BY SizesAssumption, WordValue DEF SearchTypeOK
<1>2. search.val \in Nat /\ search.val < pool[i] /\ pool[i] \in Nat
  BY WordsAssumption, WordValue DEF IsLater
<1>3. CASE search.level = "minimap"
  <2> DEFINE x == j * PageAddrs
  <2>1. Top = NMinimap /\ Read(j) = pool[x] /\ Pos(i) = PageOf(i)
    BY <1>3 DEF Top, Read, Minimap, Pos
  <2>2. x \in Nat
    BY <1>1, Z3
  <2>3. x \in Index
    <3>1. x < n_addrs
      BY <2>1, <1>1, MinimapPages
    <3> QED
      BY <3>1, <2>2, <1>1 DEF Index
  <2>4. x <= i <=> j <= PageOf(i)
    BY <1>1, PageUnique
  <2>5. PageOf(i) \in Nat
    BY <1>1, PageBounds
  <2> HIDE DEF x
  <2>6. pool[x] \in Nat /\ (x < i <=> pool[x] < pool[i])
    BY <2>3, PoolOrder, WordValue
  <2>7. pool[x] < pool[i]
    BY <1>2, <2>1, <2>6
  <2> QED
    BY <1>1, <2>1, <2>2, <2>4, <2>5, <2>6, <2>7
<1>4. CASE search.level # "minimap"
  <2>1. Top = n_addrs /\ Read(j) = Word(j) /\ Pos(i) = i
    BY <1>4 DEF Top, Read, Pos
  <2>2. j \in Index
    BY <2>1, <1>1 DEF Index
  <2>3. /\ pool[j] \in Nat /\ Word(j) \in Nat /\ (Word(j) = pool[j] \/ Word(j) = pool[j] + 1)
        /\ (j < i <=> pool[j] < pool[i])
    BY <2>2, PoolOrder, WordValue
  <2> QED
    BY <1>1, <1>2, <2>1, <2>3
<1> QED
  BY <1>3, <1>4

\* What a step leaves alone.
LEMMA LaterSame ==
    ASSUME IInv, UNCHANGED <<pvars, marked>>, search'.val = search.val,
           search'.from = search.from
    PROVE  /\ Index' = Index /\ \A j \in Index : IsLater(j)' <=> IsLater(j)
           /\ search'.level = search.level => \A j \in Index : Pos(j)' = Pos(j)
BY PoolStays DEF IInv, IsLater, Pos, PageOf

\* A search that returns to addr_find, from a place that is not behind them.
LEMMA LaterReturn ==
    ASSUME IInv, search.at \in {"binary", "iterate"}, NEW r \in Int, r >= -1, r < Top,
           r = -1 => search.level # "minimap",
           \A j \in Index : IsLater(j) => r <= Pos(j),
           search' = Return(r), UNCHANGED <<pvars, marked>>
    PROVE  LaterInv'
<1>1. search \in Searches
  BY DEF IInv, SearchTypeOK, Searches
<1>2. CASE search.level = "minimap"
  <2>1. search' = LevelTwo(search, r) /\ r \in Nat
    BY <1>2 DEF Return
  <2>2. /\ search'.val = search.val /\ search'.from = search.from
        /\ search'.level = "addrs" /\ search'.min = r * PageAddrs /\ search'.at = "binary"
    BY <1>1, <2>1 DEF LevelTwo, Searches
  <2>3. Index' = Index /\ \A j \in Index : IsLater(j)' <=> IsLater(j)
    BY <2>2, LaterSame
  <2>4. ASSUME NEW j \in Index, IsLater(j) PROVE r * PageAddrs <= j
    <3>1. j \in Nat
      BY Sizes DEF IInv
    <3>2. r <= PageOf(j)
      BY <1>2, <2>4 DEF Pos
    <3> QED
      BY <2>1, <3>1, <3>2, PageUnique
  <2>5. \A j \in Index : Pos(j)' = j
    BY <2>2 DEF Pos
  <2> QED
    BY <2>2, <2>3, <2>4, <2>5 DEF LaterInv
<1>3. CASE search.level # "minimap"
  <2>1. search' = Found(search, r)
    BY <1>3 DEF Return
  <2>2. /\ search'.val = search.val /\ search'.from = search.from
        /\ search'.at = "done" /\ search'.loc = r
    BY <1>1, <2>1 DEF Found, Searches
  <2>3. Index' = Index /\ \A j \in Index : IsLater(j)' <=> IsLater(j)
    BY <2>2, LaterSame
  <2>4. \A j \in Index : IsLater(j) => r <= j
    BY <1>3 DEF Pos
  <2> QED
    BY <2>2, <2>3, <2>4 DEF LaterInv
<1> QED
  BY <1>2, <1>3

\* A search whose range goes on from a place that is not behind them.
LEMMA LaterNarrow ==
    ASSUME IInv, NEW lo \in Nat, search' \in Searches,
           search'.at \in {"binary", "iterate"}, search'.level = search.level,
           search'.val = search.val, search'.from = search.from, search'.min = lo,
           \A j \in Index : IsLater(j) =>
               /\ search'.at = "binary" => lo <= Pos(j)
               /\ search'.at = "iterate" => lo - 1 <= Pos(j),
           UNCHANGED <<pvars, marked>>
    PROVE  LaterInv'
BY LaterSame DEF LaterInv

\* A halving of binary_search overtakes none of them, ...
LEMMA BinaryLater == IInv /\ LaterInv /\ BinaryStep => LaterInv'
<1> SUFFICES ASSUME IInv, LaterInv, BinaryStep PROVE LaterInv'
  OBVIOUS
<1> DEFINE mid == (search.max + search.min) \div 2
<1>1. search.at = "binary" /\ ~IsSmall /\ UNCHANGED <<pvars, marked>>
  BY DEF BinaryStep
<1>2. mid \in Nat /\ search.min < mid /\ mid < search.max
  BY <1>1, Middle DEF IInv
<1>3. /\ search.min \in Nat /\ search.max \in Nat /\ search.max <= Top
      /\ n_addrs \in Nat /\ Top \in Nat /\ Top <= n_addrs
  BY <1>1, Sizes DEF IInv, RangeInv
<1>4. search \in Searches /\ search.val \in Words
  BY <1>1 DEF IInv, SearchTypeOK, Searches, ValInv
<1>5. search' = CASE Read(mid) = search.val -> Return(mid)
                  [] Read(mid) > search.val -> [search EXCEPT !.max = mid]
                  [] OTHER -> [search EXCEPT !.min = mid]
  BY DEF BinaryStep
<1> HIDE DEF mid
<1>6. mid < Top
  BY <1>2, <1>3
<1>7. ~(Read(mid) > search.val) => \A j \in Index : IsLater(j) => mid <= Pos(j)
  BY <1>2, <1>4, <1>6, ReadLater DEF IInv
<1>8. CASE Read(mid) = search.val
  <2>1. ~(Read(mid) > search.val)
    BY <1>4, <1>8, WordsAssumption
  <2>2. search' = Return(mid)
    BY <1>5, <1>8, <2>1
  <2> QED
    BY <1>1, <1>2, <1>6, <1>7, <2>1, <2>2, LaterReturn
<1>9. CASE ~(Read(mid) = search.val) /\ Read(mid) > search.val
  <2>1. search' = [search EXCEPT !.max = mid]
    BY <1>5, <1>9
  <2>2. /\ search' \in Searches /\ search'.at = "binary"
        /\ search'.level = search.level /\ search'.min = search.min
        /\ search'.val = search.val /\ search'.from = search.from
    BY <1>1, <1>2, <1>3, <1>4, <2>1 DEF Searches
  <2>3. \A j \in Index : IsLater(j) => search.min <= Pos(j)
    BY <1>1 DEF LaterInv
  <2> QED
    BY <1>1, <1>3, <2>2, <2>3, LaterNarrow
<1>10. CASE ~(Read(mid) = search.val) /\ ~(Read(mid) > search.val)
  <2>1. search' = [search EXCEPT !.min = mid]
    BY <1>5, <1>10
  <2>2. /\ search' \in Searches /\ search'.at = "binary"
        /\ search'.level = search.level /\ search'.min = mid
        /\ search'.val = search.val /\ search'.from = search.from
    BY <1>1, <1>2, <1>3, <1>4, <2>1 DEF Searches
  <2> QED
    BY <1>1, <1>2, <1>7, <1>10, <2>2, LaterNarrow
<1> QED
  BY <1>8, <1>9, <1>10

\* ... nor does the first test of iterative_search, ...
LEMMA IterativeFirstLater == IInv /\ LaterInv /\ IterativeFirst => LaterInv'
<1> SUFFICES ASSUME IInv, LaterInv, IterativeFirst PROVE LaterInv'
  OBVIOUS
<1>1. search.at = "binary" /\ UNCHANGED <<pvars, marked>>
  BY DEF IterativeFirst
<1>2. /\ search.min \in Nat /\ search.max \in Nat /\ search.min < search.max
      /\ search.max <= Top /\ Top \in Nat
  BY <1>1, Sizes DEF IInv, RangeInv
<1>3. search \in Searches
  BY DEF IInv, SearchTypeOK, Searches
<1>4. \A j \in Index : IsLater(j) => search.min <= Pos(j)
  BY <1>1 DEF LaterInv
<1>5. CASE search' = Return(search.min)
  BY <1>1, <1>2, <1>4, <1>5, LaterReturn
<1>6. CASE search' = [search EXCEPT !.at = "iterate"]
  <2>1. /\ search' \in Searches /\ search'.at = "iterate"
        /\ search'.level = search.level /\ search'.min = search.min
        /\ search'.val = search.val /\ search'.from = search.from
    BY <1>3, <1>6 DEF Searches
  <2>2. \A j \in Index : IsLater(j) => search.min - 1 <= Pos(j)
    <3>1. \A j \in Index : Pos(j) \in Int
      BY Sizes, PageBounds DEF IInv, Pos
    <3> QED
      BY <1>2, <1>4, <3>1
  <2> QED
    BY <1>1, <1>2, <2>1, <2>2, LaterNarrow
<1> QED
  BY <1>5, <1>6 DEF IterativeFirst

\* ... a turn of its loop, ...
LEMMA IterativeStepLater == IInv /\ LaterInv /\ IterativeStep => LaterInv'
<1> SUFFICES ASSUME IInv, LaterInv, IterativeStep PROVE LaterInv'
  OBVIOUS
<1>1. search.at = "iterate" /\ search.min < search.max /\ UNCHANGED <<pvars, marked>>
  BY DEF IterativeStep
<1>2. /\ search.min \in Nat /\ search.max \in Nat /\ n_addrs \in Nat
      /\ search.max <= Top /\ Top \in Nat /\ Top <= n_addrs
  BY <1>1, Sizes DEF IInv, RangeInv
<1>3. search \in Searches /\ search.val \in Words
  BY <1>1 DEF IInv, SearchTypeOK, Searches, ValInv
<1>4. \A j \in Index : IsLater(j) => search.min - 1 <= Pos(j)
  BY <1>1 DEF LaterInv
<1>5. search.min < Top
  BY <1>1, <1>2
<1>6. ~(Read(search.min) > search.val) =>
          \A j \in Index : IsLater(j) => Pos(j) \in Nat /\ search.min <= Pos(j)
  BY <1>2, <1>3, <1>5, ReadLater DEF IInv
<1>7. search' = CASE Read(search.min) = search.val -> Return(search.min)
                  [] Read(search.min) > search.val -> Return(search.min - 1)
                  [] OTHER -> [search EXCEPT !.min = @ + 1]
  BY DEF IterativeStep
<1>8. CASE Read(search.min) = search.val
  <2>1. ~(Read(search.min) > search.val)
    BY <1>3, <1>8, WordsAssumption
  <2>2. search' = Return(search.min)
    BY <1>7, <1>8, <2>1
  <2> QED
    BY <1>1, <1>2, <1>5, <1>6, <2>1, <2>2, LaterReturn
<1>9. CASE ~(Read(search.min) = search.val) /\ Read(search.min) > search.val
  <2>1. search' = Return(search.min - 1)
    BY <1>7, <1>9
  <2>2. search.min - 1 = -1 => search.level # "minimap"
    <3> SUFFICES ASSUME search.min = 0, search.level = "minimap" PROVE FALSE
      BY <1>2
    <3>1. Read(0) = pool[0]
      BY SizesAssumption DEF Read, Minimap
    <3>2. pool[0] <= search.val /\ 0 \in Index
      BY <1>1, Sizes DEF IInv, ValInv, InRange, Index
    <3>3. pool[0] \in Nat /\ search.val \in Nat
      BY <1>3, <3>2, WordValue, WordsAssumption DEF IInv
    <3> QED
      BY <1>9, <3>1, <3>2, <3>3
  <2> QED
    BY <1>1, <1>2, <1>4, <1>5, <2>1, <2>2, LaterReturn
<1>10. CASE ~(Read(search.min) = search.val) /\ ~(Read(search.min) > search.val)
  <2>1. search' = [search EXCEPT !.min = @ + 1]
    BY <1>7, <1>10
  <2>2. /\ search' \in Searches /\ search'.at = "iterate"
        /\ search'.level = search.level /\ search'.min = search.min + 1
        /\ search'.val = search.val /\ search'.from = search.from
    BY <1>1, <1>2, <1>3, <2>1 DEF Searches
  <2>3. \A j \in Index : IsLater(j) => (search.min + 1) - 1 <= Pos(j)
    BY <1>2, <1>6, <1>10
  <2> QED
    BY <1>1, <1>2, <2>2, <2>3, LaterNarrow
<1> QED
  BY <1>8, <1>9, <1>10

\* ... or its end, ...
LEMMA IterativeEndLater == IInv /\ LaterInv /\ IterativeEnd => LaterInv'
<1> SUFFICES ASSUME IInv, LaterInv, IterativeEnd PROVE LaterInv'
  OBVIOUS
<1>1. /\ search.at = "iterate" /\ search.min = search.max /\ UNCHANGED <<pvars, marked>>
      /\ search' = Return(search.min - 1)
  BY DEF IterativeEnd
<1>2. /\ search.min \in Nat /\ search.max >= 1 /\ search.max <= Top /\ Top \in Nat
  BY <1>1, Sizes DEF IInv, RangeInv
<1>3. \A j \in Index : IsLater(j) => search.min - 1 <= Pos(j)
  BY <1>1 DEF LaterInv
<1> QED
  BY <1>1, <1>2, <1>3, LaterReturn

\* The words along the line that are smaller than what is searched for.
LEMMA LineLater ==
    ASSUME IInv, search.at \in {"hint", "line"}, NEW h \in Index,
           ~(search.val <= Word(h)), NEW j \in Index, IsLater(j)
    PROVE  h < j
<1>1. search.val \in Words /\ search.val \in Nat
  BY WordsAssumption DEF IInv, ValInv
<1>2. /\ h \in Nat /\ pool[h] \in Nat /\ pool[j] \in Nat
      /\ Word(h) = pool[h] \/ Word(h) = pool[h] + 1
      /\ h < j <=> pool[h] < pool[j]
  BY WordValue, PoolOrder DEF IInv
<1> QED
  BY <1>1, <1>2 DEF IsLater

\* ... nor the test of the hint, ...
LEMMA HintFirstLater == IInv /\ LaterInv /\ HintFirst => LaterInv'
<1> SUFFICES ASSUME IInv, LaterInv, HintFirst PROVE LaterInv'
  OBVIOUS
<1>1. search.at = "hint" /\ UNCHANGED <<pvars, marked>>
  BY DEF HintFirst
<1>2. search \in Searches /\ search.hint = search.from /\ search.hint \in Index
  BY <1>1 DEF IInv, SearchTypeOK, Searches, HintInv
<1>3. CASE search.val <= Word(search.hint)
  <2>1. search' = Found(search, search.hint)
    BY <1>3 DEF HintFirst
  <2>2. /\ search'.val = search.val /\ search'.from = search.from
        /\ search'.at = "done" /\ search'.loc = search.from
    BY <1>2, <2>1 DEF Found, Searches
  <2>3. Index' = Index /\ \A j \in Index : IsLater(j)' <=> IsLater(j)
    BY <1>1, <2>2, LaterSame
  <2> QED
    BY <2>2, <2>3 DEF LaterInv, IsLater
<1>4. CASE ~(search.val <= Word(search.hint))
  <2>1. search' = [search EXCEPT !.at = "line", !.left = RemainingLine(search.hint)]
    BY <1>4 DEF HintFirst
  <2>2. /\ search'.val = search.val /\ search'.from = search.from
        /\ search'.at = "line" /\ search'.hint = search.hint
    BY <1>2, <2>1 DEF Searches
  <2>3. Index' = Index /\ \A j \in Index : IsLater(j)' <=> IsLater(j)
    BY <1>1, <2>2, LaterSame
  <2>4. \A j \in Index : IsLater(j) => search.hint < j
    BY <1>1, <1>2, <1>4, LineLater
  <2> QED
    BY <2>2, <2>3, <2>4 DEF LaterInv
<1> QED
  BY <1>3, <1>4

\* ... nor a step along the line.
LEMMA HintStepLater == IInv /\ LaterInv /\ HintStep => LaterInv'
<1> SUFFICES ASSUME IInv, LaterInv, HintStep PROVE LaterInv'
  OBVIOUS
<1> DEFINE h == IF n_addrs < search.hint + 1 THEN n_addrs ELSE search.hint + 1
<1>1. search.at = "line" /\ UNCHANGED <<pvars, marked>>
  BY DEF HintStep
<1>2. search \in Searches /\ search.hint + 1 \in Index /\ search.hint \in Index
  BY <1>1 DEF IInv, SearchTypeOK, Searches, HintInv
<1>3. n_addrs \in Nat /\ Index \subseteq Nat /\ \A i \in Index : i < n_addrs
  BY Sizes DEF IInv
<1>4. h = search.hint + 1 /\ search.hint \in Int
  <2>1. search.hint + 1 \in Nat /\ search.hint + 1 < n_addrs /\ search.hint \in Int
    <3>1. search.hint \in Nat
      BY <1>2, <1>3
    <3>2. search.hint + 1 \in Nat /\ search.hint + 1 < n_addrs
      BY <1>2, <1>3
    <3> QED
      BY <3>1, <3>2
  <2> QED
    BY <1>3, <2>1
<1>5. search' = IF search.val <= Word(h) THEN Found(search, h)
                ELSE [search EXCEPT !.hint = h, !.left = @ - 1]
  BY DEF HintStep
<1> HIDE DEF h
<1>6. ASSUME NEW j \in Index, IsLater(j) PROVE h <= j
  <2>1. search.hint < j /\ j \in Nat
    BY <1>1, <1>3, <1>6 DEF LaterInv
  <2> QED
    BY <1>4, <2>1
<1>7. CASE search.val <= Word(h)
  <2>1. search' = Found(search, h)
    BY <1>5, <1>7
  <2>2. /\ search'.val = search.val /\ search'.from = search.from
        /\ search'.at = "done" /\ search'.loc = h
    BY <1>2, <2>1 DEF Found, Searches
  <2>3. Index' = Index /\ \A j \in Index : IsLater(j)' <=> IsLater(j)
    BY <1>1, <2>2, LaterSame
  <2> QED
    BY <1>6, <2>2, <2>3 DEF LaterInv
<1>8. CASE ~(search.val <= Word(h))
  <2>1. search' = [search EXCEPT !.hint = h, !.left = @ - 1]
    BY <1>5, <1>8
  <2>2. /\ search'.val = search.val /\ search'.from = search.from
        /\ search'.at = "line" /\ search'.hint = h
    BY <1>1, <1>2, <2>1 DEF Searches
  <2>3. Index' = Index /\ \A j \in Index : IsLater(j)' <=> IsLater(j)
    BY <1>1, <2>2, LaterSame
  <2>4. \A j \in Index : IsLater(j) => h < j
    BY <1>1, <1>2, <1>4, <1>8, LineLater
  <2> QED
    BY <2>2, <2>3, <2>4 DEF LaterInv
<1> QED
  BY <1>7, <1>8

\* addr_find begins.
LEMMA LevelOneLater ==
    ASSUME IInv, NEW s \in Searches, search' = LevelOne(s), UNCHANGED <<pvars, marked>>
    PROVE  LaterInv'
<1>1. search'.at = "binary" /\ search'.min = 0 /\ search'.level = "minimap"
  BY DEF LevelOne, Searches
<1>2. Index' = Index /\ Index \subseteq Nat
  BY Sizes, PoolStays DEF IInv
<1>3. \A j \in Index : Pos(j)' \in Nat
  BY <1>1, <1>2, PageBounds DEF Pos, PageOf
<1> QED
  BY <1>1, <1>2, <1>3 DEF LaterInv

\* No step of a search overtakes a node with a greater address.
LEMMA NextLater == IInv /\ LaterInv /\ [SearchNext]_svars => LaterInv'
<1> SUFFICES ASSUME IInv, LaterInv, [SearchNext]_svars PROVE LaterInv'
  OBVIOUS
<1>0. search \in Searches
  BY DEF IInv, SearchTypeOK, Searches
<1>1. CASE HintEnd
  BY <1>0, <1>1, LevelOneLater DEF HintEnd
<1>2. CASE SearchStep
  BY <1>1, <1>2, BinaryLater, IterativeFirstLater, IterativeStepLater, IterativeEndLater,
     HintFirstLater, HintStepLater DEF SearchStep
<1>3. ASSUME NEW val \in Words, StartFind(val) PROVE LaterInv'
  <2>1. 0 \in Index /\ 0 \in 0 .. n_addrs
    BY Sizes DEF IInv, Index
  <2>2. NewSearch(val, 0) \in Searches
    BY <2>1 DEF NewSearch, Idle, Searches, NoHint
  <2> QED
    BY <1>3, <2>2, LevelOneLater DEF StartFind
<1>4. ASSUME NEW val \in Words, NEW hint \in Index, StartHint(val, hint)
      PROVE  LaterInv'
  <2>1. search'.at = "hint"
    BY <1>4 DEF StartHint, NewSearch, Idle
  <2> QED
    BY <2>1 DEF LaterInv
<1>5. CASE UseResult
  <2>1. search'.at = "idle"
    BY <1>5 DEF UseResult, Idle
  <2> QED
    BY <2>1 DEF LaterInv
<1>6. ASSUME NEW i \in Index, OtherMark(i) PROVE LaterInv'
  <2>1. n_addrs' = n_addrs /\ pool' = pool /\ search' = search
    BY <1>6 DEF OtherMark, pvars
  <2> QED
    BY <2>1 DEF LaterInv, IsLater, Pos, PageOf, Index
<1>7. CASE UNCHANGED svars
  <2>1. n_addrs' = n_addrs /\ pool' = pool /\ search' = search
    BY <1>7 DEF svars
  <2> QED
    BY <2>1 DEF LaterInv, IsLater, Pos, PageOf, Index
<1> QED
  BY <1>2, <1>3, <1>4, <1>5, <1>6, <1>7 DEF SearchNext
-----------------------------------------------------------------------------
(***************************************************************************)
(* lookup_lookaside_list.  While it goes through the sorted words at the   *)
(* beginning of its list, every node that one of them refers to is marked  *)
(* (Handled) or not behind the hint (Ahead); the words after them are      *)
(* among them.                                                             *)
(***************************************************************************)
Handled ==
    \A k \in 1 .. Len(Sorted(aside)), j \in Index :
        k < look.i /\ pool[j] = Sorted(aside)[k] => j \in marked
Ahead ==
    \A k \in 1 .. Len(Sorted(aside)), j \in Index :
        k >= look.i /\ pool[j] = Sorted(aside)[k] => look.cached_loc <= j
PcInv ==
    /\ look.pc # "done" => list = SortAndCompact(aside) /\ look.i <= Len(list) + 1
    /\ look.pc \in {"next", "done"} => search.at = "idle"
    /\ look.pc = "search" =>
          /\ search.at # "idle" /\ look.i <= Len(list)
          /\ search.val = list[look.i] /\ search.from = look.cached_loc
          /\ search.hint \in Index
    /\ look.pc = "done" => look.i > Len(Sorted(aside))

LInv ==
    /\ TypeOK
    /\ Handled
    /\ Ahead
    /\ PcInv

\* What is set aside fits the recursion of the tree.
LEMMA AsideArray ==
    ASSUME NEW a \in Lists
    PROVE  a \in Seq(Nat) /\ Len(a) <= MaxDepth /\ Len(a) \in 1 .. LookasideSize
           /\ ToSet(a) \subseteq Words
<1>1. PICK n \in 1 .. LookasideSize : a \in [1 .. n -> Words]
  BY DEF Lists
<1>2. n \in Nat /\ n <= MaxDepth
  BY DepthAssumption, LookupAssumption
<1>3. a \in Seq(Words) /\ Len(a) = n
  BY <1>1, <1>2
<1>4. \A k \in 1 .. n : a[k] \in Words /\ a[k] \in Nat
  BY <1>1, WordsAssumption
<1>5. a \in [1 .. n -> Nat]
  BY <1>1, <1>4
<1>6. a \in Seq(Nat)
  BY <1>2, <1>5
<1>7. ToSet(a) \subseteq Words
  BY <1>1, <1>4 DEF ToSet
<1> QED
  BY <1>2, <1>3, <1>6, <1>7

\* The list and its beginning.
LEMMA ListWords ==
    ASSUME NEW a \in Lists
    PROVE  LET l == SortAndCompact(a)
               s == Sorted(a)
           IN  /\ l \in Seq(Words) /\ Len(l) \in Nat /\ Len(l) <= LookasideSize
               /\ ToSet(s) = ToSet(a) /\ s \in Seq(Nat)
               /\ Len(s) \in Nat /\ Len(s) <= Len(l)
               /\ \A k \in 1 .. Len(s) : l[k] = s[k] /\ s[k] \in Words /\ s[k] \in Nat
               /\ \A j, k \in 1 .. Len(s) : j < k => s[j] < s[k]
<1> DEFINE l == SortAndCompact(a)
           s == Sorted(a)
<1>1. /\ a \in Seq(Nat) /\ Len(a) <= MaxDepth /\ Len(a) \in 1 .. LookasideSize
      /\ ToSet(a) \subseteq Words
  BY AsideArray
<1>2. s \in Seq(Nat) /\ Ascending(s) /\ ToSet(s) = ToSet(a)
  BY <1>1, SortedArray
<1>3. /\ l \in Seq(Nat) /\ Len(l) <= Len(a) /\ ToSet(l) \subseteq ToSet(a)
      /\ Len(s) <= Len(l) /\ \A k \in 1 .. Len(s) : l[k] = s[k]
  BY <1>1, SortedAndCompacted DEF SortAndCompact
<1> HIDE DEF l, s
<1>4. /\ Len(l) \in Nat /\ DOMAIN l = 1 .. Len(l) /\ Len(s) \in Nat
      /\ DOMAIN s = 1 .. Len(s) /\ LookasideSize \in Nat
  BY <1>2, <1>3, LookupAssumption, DepthAssumption
<1>5. \A k \in 1 .. Len(l) : l[k] \in Words
  BY <1>1, <1>3, <1>4 DEF ToSet
<1>6. l \in Seq(Words)
  <2>1. l = [k \in 1 .. Len(l) |-> l[k]]
    BY <1>3
  <2>2. l \in [1 .. Len(l) -> Words]
    BY <1>5, <2>1
  <2> DEFINE n == Len(l)
  <2>3. n \in Nat /\ l \in [1 .. n -> Words]
    BY <1>4, <2>2
  <2> HIDE DEF n
  <2> QED
    BY <2>3
<1>7. \A k \in 1 .. Len(s) : s[k] \in Words /\ s[k] \in Nat
  BY <1>1, <1>2, <1>4, WordsAssumption DEF ToSet
<1>8. \A j, k \in 1 .. Len(s) : j < k => s[j] < s[k]
  BY <1>2 DEF Ascending
<1>9. Len(l) <= LookasideSize
  BY <1>1, <1>3, <1>4
<1> QED
  BY <1>2, <1>3, <1>4, <1>6, <1>7, <1>8, <1>9 DEF l, s

\* The invariant holds when the list has been sorted and compacted.
LEMMA InitLInv == LookupInit => LInv
<1> SUFFICES ASSUME LookupInit PROVE LInv
  OBVIOUS
<1>1. IInv
  BY InitIInv DEF LookupInit
<1>2. aside \in Lists /\ list = SortAndCompact(aside)
  BY DEF LookupInit
<1>3. look = [pc |-> "next", i |-> 1, cached_loc |-> 0, words |-> 0] /\ search = Idle
  BY DEF LookupInit, SearchInit
<1>4. 0 \in Index /\ Index \subseteq Nat
  BY <1>1, Sizes DEF IInv, Index
<1>5. LookasideSize \in Nat /\ MaxWords \in Nat /\ LookasideSize >= 1
  BY LookupAssumption, DepthAssumption
<1>6. TypeOK
  BY <1>1, <1>2, <1>3, <1>4, <1>5, ListWords DEF TypeOK, IInv
<1>7. Handled /\ Ahead
  BY <1>3, <1>4 DEF Handled, Ahead
<1>8. PcInv
  BY <1>2, <1>3, ListWords DEF PcInv, Idle
<1> QED
  BY <1>6, <1>7, <1>8 DEF LInv

\* The steps of the lookup are steps of the searches.
LEMMA LookupIsSearch ==
    ASSUME TypeOK, [LookupSteps]_vars
    PROVE  [SearchNext]_svars
<1>1. CASE LookupNext
  <2>1. list[look.i] \in Words /\ look.cached_loc \in Index
    BY <1>1 DEF LookupNext, TypeOK
  <2> QED
    BY <1>1, <2>1 DEF LookupNext, SearchNext
<1>2. CASE LookupMark
  BY <1>2 DEF LookupMark, SearchNext
<1>3. ASSUME NEW val \in Words, FollowWord(val) PROVE SearchNext
  BY <1>3 DEF FollowWord, SearchNext
<1>4. CASE FollowMark
  BY <1>4 DEF FollowMark, SearchNext
<1>5. CASE FollowDone \/ LookupDone
  BY <1>5 DEF FollowDone, LookupDone
<1>6. CASE SearchStep /\ UNCHANGED lvars
  BY <1>6 DEF SearchNext
<1>7. ASSUME NEW i \in Index, OtherMark(i) PROVE SearchNext
  BY <1>7 DEF SearchNext
<1>8. CASE UNCHANGED vars
  BY <1>8 DEF vars
<1> QED
  BY <1>1, <1>2, <1>3, <1>4, <1>5, <1>6, <1>7, <1>8 DEF LookupSteps, Sibling
\* No step changes the pool or what was set aside, or takes a mark away.
LEMMA LookupStays ==
    ASSUME TypeOK, [LookupSteps]_vars
    PROVE  n_addrs' = n_addrs /\ pool' = pool /\ Index' = Index /\ aside' = aside
           /\ marked \subseteq marked'
<1>1. [SearchNext]_svars
  BY LookupIsSearch
<1>2. n_addrs' = n_addrs /\ pool' = pool /\ marked \subseteq marked'
  BY <1>1 DEF SearchNext, SearchStep, BinaryStep, IterativeFirst, IterativeStep, IterativeEnd,
     HintFirst, HintStep, HintEnd, StartFind, StartHint, UseResult, OtherMark, pvars, svars
<1>3. aside' = aside
  BY DEF LookupSteps, Sibling, LookupNext, LookupMark, FollowWord, FollowMark, FollowDone,
     LookupDone, vars, lvars
<1> QED
  BY <1>2, <1>3 DEF Index

\* Then the words done stay done, and the others ahead of the hint.
LEMMA StaysHandled ==
    ASSUME Handled, Ahead, n_addrs' = n_addrs, pool' = pool, aside' = aside,
           marked \subseteq marked', look'.i = look.i, look'.cached_loc = look.cached_loc
    PROVE  Handled' /\ Ahead'
BY DEF Handled, Ahead, Index

\* The search for a sorted word marks its node, and leaves the hint in front of
\* the nodes of the words to come.
LEMMA MarkKeeps ==
    ASSUME IInv, LaterInv, LInv, LookupMark
    PROVE  Handled' /\ Ahead'
<1> DEFINE s == Sorted(aside)
<1>1. /\ look.pc = "search" /\ search.at = "done"
      /\ look'.i = look.i + 1 /\ look'.cached_loc = search.loc
      /\ marked' = marked \cup {i \in Index : i = search.loc /\ IsRef(i, search.val)}
      /\ n_addrs' = n_addrs /\ pool' = pool /\ aside' = aside
  BY DEF LookupMark, UseResult, pvars, LInv, TypeOK
<1>2. /\ list = SortAndCompact(aside) /\ search.val = list[look.i]
      /\ search.from = look.cached_loc /\ aside \in Lists /\ look.i \in Nat
      /\ look.i >= 1
  BY <1>1 DEF LInv, PcInv, TypeOK
<1>3. /\ Len(s) \in Nat /\ \A k \in 1 .. Len(s) : list[k] = s[k] /\ s[k] \in Nat
      /\ \A j, k \in 1 .. Len(s) : j < k => s[j] < s[k]
  BY <1>2, ListWords
<1>4. Index' = Index /\ Index \subseteq Nat
  BY <1>1, Sizes DEF Index, IInv
<1>5. s' = s
  BY <1>1
<1> HIDE DEF s
<1>6. ASSUME NEW k \in 1 .. Len(s), NEW j \in Index, k < look.i + 1, pool[j] = s[k]
      PROVE  j \in marked'
  <2>1. CASE k < look.i
    BY <1>1, <1>6, <2>1 DEF LInv, Handled, s
  <2>2. CASE k = look.i
    <3>1. search.val = pool[j]
      BY <1>2, <1>3, <1>6, <2>2
    <3>2. look.cached_loc <= j
      BY <1>2, <1>6, <2>2 DEF LInv, Ahead, s
    <3>3. search.loc = j \/ j \in marked
      BY <1>1, <1>2, <3>1, <3>2 DEF IInv, TargetInv, IsTarget
    <3>4. search.loc = j => IsRef(j, search.val)
      BY <1>4, <3>1 DEF IsRef
    <3> QED
      BY <1>1, <3>3, <3>4
  <2> QED
    BY <1>2, <1>6, <2>1, <2>2
<1>7. ASSUME NEW k \in 1 .. Len(s), NEW j \in Index, k >= look.i + 1, pool[j] = s[k]
      PROVE  search.loc <= j
  <2>1. look.i \in 1 .. Len(s) /\ look.i < k
    BY <1>2, <1>3, <1>7
  <2>2. search.val < pool[j]
    BY <1>2, <1>3, <1>7, <2>1
  <2>3. look.cached_loc <= j
    BY <1>2, <1>7, <2>1 DEF LInv, Ahead, s
  <2> QED
    BY <1>1, <1>2, <2>2, <2>3 DEF LaterInv, IsLater
<1> QED
  BY <1>1, <1>4, <1>5, <1>6, <1>7 DEF Handled, Ahead, s

\* The last word is done.
LEMMA DoneKeeps ==
    ASSUME LInv, LookupDone
    PROVE  look.i > Len(Sorted(aside))
<1>1. look.i > Len(list) /\ list = SortAndCompact(aside) /\ aside \in Lists
      /\ look.i \in Nat
  BY DEF LookupDone, LInv, PcInv, TypeOK
<1>2. Len(Sorted(aside)) \in Nat /\ Len(list) \in Nat /\ Len(Sorted(aside)) <= Len(list)
  BY <1>1, ListWords
<1> QED
  BY <1>1, <1>2

\* Every step of the sibling and of the others keeps the invariant.
LEMMA NextLInv ==
    ASSUME IInv, AboveInv, LaterInv, LInv, [LookupSteps]_vars
    PROVE  LInv'
<1> DEFINE T == [pc : {"next", "search", "follow", "done"},
                 i : 1 .. (LookasideSize + 1), cached_loc : Index,
                 words : 0 .. MaxWords]
<1>1. /\ n_addrs' = n_addrs /\ pool' = pool /\ Index' = Index /\ aside' = aside
      /\ marked \subseteq marked'
  BY LookupStays DEF LInv
<1>2. IInv' /\ SearchTypeOK'
  BY LookupIsSearch, NextIInv DEF LInv, IInv
<1>3. /\ look \in T /\ list \in Seq(Words) /\ Len(list) <= LookasideSize
      /\ Len(list) \in Nat /\ LookasideSize \in Nat /\ MaxWords \in Nat /\ aside \in Lists
  BY LookupAssumption, DepthAssumption DEF LInv, TypeOK
<1>4. ASSUME look' \in T, list' = list \/ list' = <<>> PROVE TypeOK'
  <2>1. <<>> \in Seq(Words) /\ Len(<<>>) = 0
    OBVIOUS
  <2>2. list' \in Seq(Words) /\ Len(list') <= LookasideSize
    <3>1. CASE list' = list
      BY <1>3, <3>1
    <3>2. CASE list' = <<>>
      BY <1>3, <2>1, <3>2
    <3> QED
      BY <1>4, <3>1, <3>2
  <2> QED
    BY <1>1, <1>2, <1>3, <1>4, <2>2 DEF TypeOK
<1>5. Handled /\ Ahead /\ PcInv
  BY DEF LInv
<1>6. CASE LookupNext
  <2>1. /\ look.pc = "next" /\ look.i <= Len(list) /\ list' = list
        /\ look' = [look EXCEPT !.pc = "search"]
        /\ search' = [NewSearch(list[look.i], look.cached_loc) EXCEPT
                         !.at = "hint", !.hint = look.cached_loc]
    BY <1>6 DEF LookupNext, StartHint
  <2>2. /\ search'.at = "hint" /\ search'.val = list[look.i]
        /\ search'.from = look.cached_loc /\ search'.hint \in Index
    BY <1>3, <2>1 DEF NewSearch, Idle
  <2>3. look' \in T /\ look'.pc = "search" /\ look'.i = look.i
        /\ look'.cached_loc = look.cached_loc
    BY <1>3, <2>1
  <2>4. Handled' /\ Ahead'
    BY <1>1, <1>5, <2>3, StaysHandled
  <2>5. PcInv'
    BY <1>1, <1>5, <2>1, <2>2, <2>3 DEF PcInv
  <2> HIDE DEF T
  <2> QED
    BY <1>4, <2>1, <2>3, <2>4, <2>5 DEF LInv
<1>7. CASE LookupMark
  <2>1. /\ look.pc = "search" /\ list' = list /\ search' = Idle
        /\ look' = [look EXCEPT !.i = @ + 1, !.cached_loc = search.loc,
                                !.pc = IF marked' # marked THEN "follow" ELSE "next"]
    BY <1>7 DEF LookupMark, UseResult
  <2>2. look.i <= Len(list) /\ search.hint \in Index /\ list = SortAndCompact(aside)
    BY <1>5, <2>1 DEF PcInv
  <2>3. search.loc \in Index
    <3>1. search.hint # NoHint
      BY <2>2, Sizes DEF IInv, NoHint
    <3> QED
      BY <1>7, <3>1 DEF AboveInv, LookupMark, UseResult
  <2>4. /\ look'.pc \in {"next", "follow"} /\ look'.i = look.i + 1
        /\ look'.cached_loc = search.loc /\ look' \in T
    <3>1. look.i + 1 \in 1 .. (LookasideSize + 1)
      BY <1>3, <2>2
    <3>2. (IF marked' # marked THEN "follow" ELSE "next") \in {"next", "follow"}
      OBVIOUS
    <3> QED
      BY <1>3, <2>1, <2>2, <2>3, <3>1, <3>2
  <2>5. Handled' /\ Ahead'
    BY <1>7, MarkKeeps
  <2>6. PcInv'
    BY <1>1, <1>3, <2>1, <2>2, <2>4 DEF PcInv, Idle
  <2> HIDE DEF T
  <2> QED
    BY <1>4, <2>1, <2>4, <2>5, <2>6 DEF LInv
<1>8. ASSUME NEW val \in Words, FollowWord(val) PROVE LInv'
  <2>1. /\ look.pc = "follow" /\ look.words < MaxWords /\ list' = list
        /\ look' = [look EXCEPT !.words = @ + 1]
    BY <1>8 DEF FollowWord
  <2>2. /\ look'.pc = "follow" /\ look'.i = look.i
        /\ look'.cached_loc = look.cached_loc /\ look' \in T
    BY <1>3, <2>1
  <2>3. Handled' /\ Ahead'
    BY <1>1, <1>5, <2>2, StaysHandled
  <2>4. PcInv'
    BY <1>1, <1>5, <2>1, <2>2 DEF PcInv
  <2> HIDE DEF T
  <2> QED
    BY <1>4, <2>1, <2>2, <2>3, <2>4 DEF LInv
<1>9. CASE FollowMark
  <2>1. look' = look /\ list' = list /\ look.pc = "follow"
    BY <1>9 DEF FollowMark, lvars
  <2>2. Handled' /\ Ahead'
    BY <1>1, <1>5, <2>1, StaysHandled
  <2>3. PcInv'
    BY <1>1, <1>5, <2>1 DEF PcInv
  <2>4. look' \in T
    BY <1>3, <2>1
  <2> HIDE DEF T
  <2> QED
    BY <1>4, <2>1, <2>2, <2>3, <2>4 DEF LInv
<1>10. CASE FollowDone
  <2>1. /\ look.pc = "follow" /\ search.at = "idle" /\ list' = list /\ search' = search
        /\ look' = [look EXCEPT !.pc = "next"]
    BY <1>10 DEF FollowDone, svars
  <2>2. /\ look'.pc = "next" /\ look'.i = look.i
        /\ look'.cached_loc = look.cached_loc /\ look' \in T
    BY <1>3, <2>1
  <2>3. Handled' /\ Ahead'
    BY <1>1, <1>5, <2>2, StaysHandled
  <2>4. PcInv'
    BY <1>1, <1>5, <2>1, <2>2 DEF PcInv
  <2> HIDE DEF T
  <2> QED
    BY <1>4, <2>1, <2>2, <2>3, <2>4 DEF LInv
<1>11. CASE LookupDone
  <2>1. /\ look.pc = "next" /\ list' = <<>> /\ search' = search
        /\ look' = [look EXCEPT !.pc = "done"]
    BY <1>11 DEF LookupDone, svars
  <2>2. /\ look'.pc = "done" /\ look'.i = look.i
        /\ look'.cached_loc = look.cached_loc /\ look' \in T
    BY <1>3, <2>1
  <2>3. Handled' /\ Ahead'
    BY <1>1, <1>5, <2>2, StaysHandled
  <2>4. look.i > Len(Sorted(aside))
    BY <1>11, DoneKeeps
  <2>5. PcInv'
    BY <1>1, <1>5, <2>1, <2>2, <2>4 DEF PcInv
  <2> HIDE DEF T
  <2> QED
    BY <1>4, <2>1, <2>2, <2>3, <2>5 DEF LInv
<1>12. CASE SearchStep /\ UNCHANGED lvars
  <2>1. look' = look /\ list' = list
    BY <1>12 DEF lvars
  <2>2. /\ search'.val = search.val /\ search'.from = search.from
        /\ search.at # "idle" /\ search'.at # "idle"
        /\ search.hint \in Index => search'.hint \in Index
    BY <1>12, SearchKeeps
  <2>3. Handled' /\ Ahead'
    BY <1>1, <1>5, <2>1, StaysHandled
  <2>4. PcInv'
    BY <1>1, <1>5, <2>1, <2>2 DEF PcInv
  <2>5. look' \in T
    BY <1>3, <2>1
  <2> HIDE DEF T
  <2> QED
    BY <1>4, <2>1, <2>3, <2>4, <2>5 DEF LInv
<1>13. CASE UNCHANGED lvars /\ search' = search
  <2>1. look' = look /\ list' = list
    BY <1>13 DEF lvars
  <2>2. Handled' /\ Ahead'
    BY <1>1, <1>5, <2>1, StaysHandled
  <2>3. PcInv'
    BY <1>1, <1>5, <1>13, <2>1 DEF PcInv
  <2>4. look' \in T
    BY <1>3, <2>1
  <2> HIDE DEF T
  <2> QED
    BY <1>4, <2>1, <2>2, <2>3, <2>4 DEF LInv
<1>14. ASSUME NEW i \in Index, OtherMark(i), UNCHANGED lvars PROVE LInv'
  BY <1>13, <1>14 DEF OtherMark
<1>15. CASE UNCHANGED vars
  BY <1>13, <1>15 DEF vars, svars
<1> QED
  BY <1>6, <1>7, <1>8, <1>9, <1>10, <1>11, <1>12, <1>14, <1>15 DEF LookupSteps, Sibling

-----------------------------------------------------------------------------
(***************************************************************************)
(* The theorems.                                                           *)
(***************************************************************************)

\* The invariant of the lookup, with the one of the searches.
LEMMA LookupInvariant == Spec => [](IInv /\ AboveInv /\ LaterInv /\ LInv)
<1> DEFINE All == IInv /\ AboveInv /\ LaterInv /\ LInv
<1>1. LookupInit => All
  BY InitIInv, InitLInv DEF LookupInit, SearchInit, Idle, AboveInv, LaterInv
<1>2. All /\ [LookupSteps]_vars => All'
  BY LookupIsSearch, NextIInv, NextAbove, NextLater, NextLInv DEF LInv
<1> QED
  BY <1>1, <1>2, PTL DEF Spec

\* The variables of lookup_lookaside_list keep their types: in particular the list
\* never gets longer than LOOKASIDE_SZ (child.c:177-229).
THEOREM LookupTypeCorrect == Spec => []TypeOK
<1>1. LInv => TypeOK
  BY DEF LInv
<1> QED
  BY <1>1, LookupInvariant, PTL

\* The lookup implements the searches: whatever it does to the pool is a step of
\* addr_find or addr_find_hint, a mark set on what one of them found, or a mark of
\* another sibling.
THEOREM LookupSearches == Spec => SearchSpec
<1>1. LookupInit => SearchInit
  BY DEF LookupInit
<1>2. TypeOK /\ [LookupSteps]_vars => [SearchNext]_svars
  BY LookupIsSearch
<1> QED
  BY <1>1, <1>2, LookupTypeCorrect, PTL DEF Spec, SearchSpec

\* insert_node keeps the tree balanced, its heights right and its keys in order
\* and complete, for every array of words (avl.c, child.c:187).
THEOREM TreesSound == Spec => []TreeSound
<1>1. LInv => TreeSound
  BY AsideArray, SortedArray DEF LInv, TypeOK, TreeSound
<1> QED
  BY <1>1, LookupInvariant, PTL

\* When lookup_lookaside_list ends, every node that a word set aside refers to is
\* marked (child.c:177-229): for every list, with or without duplicates, every
\* pool, and whatever the other siblings mark meanwhile.
THEOREM NothingMissed == Spec => []LookupComplete
<1>1. ASSUME IInv, LInv, look.pc = "done", NEW k \in 1 .. Len(aside), NEW j \in Index,
             pool[j] = aside[k]
      PROVE  j \in marked
  <2> DEFINE s == Sorted(aside)
  <2>1. aside \in Lists /\ aside \in Seq(Nat) /\ look.i > Len(s) /\ look.i \in Nat
    BY <1>1, AsideArray DEF LInv, TypeOK, PcInv
  <2>2. ToSet(s) = ToSet(aside) /\ s \in Seq(Nat)
    BY <2>1, ListWords
  <2> HIDE DEF s
  <2>3. DOMAIN s = 1 .. Len(s) /\ DOMAIN aside = 1 .. Len(aside) /\ Len(s) \in Nat
    BY <2>1, <2>2
  <2>4. PICK n \in 1 .. Len(s) : s[n] = aside[k]
    <3>1. aside[k] \in ToSet(s)
      BY <2>2, <2>3 DEF ToSet
    <3> QED
      BY <2>3, <3>1 DEF ToSet
  <2>5. n < look.i
    BY <2>1, <2>3
  <2> QED
    BY <1>1, <2>4, <2>5 DEF LInv, Handled, s
<1>2. IInv /\ LInv => LookupComplete
  BY <1>1 DEF LookupComplete
<1> QED
  BY <1>2, LookupInvariant, PTL
=============================================================================
