----------------------------- MODULE Recursion ------------------------------
(***************************************************************************)
(* Induction and recursion over data.  The library's theorems about them   *)
(* are about an operator; these are about a set, and about a function from *)
(* approximations to values, which every first-order prover can use.       *)
(***************************************************************************)
EXTENDS Integers, WellFoundedInduction, TLAPS

CONSTANTS
    Dom,        \* the domain of a recursive function f
    Rank(_),    \* what the recursive calls lower
    Def(_, _)   \* Def(f, x): the right-hand side of f[x]

\* A nonempty set of natural numbers has a least element.
LEMMA LeastNatural ==
    ASSUME NEW S, S \subseteq Nat, S # {}
    PROVE  \E n \in S : \A m \in S : n <= m
<1> DEFINE R == OpToRel(<, Nat)
<1>1. IsWellFoundedOn(R, Nat)
  BY NatLessThanWellFounded, Zenon
<1>2. \A m, n \in Nat : m < n => <<m, n>> \in R
  BY DEF OpToRel
<1> HIDE DEF R
<1>3. PICK n \in S : \A m \in S : <<m, n>> \notin R
  BY <1>1, WFMin, Zenon
<1>4. ASSUME NEW m \in S PROVE n <= m
  <2>1. m \in Nat /\ n \in Nat
    OBVIOUS
  <2>2. ~(m < n)
    BY <1>2, <1>3, <2>1
  <2> QED
    BY <2>1, <2>2
<1> QED
  BY <1>4

\* Induction on natural numbers: S stands for the numbers that have the property.
LEMMA Induction ==
    ASSUME NEW S, 0 \in S, \A n \in Nat : n \in S => n + 1 \in S
    PROVE  Nat \subseteq S
<1> SUFFICES ASSUME Nat \ S # {} PROVE FALSE
  OBVIOUS
<1>1. PICK n \in Nat \ S : \A m \in Nat \ S : n <= m
  BY LeastNatural
<1>2. n - 1 \in Nat /\ n - 1 \notin Nat \ S
  BY <1>1
<1> QED
  BY <1>2

\* Induction on a rank.
LEMMA RankInduction ==
    ASSUME NEW D, NEW rank \in [D -> Nat], NEW S,
           \A x \in D : (\A y \in D : rank[y] < rank[x] => y \in S) => x \in S
    PROVE  D \subseteq S
<1> SUFFICES ASSUME NEW z \in D, z \notin S PROVE FALSE
  OBVIOUS
<1> DEFINE R == {n \in Nat : \E x \in D : x \notin S /\ rank[x] = n}
<1>1. rank[z] \in R
  OBVIOUS
<1>2. PICK n \in R : \A m \in R : n <= m
  <2> HIDE DEF R
  <2>1. R \subseteq Nat
    BY DEF R
  <2> QED
    BY <1>1, <2>1, LeastNatural
<1>3. PICK x \in D : x \notin S /\ rank[x] = n
  OBVIOUS
<1>4. ASSUME NEW y \in D, rank[y] < rank[x] PROVE y \in S
  <2>1. rank[y] \notin R
    BY <1>2, <1>3, <1>4
  <2> QED
    BY <2>1
<1> QED
  BY <1>3, <1>4

-----------------------------------------------------------------------------
(***************************************************************************)
(* Recursive functions.  step[<<g, x>>] is the value at x computed with g  *)
(* for the recursive calls, all of which go to arguments of lower rank.    *)
(***************************************************************************)
Recursive(D, V, rank, step) ==
    /\ V # {} /\ rank \in [D -> Nat]
    /\ step \in [[D -> V] \X D -> V]
    /\ \A g, h \in [D -> V], x \in D :
          (\A y \in D : rank[y] < rank[x] => g[y] = h[y]) => step[<<g, x>>] = step[<<h, x>>]

\* g satisfies the recursive equation at all arguments of rank below n.
SolvesBelow(D, rank, step, g, n) == \A x \in D : rank[x] < n => g[x] = step[<<g, x>>]

\* Two solutions below n are the same there.
LEMMA SolutionsAgree ==
    ASSUME NEW D, NEW V, NEW rank, NEW step, Recursive(D, V, rank, step), NEW n \in Nat,
           NEW g \in [D -> V], NEW h \in [D -> V],
           SolvesBelow(D, rank, step, g, n), SolvesBelow(D, rank, step, h, n)
    PROVE  \A x \in D : rank[x] < n => g[x] = h[x]
<1> DEFINE S == {x \in D : rank[x] < n => g[x] = h[x]}
<1>1. rank \in [D -> Nat]
  BY DEF Recursive
<1>2. ASSUME NEW x \in D, \A y \in D : rank[y] < rank[x] => y \in S PROVE x \in S
  <2> SUFFICES ASSUME rank[x] < n PROVE g[x] = h[x]
    OBVIOUS
  <2>1. \A y \in D : rank[y] < rank[x] => g[y] = h[y]
    BY <1>1, <1>2
  <2>2. step[<<g, x>>] = step[<<h, x>>]
    BY <2>1 DEF Recursive
  <2> QED
    BY <2>2 DEF SolvesBelow
<1>3. D \subseteq S
  <2> HIDE DEF S
  <2> QED
    BY <1>1, <1>2, RankInduction
<1> QED
  BY <1>3

\* There is one, by induction on n.
LEMMA SolutionBelow ==
    ASSUME NEW D, NEW V, NEW rank, NEW step, Recursive(D, V, rank, step), NEW n \in Nat
    PROVE  \E g \in [D -> V] : SolvesBelow(D, rank, step, g, n)
<1> DEFINE S == {m \in Nat : \E g \in [D -> V] : SolvesBelow(D, rank, step, g, m)}
<1>1. rank \in [D -> Nat]
  BY DEF Recursive
<1>2. 0 \in S
  <2>1. PICK v \in V : TRUE
    BY DEF Recursive
  <2>2. [x \in D |-> v] \in [D -> V]
    OBVIOUS
  <2>3. \A x \in D : ~(rank[x] < 0)
    BY <1>1
  <2> QED
    BY <2>2, <2>3 DEF SolvesBelow
<1>3. ASSUME NEW m \in Nat, m \in S PROVE m + 1 \in S
  <2>1. PICK g \in [D -> V] : SolvesBelow(D, rank, step, g, m)
    BY <1>3
  <2> DEFINE h == [x \in D |-> IF rank[x] < m THEN g[x] ELSE step[<<g, x>>]]
  <2>2. h \in [D -> V]
    BY DEF Recursive
  <2>3. ASSUME NEW x \in D, rank[x] < m + 1 PROVE h[x] = step[<<h, x>>]
    <3>1. h[x] = step[<<g, x>>]
      BY <2>1 DEF SolvesBelow
    <3>2. \A y \in D : rank[y] < rank[x] => g[y] = h[y]
      BY <1>1, <2>3
    <3> HIDE DEF h
    <3>3. step[<<g, x>>] = step[<<h, x>>]
      BY <2>2, <3>2 DEF Recursive
    <3> QED
      BY <3>1, <3>3
  <2> HIDE DEF h
  <2>4. SolvesBelow(D, rank, step, h, m + 1)
    BY <2>3 DEF SolvesBelow
  <2> QED
    BY <2>2, <2>4
<1>4. Nat \subseteq S
  <2> HIDE DEF S
  <2> QED
    BY <1>2, <1>3, Induction
<1> QED
  BY <1>4

\* A recursive equation has a solution.
LEMMA RecursiveFunction ==
    ASSUME NEW D, NEW V, NEW rank, NEW step, Recursive(D, V, rank, step)
    PROVE  \E f \in [D -> V] : \A x \in D : f[x] = step[<<f, x>>]
<1> DEFINE G(n) == CHOOSE g \in [D -> V] : SolvesBelow(D, rank, step, g, n)
           f == [x \in D |-> G(rank[x] + 1)[x]]
<1>1. rank \in [D -> Nat]
  BY DEF Recursive
<1>2. \A n \in Nat : G(n) \in [D -> V] /\ SolvesBelow(D, rank, step, G(n), n)
  BY SolutionBelow
<1> HIDE DEF G
<1>3. f \in [D -> V]
  BY <1>1, <1>2
<1>4. ASSUME NEW x \in D PROVE f[x] = step[<<f, x>>]
  <2> DEFINE n == rank[x] + 1
  <2>1. n \in Nat /\ rank[x] < n
    BY <1>1
  <2>2. f[x] = G(n)[x]
    OBVIOUS
  <2>3. G(n)[x] = step[<<G(n), x>>]
    BY <1>2, <2>1 DEF SolvesBelow
  <2>4. ASSUME NEW y \in D, rank[y] < rank[x] PROVE G(n)[y] = f[y]
    <3> DEFINE m == rank[y] + 1
    <3>1. m \in Nat /\ rank[y] < m /\ m <= n
      BY <1>1, <2>4
    <3>2. f[y] = G(m)[y]
      OBVIOUS
    <3> HIDE DEF m, n, f
    <3>3. SolvesBelow(D, rank, step, G(n), m)
      BY <1>1, <1>2, <2>1, <3>1 DEF SolvesBelow
    <3>4. G(m)[y] = G(n)[y]
      BY <1>2, <2>1, <3>1, <3>3, SolutionsAgree
    <3> QED
      BY <3>2, <3>4
  <2> HIDE DEF n, f
  <2>5. step[<<G(n), x>>] = step[<<f, x>>]
    BY <1>2, <1>3, <2>1, <2>4 DEF Recursive
  <2> QED
    BY <2>2, <2>3, <2>5
<1> HIDE DEF f
<1> QED
  BY <1>3, <1>4

-----------------------------------------------------------------------------
(***************************************************************************)
(* The same for the equation that the constants describe, without a set of *)
(* values to begin with: f[x \in Dom] == Def(f, x).                        *)
(***************************************************************************)
Calls == \A g, h : \A x \in Dom :
            (\A y \in Dom : Rank(y) < Rank(x) => g[y] = h[y]) => Def(g, x) = Def(h, x)

SolutionTo(g, n) == \A x \in Dom : Rank(x) < n => g[x] = Def(g, x)

\* Two solutions below n are the same there.
LEMMA SolutionsToAgree ==
    ASSUME \A x \in Dom : Rank(x) \in Nat, Calls, NEW n \in Nat, NEW g, NEW h,
           SolutionTo(g, n), SolutionTo(h, n)
    PROVE  \A x \in Dom : Rank(x) < n => g[x] = h[x]
<1> DEFINE S == {x \in Dom : Rank(x) < n => g[x] = h[x]}
           rank == [x \in Dom |-> Rank(x)]
<1>1. rank \in [Dom -> Nat]
  OBVIOUS
<1>2. ASSUME NEW x \in Dom, \A y \in Dom : rank[y] < rank[x] => y \in S PROVE x \in S
  <2> SUFFICES ASSUME Rank(x) < n PROVE g[x] = h[x]
    OBVIOUS
  <2>1. \A y \in Dom : Rank(y) < Rank(x) => g[y] = h[y]
    BY <1>2
  <2>2. Def(g, x) = Def(h, x)
    BY <2>1, Zenon DEF Calls
  <2> QED
    BY <2>2 DEF SolutionTo
<1>3. Dom \subseteq S
  <2> HIDE DEF S, rank
  <2> QED
    BY <1>1, <1>2, RankInduction
<1> QED
  BY <1>3

\* There is one, by induction on n.
LEMMA SolutionToExists ==
    ASSUME \A x \in Dom : Rank(x) \in Nat, Calls, NEW n \in Nat
    PROVE  \E g : SolutionTo(g, n)
<1> DEFINE S == {m \in Nat : \E g : SolutionTo(g, m)}
<1>1. 0 \in S
  <2>1. \A x \in Dom : ~(Rank(x) < 0)
    OBVIOUS
  <2> QED
    BY <2>1 DEF SolutionTo
<1>2. ASSUME NEW m \in Nat, m \in S PROVE m + 1 \in S
  <2>1. PICK g : SolutionTo(g, m)
    BY <1>2
  <2> DEFINE h == [x \in Dom |-> IF Rank(x) < m THEN g[x] ELSE Def(g, x)]
  <2>2. ASSUME NEW x \in Dom, Rank(x) < m + 1 PROVE h[x] = Def(h, x)
    <3>1. h[x] = Def(g, x)
      BY <2>1 DEF SolutionTo
    <3>2. \A y \in Dom : Rank(y) < Rank(x) => g[y] = h[y]
      BY <2>2
    <3> HIDE DEF h
    <3>3. Def(g, x) = Def(h, x)
      BY <3>2, Zenon DEF Calls
    <3> QED
      BY <3>1, <3>3
  <2> HIDE DEF h
  <2>3. SolutionTo(h, m + 1)
    BY <2>2 DEF SolutionTo
  <2> QED
    BY <2>3
<1>3. Nat \subseteq S
  <2> HIDE DEF S
  <2> QED
    BY <1>1, <1>2, Induction
<1> QED
  BY <1>3

\* What TLA+ means by f[x \in Dom] == Def(f, x), a CHOOSE, satisfies the equation.
LEMMA DefinedByRecursion ==
    ASSUME \A x \in Dom : Rank(x) \in Nat, Calls,
           NEW f, f = CHOOSE g : g = [x \in Dom |-> Def(g, x)]
    PROVE  f = [x \in Dom |-> Def(f, x)]
<1> DEFINE G(n) == CHOOSE g : SolutionTo(g, n)
           h == [x \in Dom |-> G(Rank(x) + 1)[x]]
<1>1. \A n \in Nat : SolutionTo(G(n), n)
  BY SolutionToExists
<1> HIDE DEF G
<1>2. ASSUME NEW x \in Dom PROVE h[x] = Def(h, x)
  <2> DEFINE n == Rank(x) + 1
  <2>1. n \in Nat /\ Rank(x) < n
    OBVIOUS
  <2>2. h[x] = G(n)[x]
    OBVIOUS
  <2>3. G(n)[x] = Def(G(n), x)
    BY <1>1, <2>1 DEF SolutionTo
  <2>4. ASSUME NEW y \in Dom, Rank(y) < Rank(x) PROVE G(n)[y] = h[y]
    <3> DEFINE m == Rank(y) + 1
    <3>1. m \in Nat /\ Rank(y) < m /\ m <= n
      BY <2>4
    <3>2. h[y] = G(m)[y]
      OBVIOUS
    <3> HIDE DEF m, n, h
    <3>3. SolutionTo(G(n), m)
      BY <1>1, <2>1, <3>1 DEF SolutionTo
    <3>4. G(m)[y] = G(n)[y]
      BY <1>1, <2>1, <3>1, <3>3, SolutionsToAgree
    <3> QED
      BY <3>2, <3>4
  <2> HIDE DEF n, h
  <2>5. Def(G(n), x) = Def(h, x)
    BY <2>4, Zenon DEF Calls
  <2> QED
    BY <2>2, <2>3, <2>5
<1>3. h = [x \in Dom |-> Def(h, x)]
  <2> DEFINE k == [x \in Dom |-> Def(h, x)]
  <2>1. h = [x \in Dom |-> h[x]]
    OBVIOUS
  <2> HIDE DEF h
  <2> QED
    BY <1>2, <2>1
<1> HIDE DEF h
<1> QED
  BY <1>3, Zenon
=============================================================================
