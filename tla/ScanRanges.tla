----------------------------- MODULE ScanRanges -----------------------------
(***************************************************************************)
(* What the child scans: the lines of /proc/self/maps (proc.c), the ranges *)
(* that collect_ranges makes of them (child.c), and the words of a range   *)
(* that find_roots reads (child.c).                                        *)
(***************************************************************************)
EXTENDS AllocMap, FiniteSets, FiniteSetsExt

CONSTANTS
    MaxRangeSize,   \* MAX_RANGE_SIZE, in pages
    NWords          \* words of the instance on which find_roots is checked

ASSUME ScanAssumption == MaxRangeSize \in Nat \ {0} /\ NWords \in Nat

-----------------------------------------------------------------------------
(***************************************************************************)
(* The lines of the maps file, which are the kernel's: it makes one line   *)
(* of neighbouring pages of private anonymous memory, whoever has mapped   *)
(* them.                                                                   *)
(***************************************************************************)
Anonymous == {"data", "lock", "own"}

OneLine(p, q) == vm[p] = vm[q] \/ {vm[p], vm[q]} \subseteq Anonymous

IsLine(r) ==
    /\ \A p \in PagesOf(r) : vm[p] # "none" /\ OneLine(p, r.low)
    /\ r.low > 0 => ~OneLine(r.low - 1, r.low)
    /\ r.high < NPages => ~OneLine(r.high, r.low)

LinesAt(p) == {r \in {Region(p, n) : n \in 1 .. (NPages - p)} : IsLine(r)}

MapLines == UNION {LinesAt(p) : p \in Pages}

\* collect_ranges turns a line away for its permissions, its path, or because the
\* lock of stderr is in it.  A line is told apart by its pages only; that the code
\* also turns a line away that ends exactly where the lock begins is left out.
IsWanted(line) == \A p \in PagesOf(line) : vm[p] \in {"data", "own"}

\* Pieces of at most MAX_RANGE_SIZE.
Chopped(r) ==
    LET n == (r.high - r.low - 1) \div MaxRangeSize IN
    [i \in 1 .. n |-> Region(r.low + (i - 1) * MaxRangeSize, MaxRangeSize)]
        \o <<[low |-> r.low + n * MaxRangeSize, high |-> r.high]>>

\* collect_ranges for one line: cut out what Forkscan has mapped.
CollectRanges(line) ==
    LET from[low \in line.low .. line.high] ==
            IF low = line.high THEN <<>>
            ELSE LET next == BreakRange(low, line.high) IN
                 (IF next.low # next.high THEN Chopped(next) ELSE <<>>) \o from[next.high]
    IN from[line.low]

\* forkscan_proc_map_iterate: the lines in ascending order.
MapIterate ==
    LET from[p \in 0 .. NPages] ==
            IF p = NPages THEN <<>>
            ELSE LET lines == {r \in LinesAt(p) : IsWanted(r)} IN
                 (IF lines = {} THEN <<>> ELSE CollectRanges(CHOOSE r \in lines : TRUE))
                     \o from[p + 1]
    IN from[0]

-----------------------------------------------------------------------------
(***************************************************************************)
(* find_roots: every word of the range is compared, except those in the    *)
(* nodes being collected (pool) and in the ones still to be freed (dead).  *)
(* Both are sorted sequences of nodes.                                     *)
(***************************************************************************)
Top == NWords + 1      \* (size_t)-1

Addr(nodes, i) == IF i <= Len(nodes) THEN nodes[i].low ELSE Top

\* The node that addr_find and binary_search return for low: the last one that
\* begins at or below it, the first one if there is none.  That a marked node at low
\* itself makes addr_find end in front of it is left out: find_roots masks the word
\* it reads and steps on to that node next.
SearchFrom(low, nodes) == Max({1} \cup {i \in DOMAIN nodes : nodes[i].low <= low})

\* A version that moves low to the end of the node even if that is further back.
MutantSkipFirst(low, nodes) ==
    LET i == SearchFrom(low, nodes) IN
    IF Addr(nodes, i) > low THEN [low |-> low, idx |-> i]
    ELSE [low |-> nodes[i].high, idx |-> i + 1]

\* Leave the node in which the range begins; idx is the next node to avoid.
SkipFirst(low, nodes) ==
    LET i == SearchFrom(low, nodes) IN
    IF Addr(nodes, i) > low THEN [low |-> low, idx |-> i]
    ELSE [low |-> IF nodes[i].high > low THEN nodes[i].high ELSE low, idx |-> i + 1]

\* Where find_roots is: the next word, and the next node of either kind.
Cursors == [low : Nat, pool : Nat \ {0}, dead : Nat \ {0}]

\* The words that are compared, in the order in which they are.
FindRoots(range, pool, dead) ==
    LET scanned[at \in Cursors] ==
            LET guarded == LeastOf(Addr(pool, at.pool), Addr(dead, at.dead))
                stop == LeastOf(guarded, range.high)
                words == [k \in 1 .. (stop - at.low) |-> at.low + k - 1]
                low == IF at.low < stop THEN stop ELSE at.low
                next ==
                    IF stop # guarded THEN [at EXCEPT !.low = low]
                    ELSE IF guarded = Addr(pool, at.pool)
                    THEN [low |-> low + (pool[at.pool].high - pool[at.pool].low),
                          pool |-> at.pool + 1, dead |-> at.dead]
                    ELSE [low |-> low + (dead[at.dead].high - dead[at.dead].low),
                          pool |-> at.pool, dead |-> at.dead + 1]
            IN IF at.low >= range.high THEN <<>> ELSE words \o scanned[next]
        afterPool == SkipFirst(range.low, pool)
        afterDead == SkipFirst(afterPool.low, dead)
    IN scanned[[low |-> afterDead.low, pool |-> afterPool.idx, dead |-> afterDead.idx]]

-----------------------------------------------------------------------------
\* All ways to place nodes in the words: a word is outside all nodes, begins a node
\* of the pool or a dead one, or continues the node before it.
Placements ==
    {w \in [0 .. (NWords - 1) -> {"free", "pool", "dead", "more"}] :
        /\ \A p \in DOMAIN w : w[p] = "more" => p > 0 /\ w[p - 1] # "free"
        /\ \E p \in DOMAIN w : w[p] = "pool"}

\* The node that begins at p.
NodeAt(w, p) ==
    [low |-> p, high |-> Min({q \in (p + 1) .. NWords : q = NWords \/ w[q] # "more"})]

NodesOf(w, kind) ==
    LET from[p \in 0 .. NWords] ==
            IF p = NWords THEN <<>>
            ELSE (IF w[p] = kind THEN <<NodeAt(w, p)>> ELSE <<>>) \o from[p + 1]
    IN from[0]

\* find_roots on every placement and every range: it compares the words that lie in
\* no node, in ascending order.
FindRootsExact ==
    \A w \in Placements : \A low \in 0 .. (NWords - 1) : \A high \in (low + 1) .. NWords :
        LET pool == NodesOf(w, "pool")
            dead == NodesOf(w, "dead")
            words == FindRoots([low |-> low, high |-> high], pool, dead)
        IN
        /\ Range(words) = {p \in low .. (high - 1) :
                              \A node \in Range(pool) \cup Range(dead) : p \notin PagesOf(node)}
        /\ \A i, j \in DOMAIN words : i < j => words[i] < words[j]
=============================================================================
