----------------------------- MODULE AddrSearch -----------------------------
(***************************************************************************)
(* The search for a word in the pool of retired nodes (child.c): the       *)
(* two-level search with the minimap (addr_find) and the search from where *)
(* the last word was found (addr_find_hint).                               *)
(*                                                                         *)
(* The pool is shared with the siblings, who set the low bit of a word to  *)
(* mark its node at any time, so that a node compares greater than its own *)
(* address once it is marked.  A step is one read of the array.            *)
(*                                                                         *)
(* iterative_search reads its first word twice, and gcc -O3 keeps both     *)
(* reads.                                                                  *)
(***************************************************************************)
EXTENDS Integers

CONSTANTS
    Words,            \* the words that may be searched for, low bits masked
    MaxAddrs,         \* bound on the number of addresses in the pool
    PageAddrs,        \* PAGESIZE / sizeof(size_t)
    BinaryThreshold,  \* BINARY_THRESHOLD
    LineWords,        \* CACHELINESIZE / sizeof(size_t)
    Slack             \* what addr_find_hint adds to the rest of the line

ASSUME WordsAssumption == \A w \in Words : w \in Nat /\ w > 0 /\ w % 4 = 0
ASSUME SizesAssumption ==
    /\ MaxAddrs \in Nat \ {0}
    /\ PageAddrs \in Nat \ {0}
    /\ BinaryThreshold \in Nat \ {0, 1}
    /\ LineWords \in Nat \ {0} /\ Slack \in Nat

VARIABLES
    n_addrs,   \* number of addresses
    pool,      \* the addresses, sorted
    marked,    \* the indices whose low bit is set
    search     \* the search under way

pvars == <<n_addrs, pool>>
svars == <<n_addrs, pool, marked, search>>

Index == 0 .. (n_addrs - 1)

\* What stands for the hint of a search that is not given one.
NoHint == -1

\* No search, and a search for val that may look at the words from index from on.
Idle == [at |-> "idle", val |-> 0, from |-> 0, hint |-> NoHint, left |-> 0,
         level |-> "addrs", min |-> 0, max |-> 0, loc |-> 0]
NewSearch(val, from) == [Idle EXCEPT !.val = val, !.from = from]

\* A word of the pool, with its mark.
Word(i) == pool[i] + (IF i \in marked THEN 1 ELSE 0)

\* generate_minimap: the first word of every page, before any mark was set.
NMinimap == (n_addrs + PageAddrs - 1) \div PageAddrs
Minimap(v) == pool[v * PageAddrs]

Read(i) == IF search.level = "minimap" THEN Minimap(i) ELSE Word(i)

-----------------------------------------------------------------------------
(***************************************************************************)
(* addr_find: the level of the minimap, then that of the page it gives.    *)
(***************************************************************************)
LevelOne(s) ==
    [s EXCEPT !.at = "binary", !.level = "minimap", !.min = 0, !.max = NMinimap]

\* A version that leaves out the last word of a page.
MutantLevelTwo(s, v) ==
    [s EXCEPT !.at = "binary", !.level = "addrs", !.min = v * PageAddrs,
              !.max = IF v = NMinimap - 1 THEN n_addrs ELSE (v + 1) * PageAddrs - 1]

LevelTwo(s, v) ==
    [s EXCEPT !.at = "binary", !.level = "addrs", !.min = v * PageAddrs,
              !.max = IF v = NMinimap - 1 THEN n_addrs ELSE (v + 1) * PageAddrs]

Found(s, loc) == [s EXCEPT !.at = "done", !.loc = loc]

\* binary_search returns r to addr_find.
Return(r) == IF search.level = "minimap" THEN LevelTwo(search, r) ELSE Found(search, r)

\* A version that goes on halving a range of one.
MutantIsSmall == search.max - search.min < BinaryThreshold - 1

\* The range is left to iterative_search.
IsSmall == search.max - search.min < BinaryThreshold

\* binary_search: halve a range that is not small.
BinaryStep ==
    /\ search.at = "binary" /\ ~IsSmall
    /\ LET mid == (search.max + search.min) \div 2 IN
       search' = CASE Read(mid) = search.val -> Return(mid)
                   [] Read(mid) > search.val -> [search EXCEPT !.max = mid]
                   [] OTHER -> [search EXCEPT !.min = mid]
    /\ UNCHANGED <<pvars, marked>>

\* iterative_search: its first test, ...
IterativeFirst ==
    /\ search.at = "binary" /\ IsSmall
    /\ search' = IF Read(search.min) > search.val \/ search.min = search.max
                 THEN Return(search.min) ELSE [search EXCEPT !.at = "iterate"]
    /\ UNCHANGED <<pvars, marked>>

\* ... and a turn of its loop.
IterativeStep ==
    /\ search.at = "iterate" /\ search.min < search.max
    /\ search' = CASE Read(search.min) = search.val -> Return(search.min)
                   [] Read(search.min) > search.val -> Return(search.min - 1)
                   [] OTHER -> [search EXCEPT !.min = @ + 1]
    /\ UNCHANGED <<pvars, marked>>

IterativeEnd ==
    /\ search.at = "iterate" /\ search.min = search.max
    /\ search' = Return(search.min - 1)
    /\ UNCHANGED <<pvars, marked>>

-----------------------------------------------------------------------------
(***************************************************************************)
(* addr_find_hint.                                                         *)
(***************************************************************************)

\* The rest of the cache line of addrs[hint], and a little more: the array
\* starts on a page.
RemainingLine(hint) == (LineWords - 1 - (hint % LineWords)) + Slack

HintFirst ==
    /\ search.at = "hint"
    /\ search' = IF search.val <= Word(search.hint) THEN Found(search, search.hint)
                 ELSE [search EXCEPT !.at = "line", !.left = RemainingLine(search.hint)]
    /\ UNCHANGED <<pvars, marked>>

\* A version that stops only at a greater word.
MutantHintStep ==
    /\ search.at = "line" /\ search.left > 0
    /\ LET hint == IF n_addrs < search.hint + 1 THEN n_addrs ELSE search.hint + 1 IN
       search' = IF search.val < Word(hint) THEN Found(search, hint)
                 ELSE [search EXCEPT !.hint = hint, !.left = @ - 1]
    /\ UNCHANGED <<pvars, marked>>

HintStep ==
    /\ search.at = "line" /\ search.left > 0
    /\ LET hint == IF n_addrs < search.hint + 1 THEN n_addrs ELSE search.hint + 1 IN
       search' = IF search.val <= Word(hint) THEN Found(search, hint)
                 ELSE [search EXCEPT !.hint = hint, !.left = @ - 1]
    /\ UNCHANGED <<pvars, marked>>

\* Give up on the hint.
HintEnd ==
    /\ search.at = "line" /\ search.left = 0
    /\ search' = LevelOne(search)
    /\ UNCHANGED <<pvars, marked>>

-----------------------------------------------------------------------------
(***************************************************************************)
(* The callers.  They search for words between the smallest and the        *)
(* largest address (ts.min and ts.max), and may mark the node they find.   *)
(***************************************************************************)
InRange(val) == pool[0] <= val /\ val <= pool[n_addrs - 1]

\* addr_find(val), from recursive_mark.
StartFind(val) ==
    /\ search.at = "idle" /\ InRange(val)
    /\ search' = LevelOne(NewSearch(val, 0))
    /\ UNCHANGED <<pvars, marked>>

\* addr_find_hint(val, hint), from lookup_lookaside_list.
StartHint(val, hint) ==
    /\ search.at = "idle" /\ InRange(val)
    /\ search' = [NewSearch(val, hint) EXCEPT !.at = "hint", !.hint = hint]
    /\ UNCHANGED <<pvars, marked>>

\* is_ref, and the mark set if there is none: the caller uses the result.  The word
\* in front of the pool, the end of the page of the addr_buffer_t, has been zero
\* since it was mapped and is no address.
IsRef(loc, val) == loc # -1 /\ pool[loc] = val

UseResult ==
    /\ search.at = "done"
    /\ marked' = marked \cup {i \in Index : i = search.loc /\ IsRef(i, search.val)}
    /\ search' = Idle
    /\ UNCHANGED pvars

\* Another sibling marks a node.
OtherMark(i) ==
    /\ i \notin marked
    /\ marked' = marked \cup {i}
    /\ UNCHANGED <<pvars, search>>

-----------------------------------------------------------------------------
\* forkscan_util_avl_sort has put the addresses, all different, in order.
IsPool(n, p) ==
    /\ p \in [0 .. (n - 1) -> Words]
    /\ \A i, j \in 0 .. (n - 1) : i < j => p[i] < p[j]

SearchInit ==
    /\ n_addrs \in 1 .. MaxAddrs
    /\ pool \in [0 .. (n_addrs - 1) -> Words]
    /\ IsPool(n_addrs, pool)
    /\ marked = {}
    /\ search = Idle

SearchStep ==
    \/ BinaryStep
    \/ IterativeFirst
    \/ IterativeStep
    \/ IterativeEnd
    \/ HintFirst
    \/ HintStep
    \/ HintEnd

SearchNext ==
    \/ SearchStep
    \/ \E val \in Words : StartFind(val) \/ \E hint \in Index : StartHint(val, hint)
    \/ UseResult
    \/ \E i \in Index : OtherMark(i)

SearchSpec == SearchInit /\ [][SearchNext]_svars

-----------------------------------------------------------------------------
(***************************************************************************)
(* Properties.                                                             *)
(***************************************************************************)

\* Every variable has its type; a search ends at an index of the pool, or in
\* front of it.
SearchTypeOK ==
    /\ n_addrs \in 1 .. MaxAddrs
    /\ pool \in [Index -> Words]
    /\ marked \subseteq Index
    /\ search \in [at : {"idle", "binary", "iterate", "hint", "line", "done"},
                   val : Words \cup {0}, from : Index,
                   hint : Index \cup {NoHint}, left : Nat,
                   level : {"minimap", "addrs"}, min : 0 .. n_addrs,
                   max : 0 .. n_addrs, loc : Index \cup {-1}]

\* No search reads outside of the minimap or of the pool, although binary_search
\* leaves its range to a loop that looks for the end only, addr_find_hint steps on
\* without looking for it, and others lift the words meanwhile; and the result of
\* addr_find_hint, which the next search starts from, is an index of the pool
\* (child.c:78-145).
ReadsMapped ==
    /\ search.at = "binary" => search.min < search.max
    /\ search.at \in {"binary", "iterate"} =>
          search.max <= IF search.level = "minimap" THEN NMinimap ELSE n_addrs
    /\ search.at = "hint" => search.hint \in Index
    /\ search.at = "line" /\ search.left > 0 => search.hint + 1 \in Index
    /\ search.at = "done" /\ search.hint # NoHint => search.loc \in Index

\* What the comment of addr_find says of every search, "The bounds on the return
\* value are [0, num_addrs)" (child.c:104-105), and is_ref asserts of the index it
\* reads next (child.c:70).
ResultInBounds == search.at = "done" => search.loc \in Index

\* A word that is the address of a node is found, unless the node is marked,
\* whatever other siblings mark while the search goes on, and wherever it lies
\* from the hint on.
FoundOrMarked ==
    search.at = "done" =>
        \A i \in Index :
            i >= search.from /\ pool[i] = search.val => search.loc = i \/ i \in marked
=============================================================================
