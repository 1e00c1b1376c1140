------------------------------ MODULE AllocMap ------------------------------
(***************************************************************************)
(* The memory Forkscan maps for itself (alloc.c): a circular list of       *)
(* regions, sorted by address, that the child consults to leave them out   *)
(* of its scan.                                                            *)
(*                                                                         *)
(* Threads map memory at any time and may be stopped by the collector      *)
(* anywhere in alloc_mmap, also inside the section of list_lock: a step is *)
(* one store that a walk along the next pointers can see, or one system    *)
(* call.  Only the collector unmaps, and it does not fork meanwhile.       *)
(*                                                                         *)
(* The list is the sequence of its regions from alloc_list on.  A region   *)
(* in front of the head is linked behind the last one first, and becomes   *)
(* the head in a second store; alloc.o keeps the order of the source.      *)
(***************************************************************************)
EXTENDS Integers, Sequences, SequencesExt

CONSTANTS
    Mappers,      \* the threads that map memory
    Nobody,       \* not a thread
    NPages,       \* size of the address space
    BlockNodes    \* metadata nodes that a block yields (a page of them)

ASSUME AllocAssumption ==
    /\ Nobody \notin Mappers
    /\ NPages \in Nat \ {0} /\ BlockNodes \in Nat \ {0, 1}

VARIABLES
    vm,           \* vm[p]: what page p is mapped as
    alloc_list,   \* the regions in circular order, alloc_list first
    free_list,    \* number of free metadata nodes
    list_lock,    \* its holder
    op            \* the calls of alloc_mmap and forkscan_alloc_munmap under way

allocVars == <<vm, alloc_list, free_list, list_lock, op>>

-----------------------------------------------------------------------------
Pages == 0 .. (NPages - 1)

\* Kinds of pages: unmapped; writable private memory of the application; the
\* writable memory of libc around the lock of stderr; memory that the scan turns
\* away for its permissions or its path; shared memory; Forkscan's private and
\* shared memory.
UserKinds == {"none", "data", "lock", "text", "shared"}
OwnKinds == {"own", "ownshared"}

Region(low, size) == [low |-> low, high |-> low + size]
PagesOf(r) == r.low .. (r.high - 1)

NoOp == [pc |-> "idle", meta |-> Region(0, 0), size |-> 0, shared |-> FALSE]

\* mmap: the highest gap that is large enough, if there is one.
Gaps(size) ==
    LET fits == {p \in 0 .. (NPages - size) : \A q \in p .. (p + size - 1) : vm[q] = "none"}
    IN {Region(p, size) : p \in {q \in fits : \A o \in fits : o <= q}}

Mapped(r, kind) == [p \in Pages |-> IF p \in PagesOf(r) THEN kind ELSE vm[p]]

-----------------------------------------------------------------------------
(***************************************************************************)
(* metadata_do_insert.                                                     *)
(***************************************************************************)

\* Position of the first region that starts at or above the end of meta.
PlaceFor(meta) ==
    CHOOSE i \in DOMAIN alloc_list :
        /\ alloc_list[i].low >= meta.high
        /\ \A j \in 1 .. (i - 1) : alloc_list[j].low < meta.high

GoesLast(meta) == alloc_list = <<>> \/ Last(alloc_list).high <= meta.low

\* The region is to be the new head: the second store is still to come.
BecomesHead(meta) == ~GoesLast(meta) /\ PlaceFor(meta) = 1

\* The list after the stores that link the region in.
Linked(meta) ==
    IF GoesLast(meta) \/ BecomesHead(meta) THEN Append(alloc_list, meta)
    ELSE InsertAt(alloc_list, PlaceFor(meta), meta)

\* The store to alloc_list.
Rotated == <<Last(alloc_list)>> \o Front(alloc_list)

-----------------------------------------------------------------------------
(***************************************************************************)
(* alloc_mmap.                                                             *)
(***************************************************************************)

\* metadata_new: take a free node, ...
TakeNode(c, size, shared) ==
    /\ op[c].pc = "idle" /\ list_lock = Nobody /\ free_list > 0
    /\ free_list' = free_list - 1
    /\ op' = [op EXCEPT ![c] = [NoOp EXCEPT !.pc = "mmap", !.size = size, !.shared = shared]]
    /\ UNCHANGED <<vm, alloc_list, list_lock>>

\* ... or map a block of them ...
MapBlock(c, size, shared) ==
    /\ op[c].pc = "idle" /\ list_lock = Nobody /\ free_list = 0
    /\ \E r \in Gaps(1) :
          /\ vm' = Mapped(r, "own")
          /\ op' = [op EXCEPT ![c] = [pc |-> "block", meta |-> r, size |-> size,
                                      shared |-> shared]]
    /\ list_lock' = c
    /\ UNCHANGED <<alloc_list, free_list>>

\* ... whose first node describes the block itself.
InsertBlock(c) ==
    /\ op[c].pc = "block"
    /\ alloc_list' = Linked(op[c].meta)
    /\ op' = [op EXCEPT ![c].pc = IF BecomesHead(op[c].meta) THEN "blockhead" ELSE "nodes"]
    /\ UNCHANGED <<vm, free_list, list_lock>>

InsertBlockHead(c) ==
    /\ op[c].pc = "blockhead"
    /\ alloc_list' = Rotated
    /\ op' = [op EXCEPT ![c].pc = "nodes"]
    /\ UNCHANGED <<vm, free_list, list_lock>>

\* The rest of the block becomes free nodes; take one of them.
BlockNode(c) ==
    /\ op[c].pc = "nodes"
    /\ free_list' = BlockNodes - 1
    /\ list_lock' = Nobody
    /\ op' = [op EXCEPT ![c].pc = "mmap"]
    /\ UNCHANGED <<vm, alloc_list>>

\* mmap_wrap, without the lock.
MmapWrap(c) ==
    /\ op[c].pc = "mmap"
    /\ \E r \in Gaps(op[c].size) :
          /\ vm' = Mapped(r, IF op[c].shared THEN "ownshared" ELSE "own")
          /\ op' = [op EXCEPT ![c].pc = "insert", ![c].meta = r]
    /\ UNCHANGED <<alloc_list, free_list, list_lock>>

\* A version that does not take the lock.
MutantInsert(c) ==
    /\ op[c].pc = "insert"
    /\ alloc_list' = Linked(op[c].meta)
    /\ op' = [op EXCEPT ![c].pc = IF BecomesHead(op[c].meta) THEN "head" ELSE "done"]
    /\ UNCHANGED <<vm, free_list, list_lock>>

\* metadata_insert, up to the store to alloc_list if there is one.
Insert(c) ==
    /\ op[c].pc = "insert" /\ list_lock = Nobody
    /\ alloc_list' = Linked(op[c].meta)
    /\ op' = [op EXCEPT ![c].pc = IF BecomesHead(op[c].meta) THEN "head" ELSE "done"]
    /\ list_lock' = IF BecomesHead(op[c].meta) THEN c ELSE Nobody
    /\ UNCHANGED <<vm, free_list>>

InsertHead(c) ==
    /\ op[c].pc = "head"
    /\ alloc_list' = Rotated
    /\ list_lock' = Nobody
    /\ op' = [op EXCEPT ![c].pc = "done"]
    /\ UNCHANGED <<vm, free_list>>

\* forkscan_alloc_munmap of the i-th region: metadata_remove, ...
MetadataRemove(c, i) ==
    /\ op[c].pc = "idle" /\ list_lock = Nobody
    /\ alloc_list' = RemoveAt(alloc_list, i)
    /\ op' = [op EXCEPT ![c] = [NoOp EXCEPT !.pc = "munmap", !.meta = alloc_list[i]]]
    /\ UNCHANGED <<vm, free_list, list_lock>>

\* ... munmap_wrap, ...
MunmapWrap(c) ==
    /\ op[c].pc = "munmap"
    /\ vm' = Mapped(op[c].meta, "none")
    /\ op' = [op EXCEPT ![c].pc = "free"]
    /\ UNCHANGED <<alloc_list, free_list, list_lock>>

\* ... metadata_free.
MetadataFree(c) ==
    /\ op[c].pc = "free" /\ list_lock = Nobody
    /\ free_list' = free_list + 1
    /\ op' = [op EXCEPT ![c] = NoOp]
    /\ UNCHANGED <<vm, alloc_list, list_lock>>

AllocStep(c) ==
    \/ InsertBlock(c)
    \/ InsertBlockHead(c)
    \/ BlockNode(c)
    \/ MmapWrap(c)
    \/ Insert(c)
    \/ InsertHead(c)
    \/ MunmapWrap(c)
    \/ MetadataFree(c)

-----------------------------------------------------------------------------
(***************************************************************************)
(* metadata_break_range: the first part of [low, high) that is not in the  *)
(* list, as the child computes it from the list it was forked with.  The   *)
(* walks end when they come back to the head.                              *)
(***************************************************************************)
LeastOf(a, b) == IF a < b THEN a ELSE b

\* Where the first loop stops: at a region that ends above low, or at the head.
FirstAbove(low) ==
    LET above == {i \in DOMAIN alloc_list : alloc_list[i].high > low} IN
    IF above = {} THEN 1 ELSE CHOOSE i \in above : \A j \in above : i <= j

\* A version that cuts at the first region without passing over adjacent ones.
MutantBreakRange(low, high) ==
    LET r == alloc_list[FirstAbove(low)] IN
    IF r.high <= low \/ r.low >= high THEN [low |-> low, high |-> high]
    ELSE IF r.low > low THEN [low |-> low, high |-> LeastOf(r.low, high)]
    ELSE [low |-> LeastOf(r.high, high), high |-> high]

\* Beginning of the range after the regions from first to j.
Advanced(low, high) ==
    LET first == FirstAbove(low)
        at[j \in (first - 1) .. Len(alloc_list)] ==
            IF j < first THEN low
            ELSE IF alloc_list[j].high >= at[j - 1]
                 THEN LeastOf(alloc_list[j].high, high) ELSE at[j - 1]
    IN at

BreakRange(low, high) ==
    LET n == Len(alloc_list)
        first == FirstAbove(low)
        advanced == Advanced(low, high)
        stop == CHOOSE j \in first .. (n + 1) :
                    /\ j <= n => alloc_list[j].low > advanced[j - 1]
                    /\ \A k \in first .. (j - 1) : alloc_list[k].low <= advanced[k - 1]
        newLow == advanced[stop - 1]
        curr == alloc_list[IF stop > n THEN 1 ELSE stop]
    IN
    IF alloc_list[first].high > low /\ alloc_list[first].low < high
    THEN [low |-> newLow,
          high |-> IF curr.low > newLow THEN LeastOf(curr.low, high) ELSE high]
    ELSE [low |-> low, high |-> high]

-----------------------------------------------------------------------------
(***************************************************************************)
(* Properties.                                                             *)
(***************************************************************************)

\* Forkscan's regions that are not, or not yet, in their place in the list:
\* their mapper is still inside alloc_mmap.
InFlight == {op[c].meta : c \in {m \in Mappers :
                op[m].pc \in {"block", "blockhead", "insert", "head", "munmap"}}}

\* Whoever holds no lock finds the list sorted and free of overlaps, and every
\* page Forkscan has mapped is in it or in the hands of a thread that is about to
\* insert it, however many threads map at the same time (alloc.c:96-131, 245-260).
ListComplete ==
    /\ list_lock = Nobody =>
          \A i \in 1 .. (Len(alloc_list) - 1) : alloc_list[i].high <= alloc_list[i + 1].low
    /\ {p \in Pages : vm[p] \in OwnKinds} =
          UNION {PagesOf(r) : r \in Range(alloc_list) \cup InFlight}
=============================================================================
