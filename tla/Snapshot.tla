------------------------------ MODULE Snapshot ------------------------------
(***************************************************************************)
(* The collector forks while threads create, join and exit threads and map *)
(* stacks for them, and the child works out what it is going to scan       *)
(* (forkscan_child, child.c).                                              *)
(*                                                                         *)
(* The fork copies private memory: the maps, the list of Forkscan's own    *)
(* regions and thread_list.head are those of the moment of the fork, so    *)
(* that the ranges of collect_ranges are computed in the same step.  The   *)
(* thread_data_t structures are in shared memory (util.c:72-76): the walk  *)
(* of add_stack_ranges reads them one by one while the threads, released   *)
(* after the fork, go on.                                                  *)
(***************************************************************************)
EXTENDS ThreadRegistry, ScanRanges

CONSTANTS
    Collector,    \* the garbage collector's thread
    UserMaps,     \* the memory maps of the application that are considered
    MetaBlock,    \* page of the first block of metadata nodes
    TdBatch,      \* page of the first batch of thread_data_t structures
    MaxRanges,    \* MAX_MARK_AND_SWEEP_RANGES
    MaxMaps       \* bound on the calls of alloc_mmap

ASSUME SnapshotAssumption ==
    /\ Mappers = Callers \cup {Collector} /\ Collector \notin Callers
    /\ \A m \in UserMaps : m \in [Pages -> UserKinds] /\ m[MetaBlock] = "none"
                                                      /\ m[TdBatch] = "none"
    /\ {MetaBlock, TdBatch} \subseteq Pages /\ MetaBlock < TdBatch
    /\ MaxRanges \in Nat /\ MaxMaps \in Nat

VARIABLES
    maps,         \* number of calls of alloc_mmap so far
    child         \* the child process of the current round

vars == <<registryVars, allocVars, maps, child>>

-----------------------------------------------------------------------------
NoChild == [pc |-> "none", g_n_ranges |-> 0, at |-> NULL, stacks |-> <<>>,
            running |-> {}, left |-> FALSE]

Init ==
    /\ RegistryInit
    /\ vm \in {[m EXCEPT ![MetaBlock] = "own", ![TdBatch] = "ownshared"] : m \in UserMaps}
    /\ alloc_list = <<Region(MetaBlock, 1), Region(TdBatch, 1)>>
    /\ free_list = BlockNodes - 2
    /\ list_lock = Nobody
    /\ op = [c \in Mappers |-> NoOp]
    /\ maps = 0
    /\ child = NoChild

-----------------------------------------------------------------------------
(***************************************************************************)
(* The calls of alloc_mmap.                                                *)
(***************************************************************************)
AllocMmap(c, size, shared) ==
    /\ maps < MaxMaps
    /\ TakeNode(c, size, shared) \/ MapBlock(c, size, shared)
    /\ maps' = maps + 1

\* forkscan_buffer_makestack, when the pool of stacks is empty.
MapStacks(c) ==
    /\ call[c].pc = "map"
    /\ AllocMmap(c, StackBatch, FALSE)
    /\ UNCHANGED <<registryVars, child>>

StacksMapped(c) ==
    /\ op[c].pc = "done"
    /\ MakeBatch(c, op[c].meta.low)
    /\ op' = [op EXCEPT ![c] = NoOp]
    /\ UNCHANGED <<vm, alloc_list, free_list, list_lock, maps, child>>

\* forkscan_make_aggregate_buffer maps a buffer that is shared with the child ...
Aggregates == {i \in DOMAIN alloc_list : /\ vm[alloc_list[i].low] = "ownshared"
                                         /\ alloc_list[i].low # TdBatch}

MapAggregate ==
    /\ AllocMmap(Collector, 1, TRUE)
    /\ UNCHANGED <<registryVars, child>>

AggregateMapped ==
    /\ op[Collector].pc = "done"
    /\ op' = [op EXCEPT ![Collector] = NoOp]
    /\ UNCHANGED <<vm, alloc_list, free_list, list_lock, registryVars, maps,
                   child>>

\* ... and unmaps one that is too small.
UnmapAggregate ==
    /\ \E i \in Aggregates : MetadataRemove(Collector, i)
    /\ UNCHANGED <<registryVars, maps, child>>

AllocNext ==
    \/ \E c \in Callers : MapStacks(c) \/ StacksMapped(c)
    \/ MapAggregate \/ AggregateMapped \/ UnmapAggregate
    \/ \E c \in Mappers : AllocStep(c) /\ UNCHANGED <<registryVars, maps, child>>

-----------------------------------------------------------------------------
(***************************************************************************)
(* The child.                                                              *)
(***************************************************************************)

\* The stacks of Forkscan that threads run on.
RunningStacks == {td[d].stack : d \in {e \in OfThreads({"active"}) : td[e].ours}}

\* The fork, and collect_ranges on every line of the maps.  Too many ranges end
\* the child.  In between the child sorts the addresses, with nodes from malloc: a
\* heap that grows for them, and the keys that freed nodes may still hold, which can
\* only add roots, are left out.
Fork ==
    /\ child.pc = "none" /\ op[Collector].pc = "idle"
    /\ child' = [pc |-> IF Len(MapIterate) >= MaxRanges THEN "fatal" ELSE "walk",
                 g_n_ranges |-> Len(MapIterate), at |-> head, stacks |-> <<>>,
                 running |-> RunningStacks, left |-> FALSE]
    /\ UNCHANGED <<registryVars, allocVars, maps>>

\* A version that stops at the first thread with a stack of the system.
MutantAddStackRange ==
    /\ child.pc = "walk"
    /\ child' = IF child.at = NULL \/ ~td[child.at].ours
                THEN [child EXCEPT !.pc = "scan", !.at = NULL]
                ELSE [child EXCEPT !.stacks = Append(@, td[child.at].stack),
                                   !.at = td[child.at].next]
    /\ UNCHANGED <<registryVars, allocVars, maps>>

\* One step of add_stack_ranges, which does not look at the size of g_ranges.
AddStackRange ==
    /\ child.pc = "walk"
    /\ child' =
         IF child.at = NULL THEN [child EXCEPT !.pc = "scan"]
         ELSE IF ~td[child.at].ours THEN [child EXCEPT !.at = td[child.at].next]
         ELSE IF child.g_n_ranges + Len(child.stacks) >= MaxRanges
         THEN [child EXCEPT !.pc = "overrun"]
         ELSE [child EXCEPT !.stacks = Append(@, td[child.at].stack),
                            !.at = td[child.at].next]
    /\ UNCHANGED <<registryVars, allocVars, maps>>

\* The child marks, reports and ends, or has failed; the next round forks another.
ChildGone ==
    /\ child.pc \notin {"none", "walk"}
    /\ child' = NoChild
    /\ UNCHANGED <<registryVars, allocVars, maps>>

-----------------------------------------------------------------------------
\* A thread of the parent exits; while the child walks, it takes note.
LeaveList(t) ==
    /\ ListRemove(t)
    /\ child' = [child EXCEPT !.left = @ \/ child.pc = "walk"]
    /\ UNCHANGED <<allocVars, maps>>

Next ==
    \/ RegistryStep /\ UNCHANGED <<allocVars, maps, child>>
    \/ \E t \in Workers : LeaveList(t)
    \/ AllocNext
    \/ Fork
    \/ AddStackRange
    \/ ChildGone

Spec == Init /\ [][Next]_vars

-----------------------------------------------------------------------------
(***************************************************************************)
(* Properties.                                                             *)
(***************************************************************************)
\* Memory of the application on a line of the maps without the lock of stderr.
Scannable == {p \in Pages : vm[p] = "data" /\ \E r \in MapLines : p \in PagesOf(r) /\ IsWanted(r)}

PagesInFlight == UNION {PagesOf(r) : r \in InFlight}

\* Wherever the threads are when the collector forks, also in the middle of a
\* change to the list of Forkscan's regions: the ranges hold every page of the
\* application's writable memory, no page twice, no piece above the maximum, and of
\* Forkscan's own memory only what its mapper had not got into the list yet
\* (alloc.c:96-243, child.c:347-426).
RangesExact ==
    child.pc = "none" /\ op[Collector].pc = "idle" =>
        LET r == MapIterate
            pages == UNION {PagesOf(r[i]) : i \in DOMAIN r} IN
        /\ Scannable \subseteq pages
        /\ pages \subseteq Scannable \cup PagesInFlight
        /\ \A i, j \in DOMAIN r : i # j => PagesOf(r[i]) \cap PagesOf(r[j]) = {}
        /\ \A i \in DOMAIN r : Cardinality(PagesOf(r[i])) \in 1 .. MaxRangeSize

\* If no thread exits while the child walks the list, and no creation has ever
\* failed, the child scans the stack of every thread that ran when it was forked,
\* and no stack twice, although threads are created, joined and recycled meanwhile
\* (child.c:430-445, util.c:80-185).
StacksKept ==
    child.pc = "scan" /\ ~child.left /\ ~failed =>
        /\ child.running \subseteq InSeq(child.stacks)
        /\ Cardinality(InSeq(child.stacks)) = Len(child.stacks)

\* A child that goes on to scan compares exactly the words of a range that lie in no
\* node, each once, however nodes and range overlap: a range that begins or ends
\* inside a node, a node that fills it, neighbouring nodes of both kinds, and no dead
\* nodes at all (child.c:263-322).
RootsExact == child.pc = "scan" => FindRootsExact

\* What the comment of add_stack_ranges promises: "It is safe to iterate over this
\* list because there are no other threads in this process" (child.c:432-433).  The
\* child scans the stack of every thread that ran when it was forked, those at least
\* that are still running when it has walked the list.
StacksScanned ==
    child.pc = "scan" => child.running \cap RunningStacks \subseteq InSeq(child.stacks)
=============================================================================
