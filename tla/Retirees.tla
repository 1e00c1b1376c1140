------------------------------ MODULE Retirees ------------------------------
(***************************************************************************)
(* The back half of a reclamation round: the garbage-collector thread      *)
(* hands a scanned buffer of addresses to the application threads, and     *)
(* each of them frees a share of it from inside its own calls.             *)
(*                                                                         *)
(*   buffer.c    aggregate buffers, the list of retiree buffers, reference *)
(*               counts, the pool of buffers for reuse                     *)
(*   util.c      forkscan_util_free_ptrs, run by every application thread  *)
(*   forkscan.c  aggregate_addrs and the tail of reclaim_iteration, run by *)
(*               the collector thread alone                                *)
(*                                                                         *)
(* What happens in between (the signals, the fork, the scan) is the        *)
(* subject of other modules: here Scan marks any subset of the buffer.     *)
(*                                                                         *)
(* One step is one critical section of g_retiree_mutex, one access to the  *)
(* volatile free_idx, or one slot.  Pieces of the code that touch only     *)
(* what their thread owns are part of the step before them.                *)
(***************************************************************************)
EXTENDS Integers, Sequences, FiniteSets

CONSTANTS
    Threads,          \* the application threads (thread_data_t)
    Addrs,            \* the addresses the allocator hands out
    Buffers,          \* the aggregate buffers the process can have mapped
    NULL,             \* the null pointer
    RangeSize,        \* FREE_RANGE_SZ
    PageAddrs,        \* PAGESIZE / sizeof(size_t), the capacity granule
    DefaultCapacity,  \* capacity of the reclaimer buffers of a collection
    MaxCapacity,      \* bound on the capacity of an aggregate buffer
    MaxRounds         \* bound on the number of reclamation rounds

ASSUME SizesAssumption ==
    /\ RangeSize \in Nat \ {0}
    /\ PageAddrs \in Nat \ {0}
    /\ DefaultCapacity \in Nat \ {0}
    /\ MaxCapacity \in Nat \ {0}
    /\ MaxRounds \in Nat

ASSUME NullAssumption == NULL \notin Buffers /\ NULL \notin Addrs

ASSUME FiniteAssumption == IsFiniteSet(Threads) /\ IsFiniteSet(Addrs)

VARIABLES
    heap,           \* who owns each address: the application, Forkscan, nobody
    buf,            \* the addr_buffer_t structures
    retirees,       \* the list from g_first_retiree_buffer along ->next
    g_last,         \* g_last_retiree_buffer
    available,      \* the list from g_available_aggregates along ->next
    g_uncollected,  \* g_uncollected_data
    td,             \* the retiree fields of each thread_data_t, and its pc
    gc              \* the locals of reclaim_iteration, and its pc

vars == <<heap, buf, retirees, g_last, available, g_uncollected, td, gc>>

-----------------------------------------------------------------------------
Index == 0 .. (MaxCapacity - 1)

(***************************************************************************)
(* The contents of a slot of addrs[].  The low bits of the word are its    *)
(* tag: 0x1 for an address found referenced by the scan ("marked"), the    *)
(* word 0x2 for an address already taken to be freed ("gone").  A word     *)
(* never written since mmap() is zero.                                     *)
(***************************************************************************)
Tags == {"zero", "clean", "marked", "gone"}
Slot == [tag : Tags, addr : Addrs \cup {NULL}]
Zero == [tag |-> "zero", addr |-> NULL]
Gone == [tag |-> "gone", addr |-> NULL]
Clean(a) == [tag |-> "clean", addr |-> a]
Marked(a) == [tag |-> "marked", addr |-> a]

Buffer == [slots : [Index -> Slot], n_addrs : 0 .. MaxCapacity,
           capacity : 0 .. MaxCapacity, ref_count : Int,
           free_idx : 0 .. MaxCapacity]

Unmapped == [slots |-> [i \in Index |-> Zero], n_addrs |-> 0, capacity |-> 0,
             ref_count |-> 0, free_idx |-> 0]

IsMapped(b) == buf[b].capacity > 0

MinOf(x, y) == IF x < y THEN x ELSE y
MaxOf(x, y) == IF x < y THEN y ELSE x

\* Round a capacity up to whole pages of addresses.
RoundUp(c) == ((c + PageAddrs - 1) \div PageAddrs) * PageAddrs

\* The elements of a sequence.
Elems(seq) == {seq[k] : k \in 1 .. Len(seq)}

-----------------------------------------------------------------------------
(***************************************************************************)
(* The pool of aggregate buffers.                                          *)
(***************************************************************************)

\* forkscan_make_aggregate_buffer: reuse the first available buffer that is
\* large enough and unmap the ones before it; when none is large enough,
\* unmap them all and map a new one.
Fits(req) ==
    {k \in 1 .. Len(available) : buf[available[k]].capacity >= RoundUp(req)}

FirstFit(req) == CHOOSE k \in Fits(req) : \A j \in Fits(req) : k <= j

Dropped(req) ==
    IF Fits(req) = {} THEN Elems(available)
    ELSE {available[k] : k \in 1 .. (FirstFit(req) - 1)}

AggregateChoices(req) ==
    IF Fits(req) = {}
    THEN {b \in Buffers : ~IsMapped(b)} \cup Dropped(req)
    ELSE {available[FirstFit(req)]}

RestAvailable(req) ==
    IF Fits(req) = {} THEN <<>>
    ELSE SubSeq(available, FirstFit(req) + 1, Len(available))

Aggregate(req, ab) ==
    IF Fits(req) = {} THEN [Unmapped EXCEPT !.capacity = RoundUp(req)]
    ELSE [buf[ab] EXCEPT !.n_addrs = 0]

\* The buffers after make_aggregate_buffer(req) returned ab and its caller
\* set *ab to contents.
BufAfterMake(req, ab, contents) ==
    [b \in Buffers |-> IF b = ab THEN contents
                       ELSE IF b \in Dropped(req) THEN Unmapped ELSE buf[b]]

-----------------------------------------------------------------------------
Init ==
    /\ heap = [a \in Addrs |-> "free"]
    /\ buf = [b \in Buffers |-> Unmapped]
    /\ retirees = <<>>
    /\ g_last = NULL
    /\ available = <<>>
    /\ g_uncollected = NULL
    /\ td = [t \in Threads |-> [pc |-> "idle", ab |-> NULL, begin |-> 0,
                                end |-> 0, seen |-> 0, s |-> Zero]]
    /\ gc = [pc |-> "wait", working |-> NULL, i |-> 0, round |-> 0]

-----------------------------------------------------------------------------
(***************************************************************************)
(* The application, as far as the allocator sees it.                       *)
(***************************************************************************)

\* forkscan_malloc.
Malloc(a) ==
    /\ heap[a] = "free"
    /\ heap' = [heap EXCEPT ![a] = "allocated"]
    /\ UNCHANGED <<buf, retirees, g_last, available, g_uncollected, td, gc>>

\* forkscan_free of an address that was not retired.
Free(a) ==
    /\ heap[a] = "allocated"
    /\ heap' = [heap EXCEPT ![a] = "free"]
    /\ UNCHANGED <<buf, retirees, g_last, available, g_uncollected, td, gc>>

-----------------------------------------------------------------------------
(***************************************************************************)
(* forkscan_util_free_ptrs.  "idle" is the head of its loop, and also any  *)
(* point outside a call: the number of iterations of a call only decides   *)
(* when the thread goes on with something else.                            *)
(***************************************************************************)
Holds(t, b) == td[t].ab = b

\* forkscan_buffer_get_retiree_buffer, when there is one.
GetRetiree(t) ==
    /\ td[t].pc = "idle" /\ td[t].ab = NULL
    /\ retirees # <<>>
    /\ td' = [td EXCEPT ![t].ab = Head(retirees)]
    /\ buf' = [buf EXCEPT ![Head(retirees)].ref_count = @ + 1]
    /\ UNCHANGED <<heap, retirees, g_last, available, g_uncollected, gc>>

\* A version that gives the buffer up when its last range is left.
MutantCheckRange(t) ==
    /\ td[t].pc = "idle" /\ td[t].ab # NULL
    /\ td[t].begin = td[t].end
    /\ td' = [td EXCEPT ![t].pc =
                 IF buf[td[t].ab].free_idx + RangeSize >= buf[td[t].ab].n_addrs
                 THEN "pop" ELSE "read"]
    /\ UNCHANGED <<heap, buf, retirees, g_last, available, g_uncollected, gc>>

\* The range in hand is used up: look whether the buffer has more.
CheckRange(t) ==
    /\ td[t].pc = "idle" /\ td[t].ab # NULL
    /\ td[t].begin = td[t].end
    /\ td' = [td EXCEPT ![t].pc =
                 IF buf[td[t].ab].free_idx >= buf[td[t].ab].n_addrs
                 THEN "pop" ELSE "read"]
    /\ UNCHANGED <<heap, buf, retirees, g_last, available, g_uncollected, gc>>

\* free_idx is volatile: it is read a second time for the range.
ReadFreeIdx(t) ==
    /\ td[t].pc = "read"
    /\ td' = [td EXCEPT ![t].seen = buf[td[t].ab].free_idx, ![t].pc = "cas"]
    /\ UNCHANGED <<heap, buf, retirees, g_last, available, g_uncollected, gc>>

\* A version that does not stop at the last address.
MutantRangeEnd(b, begin) == begin + RangeSize

RangeEnd(b, begin) == MinOf(buf[b].n_addrs, begin + RangeSize)

\* A claim that does not look whether another thread moved free_idx.
MutantClaimBlind(t) ==
    /\ td[t].pc = "cas"
    /\ LET b == td[t].ab
           end == RangeEnd(b, td[t].seen) IN
       /\ td' = [td EXCEPT ![t].begin = td[t].seen, ![t].end = end,
                           ![t].pc = "take"]
       /\ buf' = [buf EXCEPT ![b].free_idx = end]
    /\ UNCHANGED <<heap, retirees, g_last, available, g_uncollected, gc>>

\* The compare-and-swap on free_idx.
ClaimRange(t) ==
    /\ td[t].pc = "cas"
    /\ LET b == td[t].ab
           end == RangeEnd(b, td[t].seen) IN
       IF buf[b].free_idx = td[t].seen
       THEN /\ td' = [td EXCEPT ![t].begin = td[t].seen, ![t].end = end,
                                ![t].pc = "take", ![t].seen = 0]
            /\ buf' = [buf EXCEPT ![b].free_idx = end]
       ELSE /\ td' = [td EXCEPT ![t].pc = "idle", ![t].seen = 0]
            /\ UNCHANGED buf
    /\ UNCHANGED <<heap, retirees, g_last, available, g_uncollected, gc>>

AtSlot(t) ==
    \/ td[t].pc = "take"
    \/ td[t].pc = "idle" /\ td[t].ab # NULL /\ td[t].begin # td[t].end

\* Take the next address of the range, unless it is marked.
TakeSlot(t) ==
    /\ AtSlot(t)
    /\ td[t].begin < buf[td[t].ab].capacity
    /\ LET b == td[t].ab
           i == td[t].begin
           s == buf[b].slots[i] IN
       IF s.tag = "marked"
       THEN /\ td' = [td EXCEPT ![t].begin = i + 1, ![t].pc = "idle"]
            /\ UNCHANGED buf
       ELSE /\ td' = [td EXCEPT ![t].begin = i + 1, ![t].pc = "free",
                                ![t].s = s]
            /\ buf' = [buf EXCEPT ![b].slots[i] = Gone]
    /\ UNCHANGED <<heap, retirees, g_last, available, g_uncollected, gc>>

\* A read behind the end of addrs[]: what follows is undefined.
TakeBeyond(t) ==
    /\ AtSlot(t)
    /\ td[t].begin >= buf[td[t].ab].capacity
    /\ td' = [td EXCEPT ![t].pc = "wild"]
    /\ UNCHANGED <<heap, buf, retirees, g_last, available, g_uncollected, gc>>

\* memset and FREE.  FREE of a null pointer does nothing; FREE of a word that
\* is no address, or of an address that is free already, is undefined.
FreeSlot(t) ==
    /\ td[t].pc = "free"
    /\ LET s == td[t].s
           held == s.tag \in {"clean", "marked"} /\ heap[s.addr] # "free" IN
       /\ td' = [td EXCEPT ![t].s = Zero,
                           ![t].pc = IF held \/ s.tag = "zero" THEN "idle"
                                     ELSE "wild"]
       /\ heap' = IF held THEN [heap EXCEPT ![s.addr] = "free"] ELSE heap
    /\ UNCHANGED <<buf, retirees, g_last, available, g_uncollected, gc>>

\* The list without its k-th element.
Splice(seq, k) ==
    [j \in 1 .. (Len(seq) - 1) |-> IF j < k THEN seq[j] ELSE seq[j + 1]]

\* A version that leaves g_last_retiree_buffer alone when the list empties.
MutantPopKeepsLast(t) ==
    /\ td[t].pc = "pop"
    /\ \/ /\ td[t].ab \notin Elems(retirees)
          /\ UNCHANGED retirees
       \/ \E k \in 1 .. Len(retirees) :
             /\ retirees[k] = td[t].ab
             /\ retirees' = Splice(retirees, k)
    /\ td' = [td EXCEPT ![t].pc = "unref"]
    /\ UNCHANGED <<heap, buf, g_last, available, g_uncollected, gc>>

\* forkscan_buffer_pop_retiree_buffer: splice the buffer out if it is still in
\* the list; only an empty list resets g_last_retiree_buffer.
PopRetiree(t) ==
    /\ td[t].pc = "pop"
    /\ \/ /\ td[t].ab \notin Elems(retirees)
          /\ UNCHANGED <<retirees, g_last>>
       \/ \E k \in 1 .. Len(retirees) :
             /\ retirees[k] = td[t].ab
             /\ retirees' = Splice(retirees, k)
             /\ g_last' = IF Len(retirees) = 1 THEN NULL ELSE g_last
    /\ td' = [td EXCEPT ![t].pc = "unref"]
    /\ UNCHANGED <<heap, buf, available, g_uncollected, gc>>

\* A version that does not look at the other references.
MutantIsLastRef(b) == buf[b].free_idx >= buf[b].n_addrs

\* forkscan_buffer_unref_buffer, and forkscan_release_buffer for the last
\* reference to a buffer that has been handed out entirely.  The indices of
\* the range are reset here; the code resets them when the thread gets its
\* next buffer and does not look at them before.
IsLastRef(b) ==
    /\ buf[b].ref_count = 1
    /\ buf[b].free_idx >= buf[b].n_addrs

\* A version that never releases the buffer.
MutantNeverReleased(b) == available

AvailableAfterUnref(b) ==
    IF IsLastRef(b) THEN <<b>> \o available ELSE available

UnrefRetiree(t) ==
    /\ td[t].pc = "unref"
    /\ buf' = [buf EXCEPT ![td[t].ab].ref_count = @ - 1]
    /\ available' = AvailableAfterUnref(td[t].ab)
    /\ td' = [td EXCEPT ![t].ab = NULL, ![t].begin = 0, ![t].end = 0,
                        ![t].pc = "idle"]
    /\ UNCHANGED <<heap, retirees, g_last, g_uncollected, gc>>

\* forkscan_thread_cleanup: a thread that exits keeps its reference to the
\* buffer and the rest of its range.
ThreadExit(t) ==
    /\ td[t].pc = "idle"
    /\ td' = [td EXCEPT ![t].pc = "exited"]
    /\ UNCHANGED <<heap, buf, retirees, g_last, available, g_uncollected, gc>>

-----------------------------------------------------------------------------
(***************************************************************************)
(* The collector thread.                                                   *)
(***************************************************************************)

\* The addresses held for the next round.
Carried ==
    IF g_uncollected = NULL THEN {}
    ELSE {buf[g_uncollected].slots[i].addr :
             i \in 0 .. (buf[g_uncollected].n_addrs - 1)}

\* The ways to lay out the addresses of a set in a buffer.
Layouts(S) ==
    {f \in [0 .. (Cardinality(S) - 1) -> S] : \A a \in S : \E i \in DOMAIN f : f[i] = a}

\* The buffer with the addresses of the layout f copied into it.
Filled(ab, f, n) ==
    [ab EXCEPT !.slots = [i \in Index |-> IF i < n THEN Clean(f[i])
                                          ELSE ab.slots[i]],
               !.n_addrs = n]

\* aggregate_addrs for a collection of the retired addresses S: the old buffer
\* of uncollected addresses is used again if it has room, and is otherwise
\* copied to a larger one and released.  The order of the addresses is the
\* order the child sorts them into.
Collect(S) ==
    /\ gc.pc = "wait" /\ gc.round < MaxRounds
    /\ \A a \in S : heap[a] = "allocated"
    /\ LET n == Cardinality(S \cup Carried)
           old == g_uncollected
           req == MaxOf(n, DefaultCapacity) IN
       /\ n # 0
       /\ \E f \in Layouts(S \cup Carried) :
          \/ /\ old # NULL /\ buf[old].capacity > n
             /\ buf' = [buf EXCEPT ![old] = Filled(@, f, n)]
             /\ gc' = [gc EXCEPT !.pc = "scan", !.working = old, !.round = @ + 1]
             /\ UNCHANGED available
          \/ /\ old # NULL => buf[old].capacity <= n
             /\ RoundUp(req) <= MaxCapacity
             /\ \E ab \in AggregateChoices(req) :
                /\ buf' = BufAfterMake(req, ab, Filled(Aggregate(req, ab), f, n))
                /\ gc' = [gc EXCEPT !.pc = "scan", !.working = ab, !.round = @ + 1]
             /\ available' = IF old = NULL THEN RestAvailable(req)
                             ELSE <<old>> \o RestAvailable(req)
    /\ heap' = [a \in Addrs |-> IF a \in S THEN "retired" ELSE heap[a]]
    /\ g_uncollected' = NULL
    /\ UNCHANGED <<retirees, g_last, td>>

\* The child marks the addresses it finds referenced.
Scan(M) ==
    /\ gc.pc = "scan"
    /\ M \subseteq 0 .. (buf[gc.working].n_addrs - 1)
    /\ buf' = [buf EXCEPT ![gc.working].slots =
                  [i \in Index |-> IF i \in M THEN Marked(@[i].addr) ELSE @[i]]]
    /\ gc' = [gc EXCEPT !.pc = "push"]
    /\ UNCHANGED <<heap, retirees, g_last, available, g_uncollected, td>>

\* The list after last->next = b.  Were last not the last buffer of the list,
\* what follows it would be cut off; were it not in the list, b would not be
\* either.
AppendAfter(list, last, b) ==
    CASE last = NULL -> <<b>>
      [] last # NULL /\ last \in Elems(list) ->
            Append(SubSeq(list, 1, CHOOSE k \in 1 .. Len(list) : list[k] = last), b)
      [] OTHER -> list

\* A version that publishes the buffer without a reference for the collector.
MutantPushUncounted ==
    /\ gc.pc = "push"
    /\ LET b == gc.working IN
       /\ buf' = [buf EXCEPT ![b].ref_count = 0, ![b].free_idx = 0]
       /\ retirees' = Append(retirees, b)
       /\ g_last' = b
    /\ gc' = [gc EXCEPT !.pc = "make"]
    /\ UNCHANGED <<heap, available, g_uncollected, td>>

\* forkscan_buffer_push_back.
PushBack ==
    /\ gc.pc = "push"
    /\ LET b == gc.working IN
       /\ buf' = [buf EXCEPT ![b].ref_count = 1, ![b].free_idx = 0]
       /\ retirees' = AppendAfter(retirees, g_last, b)
       /\ g_last' = b
    /\ gc' = [gc EXCEPT !.pc = "make"]
    /\ UNCHANGED <<heap, available, g_uncollected, td>>

\* A buffer for the addresses that stay uncollected.
MakeUncollected ==
    /\ gc.pc = "make"
    /\ LET req == buf[gc.working].capacity IN
       \E ab \in AggregateChoices(req) :
          /\ buf' = BufAfterMake(req, ab, Aggregate(req, ab))
          /\ g_uncollected' = ab
          /\ available' = RestAvailable(req)
    /\ gc' = [gc EXCEPT !.pc = "carry", !.i = 0]
    /\ UNCHANGED <<heap, retirees, g_last, td>>

\* Carry the marked addresses over to the next round, one slot at a time.
CarrySlot ==
    /\ gc.pc = "carry"
    /\ gc.i < buf[gc.working].n_addrs
    /\ LET s == buf[gc.working].slots[gc.i]
           n == buf[g_uncollected].n_addrs IN
       buf' = IF s.tag = "marked"
              THEN [buf EXCEPT ![g_uncollected].slots[n] = Clean(s.addr),
                               ![g_uncollected].n_addrs = n + 1]
              ELSE buf
    /\ gc' = [gc EXCEPT !.i = @ + 1]
    /\ UNCHANGED <<heap, retirees, g_last, available, g_uncollected, td>>

\* The collector gives up its own reference.
UnrefWorking ==
    /\ gc.pc = "carry"
    /\ gc.i >= buf[gc.working].n_addrs
    /\ buf' = [buf EXCEPT ![gc.working].ref_count = @ - 1]
    /\ available' = AvailableAfterUnref(gc.working)
    /\ gc' = [gc EXCEPT !.pc = "wait", !.working = NULL, !.i = 0]
    /\ UNCHANGED <<heap, retirees, g_last, g_uncollected, td>>

-----------------------------------------------------------------------------
FreePtrs(t) ==
    \/ GetRetiree(t)
    \/ CheckRange(t)
    \/ ReadFreeIdx(t)
    \/ ClaimRange(t)
    \/ TakeSlot(t)
    \/ TakeBeyond(t)
    \/ FreeSlot(t)
    \/ PopRetiree(t)
    \/ UnrefRetiree(t)

Collector ==
    \/ \E S \in SUBSET Addrs : Collect(S)
    \/ \E M \in SUBSET Index : Scan(M)
    \/ PushBack
    \/ MakeUncollected
    \/ CarrySlot
    \/ UnrefWorking

Next ==
    \/ \E a \in Addrs : Malloc(a) \/ Free(a)
    \/ \E t \in Threads : FreePtrs(t) \/ ThreadExit(t)
    \/ Collector

Spec == Init /\ [][Next]_vars

(***************************************************************************)
(* Fairness: the scheduler lets a thread finish the iteration of           *)
(* forkscan_util_free_ptrs it is in, and the collector thread is never     *)
(* blocked for good between PushBack and UnrefWorking.  Nothing makes a    *)
(* thread begin another iteration: only forkscan_retire, and yield while   *)
(* it waits for the cleanup lock, call forkscan_util_free_ptrs             *)
(* (frontend.c:117 and 201).                                               *)
(***************************************************************************)
Fairness ==
    /\ \A t \in Threads : WF_vars(td[t].pc # "idle" /\ FreePtrs(t))
    /\ WF_vars(PushBack \/ MakeUncollected \/ CarrySlot \/ UnrefWorking)

FairSpec == Spec /\ Fairness

-----------------------------------------------------------------------------
(***************************************************************************)
(* Properties.                                                             *)
(***************************************************************************)
PcValues == {"idle", "read", "cas", "take", "free", "pop", "unref", "exited",
             "wild"}

\* Every variable has its type.
TypeOK ==
    /\ heap \in [Addrs -> {"free", "allocated", "retired"}]
    /\ buf \in [Buffers -> Buffer]
    /\ retirees \in Seq(Buffers)
    /\ g_last \in Buffers \cup {NULL}
    /\ available \in Seq(Buffers)
    /\ g_uncollected \in Buffers \cup {NULL}
    /\ td \in [Threads -> [pc : PcValues, ab : Buffers \cup {NULL},
                           begin : 0 .. MaxCapacity, end : 0 .. MaxCapacity,
                           seen : 0 .. MaxCapacity, s : Slot]]
    /\ gc \in [pc : {"wait", "scan", "push", "make", "carry"},
               working : Buffers \cup {NULL}, i : 0 .. MaxCapacity,
               round : 0 .. MaxRounds]

\* The references to b that somebody will still give up: those of the threads
\* (an exited thread never does), and the collector's while it carries over.
Holders(b) == {t \in Threads : Holds(t, b)}
CollectorRef(b) ==
    IF gc.working = b /\ gc.pc \in {"make", "carry"} THEN 1 ELSE 0

\* The reference count of a buffer is the number of its holders, whatever the
\* interleaving of get, push_back and unref (buffer.c:166-227).
RefCountExact ==
    \A b \in Buffers : (b \in Elems(retirees) \/ Holders(b) # {})
        => buf[b].ref_count = Cardinality(Holders(b)) + CollectorRef(b)

\* The list of retiree buffers stays in order: no buffer is in it twice, and
\* g_last_retiree_buffer is its last one.  buffer.c:176 asks "What if when the
\* buff was removed from the list, it wasn't at the front?": a buffer that a
\* thread holds is at the front of the list or no longer in it.
ListSound ==
    /\ \A j, k \in 1 .. Len(retirees) : retirees[j] = retirees[k] => j = k
    /\ g_last = IF retirees = <<>> THEN NULL ELSE retirees[Len(retirees)]
    /\ \A t \in Threads : td[t].ab \in Elems(retirees) => td[t].ab = Head(retirees)

\* forkscan_release_buffer only ever gets a buffer that nobody can reach: one
\* in the pool for reuse is not in the list of retirees (the asserts at
\* buffer.c:150), not held by a thread, and not in use by the collector; and it
\* is in the pool once.
ReleaseSafe ==
    /\ \A b \in Elems(available) :
          /\ b \notin Elems(retirees)
          /\ Holders(b) = {}
          /\ b # gc.working /\ b # g_uncollected
          /\ IsMapped(b) /\ buf[b].ref_count = 0
    /\ \A j, k \in 1 .. Len(available) : available[j] = available[k] => j = k

(***************************************************************************)
(* A thread that claims the empty range behind the last address (the race  *)
(* between the two reads of free_idx) goes on to slots it does not own.    *)
(* SlotUntagged below is false because of it; what the design otherwise    *)
(* guarantees is stated for the states in which no thread has done so.     *)
(***************************************************************************)
Overran(t) ==
    \/ td[t].pc = "wild"
    \/ td[t].begin > td[t].end
    \/ td[t].pc = "take" /\ td[t].begin = td[t].end

NoOverrun == \A t \in Threads : ~Overran(t)

\* The assertion of forkscan_util_free_ptrs on the word it is about to free,
\* assert(0 == (s & 0x3)).
SlotUntagged ==
    \A t \in Threads : td[t].pc = "free" => td[t].s.tag \in {"clean", "zero"}

\* The places where an address waits for its collection: in the buffer being
\* scanned, in the marked slots still to carry over, among the uncollected
\* addresses, in a slot not handed out yet, in a thread's range, or in the
\* hands of a thread that is about to free it.
PlacesInWorking(a) ==
    IF gc.pc = "wait" THEN {}
    ELSE {i \in 0 .. (buf[gc.working].n_addrs - 1) :
             /\ buf[gc.working].slots[i].addr = a
             /\ \/ gc.pc \in {"scan", "push"}
                \/ buf[gc.working].slots[i].tag = "marked"
             /\ gc.pc = "carry" => gc.i <= i}

PlacesUncollected(a) ==
    IF g_uncollected = NULL THEN {}
    ELSE {i \in 0 .. (buf[g_uncollected].n_addrs - 1) :
             buf[g_uncollected].slots[i].addr = a}

PlacesListed(a) ==
    {p \in Elems(retirees) \X Index :
        LET b == p[1]
            i == p[2] IN
        /\ buf[b].free_idx <= i /\ i < buf[b].n_addrs
        /\ buf[b].slots[i] = Clean(a)}

PlacesClaimed(a) ==
    {p \in Threads \X Index :
        LET t == p[1]
            i == p[2] IN
        /\ td[t].ab # NULL
        /\ td[t].begin <= i /\ i < td[t].end
        /\ buf[td[t].ab].slots[i] = Clean(a)}

PlacesFreeing(a) == {t \in Threads : td[t].pc = "free" /\ td[t].s = Clean(a)}

Places(a) == Cardinality(PlacesInWorking(a)) + Cardinality(PlacesUncollected(a))
           + Cardinality(PlacesListed(a)) + Cardinality(PlacesClaimed(a))
           + Cardinality(PlacesFreeing(a))

\* Every retired address waits in exactly one place and no other address waits
\* anywhere: none is lost, none is freed twice or while it is marked, none is
\* freed after the allocator has handed it out again, whatever the interleaving
\* of the threads' ranges with the collector's copy (util.c:232-279,
\* forkscan.c:231-246).
Conservation ==
    NoOverrun =>
        \A a \in Addrs : Places(a) = IF heap[a] = "retired" THEN 1 ELSE 0

(***************************************************************************)
(* What the freeing needs of the application.  A thread that calls only    *)
(* forkscan_malloc and forkscan_free after it has got a buffer keeps its   *)
(* range and its reference for good, as does one that makes no call.       *)
(***************************************************************************)

\* Some thread goes on retiring.
SomebodyRetires == \E t \in Threads : WF_vars(FreePtrs(t))

\* Every thread that has a buffer in hand goes on retiring until it has not.
HoldersRetire == \A t \in Threads : WF_vars(td[t].ab # NULL /\ FreePtrs(t))

NobodyExits == \A t \in Threads : td[t].pc # "exited"

Unmarked(a) == \E p \in PlacesListed(a) : TRUE

\* An address that the scan did not mark is freed in the end, if somebody goes on
\* retiring and nobody stops retiring or exits with a buffer in hand, whoever
\* claims which range (util.c:232-279, buffer.c:166-227).
UnmarkedFreed ==
    [](NoOverrun /\ NobodyExits) /\ SomebodyRetires /\ HoldersRetire =>
        \A a \in Addrs : Unmarked(a) ~> heap[a] = "free"

\* Under the same conditions a buffer that has been handed out entirely leaves the
\* list and is released for reuse (buffer.c:166-227).
SpentBuffersReleased ==
    [](NoOverrun /\ NobodyExits) /\ SomebodyRetires /\ HoldersRetire =>
        \A b \in Buffers :
            (b \in Elems(retirees) /\ buf[b].free_idx >= buf[b].n_addrs)
                ~> (b \in Elems(available) \/ ~IsMapped(b))
=============================================================================
