----------------------------- MODULE RetireQueue ----------------------------
(***************************************************************************)
(* queue.c: the circular buffer in which a thread keeps the pointers it    *)
(* has retired.  Its owner pushes (forkscan_retire); whoever holds the     *)
(* cleanup lock drains it (generate_working_pointers_list).  Neither takes *)
(* a lock: all they share is the array and the two absolute indices.       *)
(*                                                                         *)
(* idx_head is written by the owner alone, idx_tail by the reader alone;   *)
(* a step is one access to an array slot or one write of an index.  The    *)
(* writes of one thread become visible in the order of the program (the    *)
(* array write before the index write, as the x86 build orders them).      *)
(*                                                                         *)
(* forkscan_queue_push is forkscan_queue_push_bulk of one value, and       *)
(* forkscan_queue_pop is forkscan_queue_pop_bulk of at most one.           *)
(***************************************************************************)
EXTENDS Integers, Sequences

CONSTANTS
    Capacity,   \* number of slots, a power of two (g_forkscan_ptrs_per_thread)
    MaxLen,     \* largest block pushed at once, and largest room to pop into
    MaxPushes   \* bound on the number of pointers pushed

ASSUME CapacityAssumption == Capacity \in Nat \ {0, 1}
ASSUME BoundsAssumption == MaxLen \in Nat /\ MaxPushes \in Nat

VARIABLES
    e,          \* the array
    idx_head,   \* absolute index of the next slot to push to
    idx_tail,   \* absolute index of the oldest pointer, plus Capacity
    prod,       \* the owner: its pc, the block it pushes, the slots written
    cons,       \* the reader: its pc, the locals head and size, the values
    delivered   \* the values of all completed pops

vars == <<e, idx_head, idx_tail, prod, cons, delivered>>

\* INDEXIFY.
Indexify(abs_idx) == abs_idx % Capacity

\* A version that would use the last slot too.
MutantAvailable == idx_tail - idx_head

\* forkscan_queue_available: the empty slots, one of which is never used; the
\* queue is full (forkscan_queue_is_full) when there is none.
Available == idx_tail - idx_head - 1

\* The number of pointers between the tail and an index of the head.
Size(head) == head - (idx_tail - Capacity)

\* forkscan_queue_init.  The pointers are numbered in the order they are pushed.
Init ==
    /\ e = [i \in 0 .. (Capacity - 1) |-> 0]
    /\ idx_head = 0
    /\ idx_tail = Capacity
    /\ prod = [pc |-> "idle", len |-> 0, k |-> 0]
    /\ cons = [pc |-> "idle", head |-> 0, size |-> 0, count |-> 0,
               values |-> <<>>]
    /\ delivered = <<>>

-----------------------------------------------------------------------------
(***************************************************************************)
(* The owner.  It verifies that there is space before it pushes:           *)
(* forkscan_retire does not return while the queue is full.                *)
(***************************************************************************)
BeginPush(len) ==
    /\ prod.pc = "idle"
    /\ len > 0 /\ len <= Available
    /\ idx_head + len <= MaxPushes
    /\ prod' = [pc |-> "write", len |-> len, k |-> 0]
    /\ UNCHANGED <<e, idx_head, idx_tail, cons, delivered>>

\* The value of the k-th pointer of the block.
Pointer(k) == idx_head + k + 1

WriteSlot ==
    /\ prod.pc = "write" /\ prod.k < prod.len
    /\ e' = [e EXCEPT ![Indexify(idx_head + prod.k)] = Pointer(prod.k)]
    /\ prod' = [prod EXCEPT !.k = @ + 1]
    /\ UNCHANGED <<idx_head, idx_tail, cons, delivered>>

PublishHead ==
    /\ prod.pc = "write" /\ prod.k = prod.len
    /\ idx_head' = idx_head + prod.len
    /\ prod' = [pc |-> "idle", len |-> 0, k |-> 0]
    /\ UNCHANGED <<e, idx_tail, cons, delivered>>

-----------------------------------------------------------------------------
(***************************************************************************)
(* The reader: forkscan_queue_pop_bulk into a buffer with room for len.    *)
(* Nobody calls forkscan_queue_pop, which takes one pointer and does not   *)
(* look whether there is one.                                              *)
(***************************************************************************)

\* A version that leaves out the second piece.
MutantCopyCount(head, start) ==
    IF head < start THEN Capacity - start ELSE head - start

\* The elements the two memcpy calls move, from the array offsets of the head
\* and of the oldest pointer: to the end of the array and then from its
\* beginning when the head lies below the start, and in one piece otherwise.
CopyCount(head, start) ==
    IF head < start THEN (Capacity - start) + head ELSE head - start

\* Cache idx_head, and pretend that fewer pointers were pushed when there are
\* more than fit.  Nothing happens on an empty queue.
BeginPop(len) ==
    /\ cons.pc = "idle"
    /\ Size(idx_head) # 0
    /\ LET size == IF Size(idx_head) > len THEN len ELSE Size(idx_head)
           head == idx_head - (Size(idx_head) - size) IN
       cons' = [pc |-> "copy", head |-> head, size |-> size,
                count |-> CopyCount(Indexify(head), Indexify(idx_tail)),
                values |-> <<>>]
    /\ UNCHANGED <<e, idx_head, idx_tail, prod, delivered>>

CopySlot ==
    /\ cons.pc = "copy" /\ Len(cons.values) < cons.count
    /\ cons' = [cons EXCEPT
                  !.values = Append(@, e[Indexify(idx_tail + Len(@))])]
    /\ UNCHANGED <<e, idx_head, idx_tail, prod, delivered>>

\* A version that takes the index as it is now for the one it cached.
MutantPublishTail ==
    /\ cons.pc = "copy" /\ Len(cons.values) = cons.count
    /\ idx_tail' = idx_head + Capacity
    /\ delivered' = delivered \o cons.values
    /\ cons' = [pc |-> "idle", head |-> 0, size |-> 0, count |-> 0,
                values |-> <<>>]
    /\ UNCHANGED <<e, idx_head, prod>>

PublishTail ==
    /\ cons.pc = "copy" /\ Len(cons.values) = cons.count
    /\ idx_tail' = cons.head + Capacity
    /\ delivered' = delivered \o cons.values
    /\ cons' = [pc |-> "idle", head |-> 0, size |-> 0, count |-> 0,
                values |-> <<>>]
    /\ UNCHANGED <<e, idx_head, prod>>

-----------------------------------------------------------------------------
Owner ==
    \/ \E len \in 1 .. MaxLen : BeginPush(len)
    \/ WriteSlot
    \/ PublishHead

Reader ==
    \/ \E len \in 0 .. MaxLen : BeginPop(len)
    \/ CopySlot
    \/ PublishTail

Next == Owner \/ Reader

Spec == Init /\ [][Next]_vars

-----------------------------------------------------------------------------
(***************************************************************************)
(* Properties.                                                             *)
(***************************************************************************)

\* Every variable has its type.
TypeOK ==
    /\ e \in [0 .. (Capacity - 1) -> Nat]
    /\ idx_head \in Nat
    /\ idx_tail \in Nat
    /\ prod \in [pc : {"idle", "write"}, len : Nat, k : Nat]
    /\ cons \in [pc : {"idle", "copy"}, head : Nat, size : Nat, count : Nat,
                 values : Seq(Nat)]
    /\ delivered \in Seq(Nat)

\* The pointers in the queue, oldest first.
Contents ==
    [i \in 1 .. Size(idx_head) |-> e[Indexify(idx_tail - Capacity + i - 1)]]

\* The assertions of queue.c on the indices: the head stays below the tail
\* whatever the two threads do, so there is always an empty slot.
IndicesApart == idx_tail - Capacity <= idx_head /\ idx_head < idx_tail

\* A pop that is under way has copied a prefix of the queue, unharmed by the
\* pushes it overlaps with, and the two memcpy calls together move as many
\* pointers as the call reports.
CopyIsPrefix ==
    cons.pc = "copy" =>
        /\ cons.count = cons.size
        /\ cons.size <= Len(Contents)
        /\ \A i \in 1 .. Len(cons.values) : cons.values[i] = Contents[i]

\* The contents and the deliveries, as an atomic bounded queue sees them.
Fifo == INSTANCE PtrFifo WITH Bound <- Capacity - 1, queue <- Contents

\* queue.h calls the queue "thread-safe, linearizable [...] assuming
\* single-reader, single-writer usage": it implements an atomic bounded queue.
FifoSpec == Fifo!Spec
=============================================================================
