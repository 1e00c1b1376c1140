------------------------------- MODULE PtrFifo ------------------------------
(***************************************************************************)
(* What queue.h promises of a thread's list of retired pointers: a bounded *)
(* first-in first-out queue with one writer and one reader at a time, each *)
(* operation taking effect at one instant.                                 *)
(***************************************************************************)
EXTENDS Integers, Sequences

CONSTANT Bound  \* the most pointers the queue may hold

VARIABLES
    queue,      \* the pointers in the queue, oldest first
    delivered   \* the pointers handed to the reader so far

Init == queue = <<>> /\ delivered = <<>>

\* One or more pointers enter at the end.
Enqueue ==
    /\ Len(queue') > Len(queue)
    /\ Len(queue') <= Bound
    /\ queue = SubSeq(queue', 1, Len(queue))
    /\ UNCHANGED delivered

\* The oldest pointers leave, in their order.
Dequeue ==
    \E n \in 1 .. Len(queue) :
        /\ delivered' = delivered \o SubSeq(queue, 1, n)
        /\ queue' = SubSeq(queue, n + 1, Len(queue))

Next == Enqueue \/ Dequeue

Spec == Init /\ [][Next]_<<queue, delivered>>
=============================================================================
