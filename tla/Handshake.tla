------------------------------ MODULE Handshake -----------------------------
(***************************************************************************)
(* The stop-the-world handshake before the snapshot.                       *)
(*                                                                         *)
(*   forkscan.c  the collector's half of reclaim_iteration up to the fork, *)
(*               and forkscan_acknowledge_signal                           *)
(*   proc.c      forkscan_proc_signal, under the lock of the thread list   *)
(*   frontend.c  the signal handler, and the sections in which a thread is *)
(*               inside the allocator and puts its answer off              *)
(*   thread.c    the points where a thread becomes active and inactive     *)
(*   alloc.c     list_lock, which a thread may hold when it is stopped     *)
(*                                                                         *)
(* A thread has two frames: what it was doing ("main") and the signal      *)
(* handler on top of it ("hand").  Both can run the same acknowledgement.  *)
(* A step is one access to a variable another frame or thread uses.        *)
(***************************************************************************)
EXTENDS Integers, FiniteSets

CONSTANTS
    Threads,       \* the application threads there may ever be
    Started,       \* the threads running when the model begins
    DeadRefsMade,  \* whether an earlier round has mapped the deadrefs buffer
    NULL,          \* no holder
    GC,            \* the collector, as the holder of a lock
    MaxRounds      \* bound on the number of rounds

ASSUME ThreadsAssumption ==
    /\ IsFiniteSet(Threads) /\ Started \subseteq Threads
    /\ GC \notin Threads /\ NULL \notin Threads /\ GC # NULL
ASSUME OptionsAssumption == DeadRefsMade \in BOOLEAN /\ MaxRounds \in Nat

VARIABLES
    th,                 \* the threads
    thread_list_lock,   \* holder of thread_list.lock
    list_lock,          \* holder of list_lock of alloc.c
    g_received_signal,  \* acknowledgements of this round
    g_cleanup_counter,  \* forks so far
    deadrefs,           \* whether the deadrefs buffer is mapped
    gc                  \* the collector: pc, threads to signal, sig_count

vars == <<th, thread_list_lock, list_lock, g_received_signal,
          g_cleanup_counter, deadrefs, gc>>

Locks == <<thread_list_lock, list_lock>>
Counters == <<g_received_signal, g_cleanup_counter>>

-----------------------------------------------------------------------------
Frame(at) == [at |-> at, old |-> 0]

\* A thread: whether it is created, active, leaving or gone; its two frames;
\* g_waiting_to_fork; and whether the signal is pending for it.
NewThread(status) ==
    [status |-> status, main |-> Frame("user"), hand |-> Frame("none"),
     waiting |-> FALSE, pending |-> FALSE]

Init ==
    /\ th = [t \in Threads |->
                NewThread(IF t \in Started THEN "active" ELSE "absent")]
    /\ thread_list_lock = NULL
    /\ list_lock = NULL
    /\ g_received_signal = 0
    /\ g_cleanup_counter = 0
    /\ deadrefs = DeadRefsMade
    /\ gc = [pc |-> "idle", todo |-> {}, signalled |-> {}]

\* The frame that executes, and the threads when it becomes f.
InHandler(t) == th[t].hand.at # "none"
Top(t) == IF InHandler(t) THEN th[t].hand ELSE th[t].main
SetTop(t, f) ==
    IF InHandler(t) THEN [th EXCEPT ![t].hand = f] ELSE [th EXCEPT ![t].main = f]

\* The thread executes ordinary code, no handler, at the given point.
At(t, point) == ~InHandler(t) /\ th[t].main.at = point

Listed(t) == th[t].status \in {"created", "active", "leaving"}
InMalloc(t) == th[t].main.at = "in"

-----------------------------------------------------------------------------
(***************************************************************************)
(* Calls of an application thread.                                         *)
(***************************************************************************)

\* g_in_malloc = 1, in forkscan_malloc, forkscan_free, forkscan_retire, yield.
EnterMalloc(t) ==
    /\ th[t].status = "active" /\ At(t, "user")
    /\ th' = [th EXCEPT ![t].main.at = "in"]
    /\ UNCHANGED <<Locks, Counters, deadrefs, gc>>

\* g_in_malloc = 0.
LeaveMalloc(t) ==
    /\ At(t, "in")
    /\ th' = [th EXCEPT ![t].main.at = "out"]
    /\ UNCHANGED <<Locks, Counters, deadrefs, gc>>

\* A version that leaves the allocator without looking at g_waiting_to_fork.
MutantCheckWaiting(t) ==
    /\ At(t, "out")
    /\ th' = [th EXCEPT ![t].main.at = "user"]
    /\ UNCHANGED <<Locks, Counters, deadrefs, gc>>

CheckWaiting(t) ==
    /\ At(t, "out")
    /\ th' = [th EXCEPT ![t].main.at = IF th[t].waiting THEN "saw" ELSE "user"]
    /\ UNCHANGED <<Locks, Counters, deadrefs, gc>>

\* A version that acknowledges without resetting the flag.
MutantKeepWaiting(t) ==
    /\ At(t, "saw")
    /\ th' = [th EXCEPT ![t].main.at = "ackread"]
    /\ UNCHANGED <<Locks, Counters, deadrefs, gc>>

\* g_waiting_to_fork = 0, before forkscan_acknowledge_signal.
ClearWaiting(t) ==
    /\ At(t, "saw")
    /\ th' = [th EXCEPT ![t].main.at = "ackread", ![t].waiting = FALSE]
    /\ UNCHANGED <<Locks, Counters, deadrefs, gc>>

\* The thread list is walked or changed under its lock (wait_for_timestamp,
\* generate_working_pointers_list, pthread_create), outside the sections of
\* g_in_malloc.
LockThreadList(t) ==
    /\ th[t].status = "active" /\ At(t, "user")
    /\ thread_list_lock = NULL
    /\ thread_list_lock' = t
    /\ th' = [th EXCEPT ![t].main.at = "list"]
    /\ UNCHANGED <<list_lock, Counters, deadrefs, gc>>

UnlockThreadList(t) ==
    /\ At(t, "list")
    /\ thread_list_lock' = NULL
    /\ th' = [th EXCEPT ![t].main.at = "user"]
    /\ UNCHANGED <<list_lock, Counters, deadrefs, gc>>

\* forkscan_alloc_mmap and munmap (reclaimer buffers, pools of thread data and
\* stacks), also outside the sections of g_in_malloc.
LockAllocList(t) ==
    /\ th[t].status = "active" /\ At(t, "user")
    /\ list_lock = NULL
    /\ list_lock' = t
    /\ th' = [th EXCEPT ![t].main.at = "alloc"]
    /\ UNCHANGED <<thread_list_lock, Counters, deadrefs, gc>>

UnlockAllocList(t) ==
    /\ At(t, "alloc")
    /\ list_lock' = NULL
    /\ th' = [th EXCEPT ![t].main.at = "user"]
    /\ UNCHANGED <<thread_list_lock, Counters, deadrefs, gc>>

\* pthread_create by thread t: the new thread is in the list, not yet active.
CreateThread(t, new) ==
    /\ At(t, "list")
    /\ th[new].status = "absent"
    /\ th' = [th EXCEPT ![new].status = "created"]
    /\ UNCHANGED <<Locks, Counters, deadrefs, gc>>

\* forkscan_thread_base sets is_active and calls the user's routine.
StartThread(t) ==
    /\ th[t].status = "created"
    /\ th' = [th EXCEPT ![t].status = "active"]
    /\ UNCHANGED <<Locks, Counters, deadrefs, gc>>

\* forkscan_thread_cleanup: is_active = 0 ...
LeaveThread(t) ==
    /\ th[t].status = "active" /\ At(t, "user")
    /\ th' = [th EXCEPT ![t].status = "leaving"]
    /\ UNCHANGED <<Locks, Counters, deadrefs, gc>>

\* ... and the removal from the list, under its lock.  A signal sent before the
\* removal is delivered before the thread ends: the collector sends it while it
\* holds the lock that the thread waits for here.
RemoveThread(t) ==
    /\ th[t].status = "leaving" /\ At(t, "user")
    /\ ~th[t].pending
    /\ thread_list_lock = NULL
    /\ th' = [th EXCEPT ![t].status = "gone"]
    /\ UNCHANGED <<Locks, Counters, deadrefs, gc>>

-----------------------------------------------------------------------------
(***************************************************************************)
(* The signal handler and the acknowledgement.                             *)
(***************************************************************************)

\* SIGFORKSCAN is blocked while its handler runs.
DeliverSignal(t) ==
    /\ th[t].pending /\ th[t].hand.at = "none"
    /\ th' = [th EXCEPT ![t].pending = FALSE, ![t].hand = Frame("enter")]
    /\ UNCHANGED <<Locks, Counters, deadrefs, gc>>

\* A version that stops a thread inside the allocator, too.
MutantHandlerAlways(t) ==
    /\ th[t].hand.at = "enter"
    /\ th' = [th EXCEPT ![t].hand.at = "ackread"]
    /\ UNCHANGED <<Locks, Counters, deadrefs, gc>>

\* signal_handler.
HandleSignal(t) ==
    /\ th[t].hand.at = "enter"
    /\ th' = IF InMalloc(t)
             THEN [th EXCEPT ![t].waiting = TRUE, ![t].hand = Frame("none")]
             ELSE [th EXCEPT ![t].hand.at = "ackread"]
    /\ UNCHANGED <<Locks, Counters, deadrefs, gc>>

\* forkscan_acknowledge_signal, in either frame: remember the counter, ...
AckRead(t) ==
    /\ Top(t).at = "ackread"
    /\ th' = SetTop(t, [at |-> "ackinc", old |-> g_cleanup_counter])
    /\ UNCHANGED <<Locks, Counters, deadrefs, gc>>

\* ... count this thread, ...
AckIncrement(t) ==
    /\ Top(t).at = "ackinc"
    /\ g_received_signal' = g_received_signal + 1
    /\ th' = SetTop(t, [at |-> "ackwait", old |-> Top(t).old])
    /\ UNCHANGED <<Locks, g_cleanup_counter, deadrefs, gc>>

\* A version that returns to the application from the handler, too.
MutantAckReturn(t) ==
    /\ Top(t).at = "ackwait"
    /\ Top(t).old # g_cleanup_counter
    /\ th' = SetTop(t, Frame("user"))
    /\ UNCHANGED <<Locks, Counters, deadrefs, gc>>

\* ... and wait until the counter has changed.
AckReturn(t) ==
    /\ Top(t).at = "ackwait"
    /\ Top(t).old # g_cleanup_counter
    /\ th' = SetTop(t, Frame(IF InHandler(t) THEN "none" ELSE "user"))
    /\ UNCHANGED <<Locks, Counters, deadrefs, gc>>

-----------------------------------------------------------------------------
(***************************************************************************)
(* The collector.                                                          *)
(***************************************************************************)

\* A version that does not start the count again.
MutantStartRound ==
    /\ gc.pc = "idle" /\ g_cleanup_counter < MaxRounds
    /\ gc' = [pc |-> "lock", todo |-> {}, signalled |-> {}]
    /\ UNCHANGED <<th, Locks, Counters, deadrefs>>

StartRound ==
    /\ gc.pc = "idle" /\ g_cleanup_counter < MaxRounds
    /\ g_received_signal' = 0
    /\ gc' = [pc |-> "lock", todo |-> {}, signalled |-> {}]
    /\ UNCHANGED <<th, Locks, g_cleanup_counter, deadrefs>>

\* forkscan_proc_signal.
BeginSignalling ==
    /\ gc.pc = "lock" /\ thread_list_lock = NULL
    /\ thread_list_lock' = GC
    /\ gc' = [gc EXCEPT !.pc = "signal", !.todo = {t \in Threads : Listed(t)}]
    /\ UNCHANGED <<th, list_lock, Counters, deadrefs>>

SignalThread(t) ==
    /\ gc.pc = "signal" /\ t \in gc.todo
    /\ IF th[t].status = "active"
       THEN /\ th' = [th EXCEPT ![t].pending = TRUE]
            /\ gc' = [gc EXCEPT !.todo = @ \ {t}, !.signalled = @ \cup {t}]
       ELSE /\ gc' = [gc EXCEPT !.todo = @ \ {t}]
            /\ UNCHANGED th
    /\ UNCHANGED <<Locks, Counters, deadrefs>>

EndSignalling ==
    /\ gc.pc = "signal" /\ gc.todo = {}
    /\ thread_list_lock' = NULL
    /\ gc' = [gc EXCEPT !.pc = "spin"]
    /\ UNCHANGED <<th, list_lock, Counters, deadrefs>>

\* while (g_received_signal < sig_count)
Spin ==
    /\ gc.pc = "spin"
    /\ g_received_signal >= Cardinality(gc.signalled)
    /\ gc' = [gc EXCEPT !.pc = "dead"]
    /\ UNCHANGED <<th, Locks, Counters, deadrefs>>

\* forkscan_buffer_get_dead_references; its first call maps a buffer, which
\* takes list_lock.
GetDeadReferences ==
    /\ gc.pc = "dead"
    /\ deadrefs \/ list_lock = NULL
    /\ deadrefs' = TRUE
    /\ gc' = [gc EXCEPT !.pc = "fork"]
    /\ UNCHANGED <<th, Locks, Counters>>

Fork ==
    /\ gc.pc = "fork"
    /\ gc' = [gc EXCEPT !.pc = "bump"]
    /\ UNCHANGED <<th, Locks, Counters, deadrefs>>

\* A version that goes back to work without counting the fork.
MutantReleaseThreads ==
    /\ gc.pc = "bump"
    /\ gc' = [gc EXCEPT !.pc = "idle"]
    /\ UNCHANGED <<th, Locks, Counters, deadrefs>>

\* ++g_cleanup_counter releases the threads.
ReleaseThreads ==
    /\ gc.pc = "bump"
    /\ g_cleanup_counter' = g_cleanup_counter + 1
    /\ gc' = [gc EXCEPT !.pc = "idle"]
    /\ UNCHANGED <<th, Locks, g_received_signal, deadrefs>>

-----------------------------------------------------------------------------
\* What a thread does without being asked to.
Calls(t) ==
    \/ EnterMalloc(t)
    \/ LockThreadList(t)
    \/ LockAllocList(t)
    \/ \E new \in Threads : CreateThread(t, new)
    \/ LeaveThread(t)

\* What a thread cannot put off for ever.
Progress(t) ==
    \/ LeaveMalloc(t)
    \/ CheckWaiting(t)
    \/ ClearWaiting(t)
    \/ UnlockThreadList(t)
    \/ UnlockAllocList(t)
    \/ StartThread(t)
    \/ RemoveThread(t)
    \/ DeliverSignal(t)
    \/ HandleSignal(t)
    \/ AckRead(t)
    \/ AckIncrement(t)
    \/ AckReturn(t)

Collector ==
    \/ StartRound
    \/ BeginSignalling
    \/ \E t \in Threads : SignalThread(t)
    \/ EndSignalling
    \/ Spin
    \/ GetDeadReferences
    \/ Fork
    \/ ReleaseThreads

Next == Collector \/ \E t \in Threads : Calls(t) \/ Progress(t)

Spec == Init /\ [][Next]_vars

(***************************************************************************)
(* Fairness: the scheduler runs every thread; a thread leaves the          *)
(* allocator and gives back a lock after finitely many steps; and a signal *)
(* that is pending and not blocked is delivered.  Waiting for the lock of  *)
(* the thread list needs strong fairness: it is a mutex that others may    *)
(* take again and again.                                                   *)
(***************************************************************************)
Fairness ==
    /\ \A t \in Threads : WF_vars(Progress(t)) /\ WF_vars(DeliverSignal(t))
    /\ WF_vars(Collector)
    /\ SF_vars(BeginSignalling)

FairSpec == Spec /\ Fairness

-----------------------------------------------------------------------------
(***************************************************************************)
(* Properties.                                                             *)
(***************************************************************************)
MainPoints == {"user", "in", "out", "saw", "list", "alloc", "ackread",
               "ackinc", "ackwait"}
HandPoints == {"none", "enter", "ackread", "ackinc", "ackwait"}

\* Every variable has its type.
TypeOK ==
    /\ th \in [Threads ->
                 [status : {"absent", "created", "active", "leaving", "gone"},
                  main : [at : MainPoints, old : Nat],
                  hand : [at : HandPoints, old : Nat],
                  waiting : BOOLEAN, pending : BOOLEAN]]
    /\ thread_list_lock \in Threads \cup {NULL, GC}
    /\ list_lock \in Threads \cup {NULL}
    /\ g_received_signal \in Nat
    /\ g_cleanup_counter \in Nat
    /\ deadrefs \in BOOLEAN
    /\ gc \in [pc : {"idle", "lock", "signal", "spin", "dead", "fork", "bump"},
               todo : SUBSET Threads, signalled : SUBSET Threads]

\* The thread waits in an acknowledgement of the current round.
Stopped(t) ==
    /\ Top(t).at = "ackwait"
    /\ Top(t).old = g_cleanup_counter

InRound == gc.pc \in {"signal", "spin", "dead", "fork", "bump"}

\* Nobody is left behind: from the end of the collector's wait to the release,
\* every thread that was signalled stands still, outside the allocator, with
\* its registers on its stack.
Barrier ==
    gc.pc \in {"dead", "fork", "bump"} =>
        \A t \in gc.signalled : Stopped(t) /\ ~InMalloc(t)

\* One signal, one acknowledgement: a thread is counted once per round, no
\* matter whether the handler answers at once, puts the answer off, or
\* interrupts a thread that has not left the previous round's wait yet.
AckExact ==
    InRound => g_received_signal = Cardinality({t \in gc.signalled : Stopped(t)})

\* A flag raised in one round never answers for the next: g_waiting_to_fork is
\* set only while the current round still waits for that thread.
NoStaleFlag ==
    \A t \in Threads : th[t].waiting =>
        gc.pc \in {"signal", "spin"} /\ t \in gc.signalled /\ ~Stopped(t)

\* Every round gets past its wait: no thread that was signalled can keep the
\* collector spinning.
RoundCompletes == gc.pc = "lock" ~> gc.pc = "idle"

\* Every thread that was stopped gets on with its work.
ThreadsResume ==
    \A t \in Threads :
        Top(t).at = "ackwait"
            ~> th[t].main.at # "ackwait" /\ th[t].hand.at # "ackwait"

\* "This takes no lock" (forkscan_buffer_get_dead_references): the collector
\* never waits for a lock that one of the threads it has stopped is holding.
DeadReferencesTakeNoLock ==
    ~(/\ gc.pc = "dead" /\ ~deadrefs
      /\ \E t \in Threads : list_lock = t /\ Stopped(t))
=============================================================================
