---------------------------- MODULE CollectQueue ----------------------------
(***************************************************************************)
(* How retired pointers get from the threads to the collector.             *)
(*                                                                         *)
(*   frontend.c  forkscan_retire, forkscan_force_reclaim, become_reclaimer *)
(*               and generate_working_pointers_list                        *)
(*   thread.c    the cleanup lock (try_acquire and release)                *)
(*   forkscan.c  forkscan_initiate_collection with its throttle, and the   *)
(*               loop of forkscan_thread                                   *)
(*                                                                         *)
(* Pointers are counted while they are in the queues; afterwards the       *)
(* buffers that hold them are.  A critical section is one step             *)
(* unless something that matters happens inside it without its lock; the   *)
(* sections that freeing pointers and the handshake add are in Retirees    *)
(* and Handshake.                                                          *)
(***************************************************************************)
EXTENDS Integers, FiniteSets

CONSTANTS
    Threads,       \* the application threads
    NULL,          \* nobody
    GC,            \* the collector thread, as the holder of a lock
    QueueLimit,    \* pointers in a full queue: the capacity minus one
    Throttle,      \* g_forkscan_throttling_queue
    AutoModes,     \* the values the application gives to auto_run
    MayForce,      \* whether the application calls forkscan_force_reclaim
    MaxRetires,    \* bound on the number of pointers retired
    MaxBuffers     \* bound on the buffers that wait for the collector

ASSUME ThreadsAssumption ==
    /\ IsFiniteSet(Threads)
    /\ GC \notin Threads /\ NULL \notin Threads /\ GC # NULL
ASSUME SizesAssumption ==
    /\ QueueLimit \in Nat \ {0} /\ Throttle \in Nat \ {0}
    /\ MaxRetires \in Nat /\ MaxBuffers \in Nat
ASSUME OptionsAssumption ==
    /\ AutoModes \subseteq {0, 1} /\ AutoModes # {}
    /\ MayForce \in BOOLEAN

VARIABLES
    q,                     \* pointers in each thread's ptr_list
    retired,               \* number of pointers retired so far
    auto_run,              \* g_config.auto_run
    g_force_iteration,
    cleaner,               \* holder of the cleanup lock (global_timestamp)
    th,                    \* the threads: pc and the locals of become_reclaimer
    gc_mutex,              \* holder of g_gc_mutex
    client_lock,           \* holder of g_client_waiting_lock
    g_waiting_collects,
    g_gc_waiting,          \* whether GC_WAITING_FOR_WORK
    g_addr_buffer,         \* number of buffers in the list
    gc                     \* pc of the collector

vars == <<q, retired, auto_run, g_force_iteration, cleaner, th, gc_mutex,
          client_lock, g_waiting_collects, g_gc_waiting, g_addr_buffer, gc>>

config == <<auto_run, g_force_iteration>>
shared == <<gc_mutex, client_lock, g_waiting_collects, g_gc_waiting, g_addr_buffer>>

-----------------------------------------------------------------------------
Init ==
    /\ q = [t \in Threads |-> 0]
    /\ retired = 0
    /\ auto_run \in AutoModes
    /\ g_force_iteration = 0
    /\ cleaner = NULL
    /\ th = [t \in Threads |-> [pc |-> "user", forcing |-> FALSE, force |-> 0, todo |-> {}]]
    /\ gc_mutex = NULL
    /\ client_lock = NULL
    /\ g_waiting_collects = 0
    /\ g_gc_waiting = TRUE
    /\ g_addr_buffer = 0
    /\ gc = "top"

\* A version that lets the last slot be used.
MutantIsFull(n) == n > QueueLimit

\* forkscan_queue_is_full, of a queue of n pointers.
IsFull(n) == n >= QueueLimit

-----------------------------------------------------------------------------
(***************************************************************************)
(* forkscan_retire and forkscan_force_reclaim.                             *)
(***************************************************************************)
SetAutoRun(mode) ==
    /\ auto_run' = mode
    /\ UNCHANGED <<q, retired, g_force_iteration, cleaner, th, shared, gc>>

\* Push the pointer; a full queue has to be drained before the call returns.
Retire(t) ==
    /\ th[t].pc = "user" /\ retired < MaxRetires
    /\ q' = [q EXCEPT ![t] = @ + 1]
    /\ retired' = retired + 1
    /\ th' = [th EXCEPT ![t].pc = IF IsFull(q[t] + 1) THEN "try" ELSE "user"]
    /\ UNCHANGED <<config, cleaner, shared, gc>>

ForceReclaim(t) ==
    /\ MayForce /\ th[t].pc = "user"
    /\ g_force_iteration' = 1
    /\ th' = [th EXCEPT ![t].pc = "try", ![t].forcing = TRUE]
    /\ UNCHANGED <<q, retired, auto_run, cleaner, shared, gc>>

\* A version that takes the lock from whoever has it.
MutantTryAcquire(t) ==
    /\ th[t].pc = "try"
    /\ cleaner' = t
    /\ th' = [th EXCEPT ![t].pc = "force"]
    /\ UNCHANGED <<q, retired, config, shared, gc>>

\* forkscan_thread_cleanup_try_acquire: the compare-and-swap succeeds for one.
\* Otherwise the thread yields and looks again.
TryAcquire(t) ==
    /\ th[t].pc = "try"
    /\ IF cleaner = NULL
       THEN /\ cleaner' = t
            /\ th' = [th EXCEPT ![t].pc = "force"]
       ELSE /\ th' = [th EXCEPT ![t].pc = "again"]
            /\ UNCHANGED cleaner
    /\ UNCHANGED <<q, retired, config, shared, gc>>

\* The conditions of the two loops: the queue is still full, or the request to
\* force an iteration has not been honoured.
LoopAgain(t) ==
    /\ th[t].pc = "again"
    /\ LET repeat == IF th[t].forcing THEN g_force_iteration # 0 ELSE IsFull(q[t]) IN
       th' = [th EXCEPT ![t].pc = IF repeat THEN "try" ELSE "user",
                        ![t].forcing = repeat /\ @]
    /\ UNCHANGED <<q, retired, config, cleaner, shared, gc>>

-----------------------------------------------------------------------------
(***************************************************************************)
(* become_reclaimer.                                                       *)
(***************************************************************************)
ReadForce(t) ==
    /\ th[t].pc = "force"
    /\ th' = IF g_force_iteration > 0
             THEN [th EXCEPT ![t].force = 1, ![t].pc = "reset"]
             ELSE [th EXCEPT ![t].force = 0, ![t].pc = "drain", ![t].todo = Threads]
    /\ UNCHANGED <<q, retired, config, cleaner, shared, gc>>

ResetForce(t) ==
    /\ th[t].pc = "reset"
    /\ g_force_iteration' = 0
    /\ th' = [th EXCEPT ![t].pc = "drain", ![t].todo = Threads]
    /\ UNCHANGED <<q, retired, auto_run, cleaner, shared, gc>>

\* generate_working_pointers_list, one thread of the list at a time.
DrainQueue(t, u) ==
    /\ th[t].pc = "drain" /\ u \in th[t].todo
    /\ th' = [th EXCEPT ![t].todo = @ \ {u}]
    /\ q' = [q EXCEPT ![u] = 0]
    /\ UNCHANGED <<retired, config, cleaner, shared, gc>>

\* A version that counts the collection and does not wake the collector.
MutantSubmit(t) ==
    /\ th[t].pc = "drain" /\ th[t].todo = {}
    /\ gc_mutex = NULL /\ g_addr_buffer < MaxBuffers
    /\ LET run == auto_run = 1 \/ th[t].force = 1 IN
       g_waiting_collects' = IF run THEN g_waiting_collects + 1 ELSE g_waiting_collects
    /\ g_addr_buffer' = g_addr_buffer + 1
    /\ th' = [th EXCEPT ![t].pc = IF auto_run > 0 THEN "throttle" ELSE "release",
                        ![t].force = 0]
    /\ UNCHANGED <<q, retired, config, cleaner, gc_mutex, client_lock, g_gc_waiting, gc>>

\* forkscan_initiate_collection, in the section of g_gc_mutex.
Submit(t) ==
    /\ th[t].pc = "drain" /\ th[t].todo = {}
    /\ gc_mutex = NULL /\ g_addr_buffer < MaxBuffers
    /\ LET run == auto_run = 1 \/ th[t].force = 1 IN
       /\ g_waiting_collects' = IF run THEN g_waiting_collects + 1 ELSE g_waiting_collects
       /\ gc' = IF g_gc_waiting /\ run /\ gc = "sleep" THEN "woken" ELSE gc
    /\ g_addr_buffer' = g_addr_buffer + 1
    /\ th' = [th EXCEPT ![t].pc = IF auto_run > 0 THEN "throttle" ELSE "release",
                        ![t].force = 0]
    /\ UNCHANGED <<q, retired, config, cleaner, gc_mutex, client_lock, g_gc_waiting>>

\* A version without the throttle.
MutantThrottleTest(t) ==
    /\ th[t].pc = "throttle"
    /\ th' = [th EXCEPT ![t].pc = "release"]
    /\ UNCHANGED <<q, retired, config, cleaner, shared, gc>>

\* The throttle: test without the lock, ...
ThrottleTest(t) ==
    /\ th[t].pc = "throttle"
    /\ th' = [th EXCEPT ![t].pc = IF g_waiting_collects >= Throttle THEN "tlock"
                                  ELSE "release"]
    /\ UNCHANGED <<q, retired, config, cleaner, shared, gc>>

\* ... take it, ...
ThrottleLock(t) ==
    /\ th[t].pc = "tlock" /\ client_lock = NULL
    /\ client_lock' = t
    /\ th' = [th EXCEPT ![t].pc = "tcheck"]
    /\ UNCHANGED <<q, retired, config, cleaner, gc_mutex, g_waiting_collects,
                   g_gc_waiting, g_addr_buffer, gc>>

\* A version that waits without testing again.
MutantThrottleWait(t) ==
    /\ th[t].pc = "tcheck"
    /\ client_lock' = NULL
    /\ th' = [th EXCEPT ![t].pc = "twait"]
    /\ UNCHANGED <<q, retired, config, cleaner, gc_mutex, g_waiting_collects,
                   g_gc_waiting, g_addr_buffer, gc>>

\* ... test again, and wait for the collector, which gives back the lock.
ThrottleWait(t) ==
    /\ th[t].pc = "tcheck"
    /\ client_lock' = NULL
    /\ th' = [th EXCEPT ![t].pc = IF g_waiting_collects >= Throttle THEN "twait"
                                  ELSE "throttle"]
    /\ UNCHANGED <<q, retired, config, cleaner, gc_mutex, g_waiting_collects,
                   g_gc_waiting, g_addr_buffer, gc>>

\* pthread_cond_wait returns with the lock held, which is given back at once.
ThrottleWake(t) ==
    /\ th[t].pc = "twoken" /\ client_lock = NULL
    /\ th' = [th EXCEPT ![t].pc = "throttle"]
    /\ UNCHANGED <<q, retired, config, cleaner, shared, gc>>

\* ... or returns without a broadcast, as POSIX lets it.
ThrottleSpurious(t) ==
    /\ th[t].pc = "twait" /\ client_lock = NULL
    /\ th' = [th EXCEPT ![t].pc = "throttle"]
    /\ UNCHANGED <<q, retired, config, cleaner, shared, gc>>

\* forkscan_thread_cleanup_release.
ReleaseCleanup(t) ==
    /\ th[t].pc = "release"
    /\ cleaner' = NULL
    /\ th' = [th EXCEPT ![t].pc = IF th[t].forcing THEN "user" ELSE "again",
                        ![t].forcing = FALSE]
    /\ UNCHANGED <<q, retired, config, shared, gc>>

-----------------------------------------------------------------------------
(***************************************************************************)
(* forkscan_thread.                                                        *)
(***************************************************************************)

\* A version that sleeps whatever is waiting.
MutantGCTop ==
    /\ gc = "top" /\ gc_mutex = NULL
    /\ g_gc_waiting' = TRUE
    /\ gc' = "sleep"
    /\ UNCHANGED <<q, retired, config, cleaner, th, gc_mutex, client_lock,
                   g_waiting_collects, g_addr_buffer>>

\* Wait for work, once, if there is none.
GCTop ==
    /\ gc = "top" /\ gc_mutex = NULL
    /\ IF g_waiting_collects < 1
       THEN /\ g_gc_waiting' = TRUE
            /\ gc' = "sleep"
            /\ UNCHANGED gc_mutex
       ELSE /\ gc_mutex' = GC
            /\ gc' = "take"
            /\ UNCHANGED g_gc_waiting
    /\ UNCHANGED <<q, retired, config, cleaner, th, client_lock,
                   g_waiting_collects, g_addr_buffer>>

\* pthread_cond_wait returns with the mutex held, ...
LeaveWait ==
    /\ gc_mutex = NULL
    /\ gc_mutex' = GC
    /\ g_gc_waiting' = FALSE
    /\ gc' = "take"
    /\ UNCHANGED <<q, retired, config, cleaner, th, client_lock,
                   g_waiting_collects, g_addr_buffer>>

\* ... for a signal, ...
GCWake == gc = "woken" /\ LeaveWait

\* ... or without one, as POSIX lets it: the wait is not in a loop.
GCSpurious == gc = "sleep" /\ LeaveWait

\* A version that leaves the count to the clients that are notified.
MutantGCTakeKeeps ==
    /\ gc = "take"
    /\ g_addr_buffer' = 0
    /\ g_waiting_collects' = IF g_waiting_collects >= Throttle THEN 0
                             ELSE g_waiting_collects
    /\ gc' = CASE g_addr_buffer = 0 -> "crashed"
               [] g_addr_buffer > 0 /\ g_waiting_collects >= Throttle -> "notify"
               [] OTHER -> "iterate"
    /\ gc_mutex' = IF gc' = "iterate" THEN NULL ELSE GC
    /\ UNCHANGED <<q, retired, config, cleaner, th, client_lock, g_gc_waiting>>

\* A version that subtracts what the throttle allows.
MutantGCTakeSubtracts ==
    /\ gc = "take"
    /\ g_addr_buffer' = 0
    /\ g_waiting_collects' = g_waiting_collects - Throttle
    /\ gc' = "iterate"
    /\ gc_mutex' = NULL
    /\ UNCHANGED <<q, retired, config, cleaner, th, client_lock, g_gc_waiting>>

\* Take the whole list; clients may be waiting if as many collections as the
\* throttle allows were.  Without a list the loop of aggregate_addrs follows a
\* null pointer.
GCTake ==
    /\ gc = "take"
    /\ g_addr_buffer' = 0
    /\ g_waiting_collects' = 0
    /\ gc' = CASE g_addr_buffer = 0 -> "crashed"
               [] g_addr_buffer > 0 /\ g_waiting_collects >= Throttle -> "notify"
               [] OTHER -> "iterate"
    /\ gc_mutex' = IF gc' = "iterate" THEN NULL ELSE GC
    /\ UNCHANGED <<q, retired, config, cleaner, th, client_lock, g_gc_waiting>>

\* Wake the clients, in the sections of both locks.
GCNotify ==
    /\ gc = "notify" /\ client_lock = NULL
    /\ th' = [t \in Threads |-> IF th[t].pc = "twait" THEN [th[t] EXCEPT !.pc = "twoken"]
                                ELSE th[t]]
    /\ gc_mutex' = NULL
    /\ gc' = "iterate"
    /\ UNCHANGED <<q, retired, config, cleaner, client_lock, g_waiting_collects,
                   g_gc_waiting, g_addr_buffer>>

\* reclaim_iteration, which the modules Handshake, Snapshot, Marking and Retirees
\* take apart.
ReclaimIteration ==
    /\ gc = "iterate"
    /\ gc' = "top"
    /\ UNCHANGED <<q, retired, config, cleaner, th, shared>>

-----------------------------------------------------------------------------
Reclaimer(t) ==
    \/ ReadForce(t)
    \/ ResetForce(t)
    \/ \E u \in Threads : DrainQueue(t, u)
    \/ Submit(t)
    \/ ThrottleTest(t)
    \/ ThrottleLock(t)
    \/ ThrottleWait(t)
    \/ ThrottleWake(t)
    \/ ReleaseCleanup(t)

Collector ==
    \/ GCTop
    \/ GCWake
    \/ GCTake
    \/ GCNotify
    \/ ReclaimIteration

\* Nothing runs in a process that has crashed.
Running == gc # "crashed"

Next ==
    /\ Running
    /\ \/ \E mode \in AutoModes : SetAutoRun(mode)
       \/ \E t \in Threads : \/ Retire(t)
                             \/ ForceReclaim(t)
                             \/ TryAcquire(t)
                             \/ LoopAgain(t)
                             \/ Reclaimer(t)
                             \/ ThrottleSpurious(t)
       \/ Collector
       \/ GCSpurious

Spec == Init /\ [][Next]_vars

(***************************************************************************)
(* Fairness: the scheduler runs every thread.  Nothing is assumed of who   *)
(* wins the cleanup lock: a thread that never does has its queue drained   *)
(* by the ones that do.  Nor does anybody count on a spurious wakeup.      *)
(***************************************************************************)
Fairness ==
    /\ WF_vars(Collector)
    /\ \A t \in Threads : /\ WF_vars(Running /\ Reclaimer(t))
                          /\ WF_vars(Running /\ (TryAcquire(t) \/ LoopAgain(t)))

FairSpec == Spec /\ Fairness

-----------------------------------------------------------------------------
(***************************************************************************)
(* Properties.                                                             *)
(***************************************************************************)
PcValues == {"user", "try", "again", "force", "reset", "drain", "throttle",
             "tlock", "tcheck", "twait", "twoken", "release"}

\* Every variable has its type.
TypeOK ==
    /\ q \in [Threads -> Nat]
    /\ retired \in Nat
    /\ auto_run \in {0, 1}
    /\ g_force_iteration \in {0, 1}
    /\ cleaner \in Threads \cup {NULL}
    /\ th \in [Threads -> [pc : PcValues, forcing : BOOLEAN, force : {0, 1},
                           todo : SUBSET Threads]]
    /\ gc_mutex \in {NULL, GC}
    /\ client_lock \in Threads \cup {NULL}
    /\ g_waiting_collects \in Nat
    /\ g_gc_waiting \in BOOLEAN
    /\ g_addr_buffer \in Nat
    /\ gc \in {"top", "sleep", "woken", "take", "notify", "iterate", "crashed"}

\* The caller's side of forkscan_queue_push ("Caller must verify there is space
\* on the queue"): a thread that returns to the application has room for the
\* next pointer, although it pushes without looking first (frontend.c:207).
RoomToPush ==
    \A t \in Threads : /\ q[t] <= QueueLimit
                       /\ th[t].pc = "user" => q[t] < QueueLimit

\* The threads that are between try_acquire and release.
Reclaimers ==
    {t \in Threads : th[t].pc \in PcValues \ {"user", "try", "again"}}

\* The cleanup lock is held by the one thread that acts as the reclaimer: it is
\* the only reader of the queues and the only taker of reclaimer buffers
\* (buffer.c:54).
OneReclaimer == Reclaimers = IF cleaner = NULL THEN {} ELSE {cleaner}

\* The collector is not asleep while a collection waits for it
\* (forkscan.c:274-281, 307-314).
NoLostWakeup == gc = "sleep" => g_waiting_collects = 0

\* As long as the mode is automatic, "Forkscan provides memory limit guarantees": the number of
\* buffers handed over and not taken is limited by the throttle
\* (forkscan.c:283-296).
ThrottleBounds ==
    [](auto_run = 1) => [](/\ g_addr_buffer <= Throttle
                           /\ g_waiting_collects = g_addr_buffer)

\* The collector comes to an empty list only out of a wait that nobody ended:
\* every collection counted has its buffer in the list, although the count is
\* kept apart from it and buffers are handed over without being counted
\* (forkscan.c:265-281, 307-324).
EmptyOnlyUnsignalled ==
    [][gc # "take" /\ gc' = "take" /\ g_addr_buffer = 0 => gc = "sleep"]_vars

\* A thread that waits in forkscan_retire because its queue is full returns to
\* the application in the end: it gets through the cleanup lock, the throttle
\* and the collector itself, or another reclaimer drains its queue, even one
\* that forces iterations for ever (frontend.c:208-223, forkscan.c:283-296).
RetireReturns ==
    []Running =>    \* the collector never finds an empty list
        \A t \in Threads :
            th[t].pc # "user" /\ ~th[t].forcing ~> th[t].pc = "user"

\* As long as the mode is automatic, every buffer that is handed over is taken by
\* the collector for an iteration (forkscan.c:265-281, 307-331).
HandedOverIterated ==
    []Running /\ [](auto_run = 1) =>
        (g_addr_buffer > 0 ~> g_addr_buffer = 0 /\ gc \in {"notify", "iterate"})
=============================================================================
