--------------------------- MODULE ThreadRegistry ---------------------------
(***************************************************************************)
(* The threads Forkscan knows about: the wrappers of pthread_create,       *)
(* pthread_exit and pthread_join (wrappers.c), the thread list, the list   *)
(* of exited threads staged to be freed (util.c), and the pools that       *)
(* thread_data_t structures and stacks come from (metautil.h, buffer.c).   *)
(*                                                                         *)
(* A step is the section of one lock or one call of libpthread.  The two   *)
(* lists are linked through the same field of thread_data_t and are kept   *)
(* as pointers, because nothing but the order of the calls keeps them      *)
(* apart.  The memory of ptr_list comes and goes with its thread_data_t    *)
(* and is not told apart from it.  A stack is named by its address.        *)
(***************************************************************************)
EXTENDS Integers, Sequences, SequencesExt, FiniteSets

CONSTANTS
    Main,         \* the initial thread
    Workers,      \* the threads that are created; their names are reused
    Tds,          \* thread_data_t structures, those of the first batch
    MainTd,       \* the one of the initial thread
    NULL,         \* no structure
    StackBatch,   \* NSTACKS
    MaxThreads,   \* MAX_THREAD_COUNT
    MaxCreates,   \* bound on the calls of pthread_create
    MayFail       \* whether libpthread may fail to create a thread

ASSUME RegistryAssumption ==
    /\ Main \notin Workers /\ IsFiniteSet(Workers)
    /\ MainTd \in Tds /\ NULL \notin Tds /\ IsFiniteSet(Tds)
    /\ StackBatch \in Nat \ {0} /\ MaxThreads \in Nat /\ MaxCreates \in Nat
    /\ MayFail \in BOOLEAN

VARIABLES
    td,               \* the structures: next, self, stack, stack_is_ours, ref_count
    head,             \* thread_list.head
    staged,           \* g_td_staged_to_free
    threaddata_pool,  \* g_threaddata_pool
    stack_pool,       \* g_stack_pool
    g_thread_count,
    thread,           \* the workers: their pc and their structure
    call,             \* the call of pthread_create or pthread_join of each thread
    creates,          \* number of calls of pthread_create so far
    failed            \* whether the creation of a thread has ever failed

registryVars == <<td, head, staged, threaddata_pool, stack_pool, g_thread_count,
                  thread, call, creates, failed>>

-----------------------------------------------------------------------------
Callers == {Main} \cup Workers

NoStack == -1

NewTd == [next |-> NULL, self |-> Main, stack |-> NoStack, ours |-> FALSE,
          ref_count |-> 1]
NoThread == [pc |-> "none", td |-> NULL]
NoCall == [pc |-> "idle", td |-> NULL]

\* The initial thread is in the list, on a stack of the system, and has created a
\* first worker, on a stack that it has provided itself.
RegistryInit ==
    \E t \in Workers, d \in Tds \ {MainTd} :
        /\ td = [[e \in Tds |-> NewTd] EXCEPT ![d].next = MainTd, ![d].self = t]
        /\ head = d
        /\ staged = NULL
        /\ threaddata_pool \in SetToSeqs(Tds \ {MainTd, d})
        /\ stack_pool = <<>>
        /\ g_thread_count = 2
        /\ thread = [u \in Workers |-> IF u = t THEN [pc |-> "active", td |-> d]
                                       ELSE NoThread]
        /\ call = [c \in Callers |-> NoCall]
        /\ creates = 1
        /\ failed = FALSE

MayCall(c) == call[c].pc = "idle" /\ (c \in Workers => thread[c].pc = "active")

-----------------------------------------------------------------------------
(***************************************************************************)
(* pthread_create.                                                         *)
(***************************************************************************)

\* Count the thread (too many of them end the program), and take a structure from
\* the pool; it keeps the old values of the fields that are set later.  Whether the
\* stack is to be Forkscan's depends on the attributes.
\* The structures are those of the first batch: an empty pool, which would map
\* another one, ends what is modelled.
ThreadDataNew(c, ours) ==
    /\ MayCall(c) /\ creates < MaxCreates
    /\ g_thread_count <= MaxThreads
    /\ threaddata_pool # <<>>
    /\ LET d == Head(threaddata_pool) IN
       /\ td' = [td EXCEPT ![d].ref_count = 1, ![d].ours = @ /\ ours]
       /\ call' = [call EXCEPT ![c] = [pc |-> IF ours THEN "stack" ELSE "add", td |-> d]]
    /\ threaddata_pool' = Tail(threaddata_pool)
    /\ g_thread_count' = g_thread_count + 1
    /\ creates' = creates + 1
    /\ UNCHANGED <<head, staged, stack_pool, thread, failed>>

\* forkscan_buffer_makestack: a stack of the pool, or a new batch.
MakeStack(c) ==
    /\ call[c].pc = "stack"
    /\ IF stack_pool = <<>>
       THEN /\ call' = [call EXCEPT ![c].pc = "map"]
            /\ UNCHANGED <<td, stack_pool>>
       ELSE /\ td' = [td EXCEPT ![call[c].td].stack = Head(stack_pool),
                                 ![call[c].td].ours = TRUE]
            /\ stack_pool' = Tail(stack_pool)
            /\ call' = [call EXCEPT ![c].pc = "add"]
    /\ UNCHANGED <<head, staged, threaddata_pool, g_thread_count, thread, creates, failed>>

\* A version that puts the stack it hands out into the pool, too.
MutantMakeBatch(c, base) ==
    /\ call[c].pc = "map"
    /\ td' = [td EXCEPT ![call[c].td].stack = base, ![call[c].td].ours = TRUE]
    /\ stack_pool' = [i \in 1 .. StackBatch |-> base + StackBatch - i] \o stack_pool
    /\ call' = [call EXCEPT ![c].pc = "add"]
    /\ UNCHANGED <<head, staged, threaddata_pool, g_thread_count, thread, creates, failed>>

\* The batch has been mapped at base: all but the first go to the pool.
MakeBatch(c, base) ==
    /\ call[c].pc = "map"
    /\ td' = [td EXCEPT ![call[c].td].stack = base, ![call[c].td].ours = TRUE]
    /\ stack_pool' = [i \in 1 .. (StackBatch - 1) |-> base + StackBatch - i] \o stack_pool
    /\ call' = [call EXCEPT ![c].pc = "add"]
    /\ UNCHANGED <<head, staged, threaddata_pool, g_thread_count, thread, creates, failed>>

\* forkscan_proc_add_thread_data.
ListAdd(c) ==
    /\ call[c].pc = "add"
    /\ td' = [td EXCEPT ![call[c].td].next = head]
    /\ head' = call[c].td
    /\ call' = [call EXCEPT ![c].pc = "orig"]
    /\ UNCHANGED <<staged, threaddata_pool, stack_pool, g_thread_count, thread, creates, failed>>

\* orig_pthread_create makes the thread, ...
OrigCreate(c, t) ==
    /\ call[c].pc = "orig" /\ thread[t].pc = "none"
    /\ thread' = [thread EXCEPT ![t] = [pc |-> "ready", td |-> call[c].td]]
    /\ call' = [call EXCEPT ![c] = NoCall]
    /\ UNCHANGED <<td, head, staged, threaddata_pool, stack_pool, g_thread_count, creates, failed>>

\* forkscan_buffer_freestack and forkscan_util_thread_data_free.
FreedStacks(d) == IF td[d].ours THEN <<td[d].stack>> \o stack_pool ELSE stack_pool

\* ... or fails: stack and structure go back to their pools.
CreateFails(c) ==
    /\ MayFail
    /\ call[c].pc = "orig"
    /\ stack_pool' = FreedStacks(call[c].td)
    /\ threaddata_pool' = <<call[c].td>> \o threaddata_pool
    /\ call' = [call EXCEPT ![c] = NoCall]
    /\ failed' = TRUE
    /\ UNCHANGED <<td, head, staged, g_thread_count, thread, creates>>

-----------------------------------------------------------------------------
(***************************************************************************)
(* The life of a thread.                                                   *)
(***************************************************************************)

\* forkscan_thread_base.
StartThread(t) ==
    /\ thread[t].pc = "ready"
    /\ td' = [td EXCEPT ![thread[t].td].self = t]
    /\ thread' = [thread EXCEPT ![t].pc = "active"]
    /\ UNCHANGED <<head, staged, threaddata_pool, stack_pool, g_thread_count, call, creates, failed>>

\* What a walk along the next pointers meets, step by step.
WalkFrom(first) ==
    LET at[n \in 0 .. Cardinality(Tds)] ==
            IF n = 0 THEN first
            ELSE IF at[n - 1] = NULL THEN NULL ELSE td[at[n - 1]].next
    IN at

Walk == WalkFrom(head)
Listed == {Walk[n] : n \in DOMAIN Walk} \ {NULL}

\* A version that unlinks everything in front of the structure.
MutantListRemove(t) ==
    /\ thread[t].pc = "active" /\ call[t].pc = "idle"
    /\ thread[t].td \in Listed
    /\ head' = td[thread[t].td].next
    /\ thread' = [thread EXCEPT ![t].pc = "unlisted"]
    /\ UNCHANGED <<td, staged, threaddata_pool, stack_pool, g_thread_count, call, creates, failed>>

\* forkscan_thread_cleanup: take the structure out of the list.  The walk never
\* ends if it is not there.
ListRemove(t) ==
    /\ thread[t].pc = "active" /\ call[t].pc = "idle"
    /\ LET d == thread[t].td IN
       \/ head = d /\ head' = td[d].next /\ UNCHANGED td
       \/ /\ head # d
          /\ \E n \in DOMAIN Walk :
                /\ Walk[n] # NULL /\ td[Walk[n]].next = d
                /\ \A m \in 0 .. (n - 1) : td[Walk[m]].next # d
                /\ td' = [td EXCEPT ![Walk[n]].next = td[d].next]
          /\ UNCHANGED head
    /\ thread' = [thread EXCEPT ![t].pc = "unlisted"]
    /\ UNCHANGED <<staged, threaddata_pool, stack_pool, g_thread_count, call, creates, failed>>

\* forkscan_util_thread_data_decr_ref: the last reference stages the structure.
DecrRef(t) ==
    /\ thread[t].pc = "unlisted"
    /\ LET d == thread[t].td
           last == td[d].ref_count = 1 IN
       /\ td' = [td EXCEPT ![d].ref_count = @ - 1, ![d].next = IF last THEN staged ELSE @]
       /\ staged' = IF last THEN d ELSE staged
    /\ thread' = [thread EXCEPT ![t].pc = "staged"]
    /\ UNCHANGED <<head, threaddata_pool, stack_pool, g_thread_count, call, creates, failed>>

\* orig_pthread_exit: only now is the thread off its stack.
OrigExit(t) ==
    /\ thread[t].pc = "staged"
    /\ g_thread_count' = g_thread_count - 1
    /\ thread' = [thread EXCEPT ![t].pc = "ended"]
    /\ UNCHANGED <<td, head, staged, threaddata_pool, stack_pool, call, creates, failed>>

-----------------------------------------------------------------------------
(***************************************************************************)
(* pthread_join.                                                           *)
(***************************************************************************)
StagedWalk == WalkFrom(staged)
Staged == {StagedWalk[n] : n \in DOMAIN StagedWalk} \ {NULL}

\* orig_pthread_join returns when the thread has ended.  Then
\* forkscan_util_thread_data_cleanup finds the structure by the thread and takes it
\* out of the staged list.
Unstage(c, t) ==
    /\ MayCall(c) /\ thread[t].pc = "ended"
    /\ \E n \in DOMAIN StagedWalk :
          LET d == StagedWalk[n] IN
          /\ d # NULL /\ td[d].self = t
          /\ \A m \in 0 .. (n - 1) : td[StagedWalk[m]].self # t
          /\ IF n = 0 THEN staged' = td[d].next /\ UNCHANGED td
             ELSE /\ td' = [td EXCEPT ![StagedWalk[n - 1]].next = td[d].next]
                  /\ UNCHANGED staged
          /\ call' = [call EXCEPT ![c] = [pc |-> "free", td |-> d]]
    /\ thread' = [thread EXCEPT ![t] = NoThread]
    /\ UNCHANGED <<head, threaddata_pool, stack_pool, g_thread_count, creates, failed>>

\* The stack, then the structure, go back to their pools.
FreeThreadData(c) ==
    /\ call[c].pc = "free"
    /\ stack_pool' = FreedStacks(call[c].td)
    /\ threaddata_pool' = <<call[c].td>> \o threaddata_pool
    /\ call' = [call EXCEPT ![c] = NoCall]
    /\ UNCHANGED <<td, head, staged, g_thread_count, thread, creates, failed>>

-----------------------------------------------------------------------------
\* The steps that need nothing but the registry.
RegistryStep ==
    \/ \E c \in Callers :
          \/ \E ours \in BOOLEAN : ThreadDataNew(c, ours)
          \/ MakeStack(c)
          \/ ListAdd(c)
          \/ \E t \in Workers : OrigCreate(c, t) \/ Unstage(c, t)
          \/ CreateFails(c)
          \/ FreeThreadData(c)
    \/ \E t \in Workers : StartThread(t) \/ DecrRef(t) \/ OrigExit(t)

-----------------------------------------------------------------------------
(***************************************************************************)
(* Properties.                                                             *)
(***************************************************************************)
InSeq(s) == {s[i] : i \in DOMAIN s}

\* Where each structure is: the list and the structures being created or exiting.
Created == {call[c].td : c \in {b \in Callers : call[b].pc \in {"stack", "map", "add"}}}
Freed == {call[c].td : c \in {b \in Callers : call[b].pc = "free"}}
Awaited == {call[c].td : c \in {b \in Callers : call[b].pc = "orig"}}
OfThreads(pcs) == {thread[t].td : t \in {w \in Workers : thread[w].pc \in pcs}}

\* As long as every creation succeeds: the list holds the structures of exactly
\* the threads that have been registered and have not left, it ends, nobody who
\* walks it strays into the staged list, a pool or a structure that is being
\* recycled, and the staged list holds exactly the exited threads not joined yet
\* (util.c:80-185, wrappers.c:80-191, metautil.h:31-61).
RegistrySound == ~failed =>
    /\ Walk[Cardinality(Tds)] = NULL /\ StagedWalk[Cardinality(Tds)] = NULL
    /\ Listed = {MainTd} \cup Awaited \cup OfThreads({"ready", "active"})
    /\ Staged = OfThreads({"staged", "ended"})
    /\ Cardinality(InSeq(threaddata_pool)) = Len(threaddata_pool)
    /\ InSeq(threaddata_pool) =
          Tds \ (Listed \cup Staged \cup Created \cup Freed \cup OfThreads({"unlisted"}))

\* A stack belongs to one thread at a time: from the moment a thread can run on it
\* until the thread is off it, the stack is in no pool and in the hands of nobody
\* else, even when creations fail (buffer.c:275-286, util.c:114-144).
StackExclusive ==
    \A t \in Workers :
        LET d == thread[t].td IN
        thread[t].pc \notin {"none", "ended"} /\ td[d].ours =>
            /\ td[d].stack \notin InSeq(stack_pool)
            /\ \A u \in Workers \ {t} :
                  /\ thread[u].pc \notin {"none", "ended"}
                  /\ td[thread[u].td].ours
                  => td[thread[u].td].stack # td[d].stack
=============================================================================
