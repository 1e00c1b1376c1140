------------------------------- MODULE Marking ------------------------------
(***************************************************************************)
(* The scan in the forked child (child.c): sibling processes share out the *)
(* ranges of memory, set aside every word that may point into the pool of  *)
(* retired nodes, mark what those words and the marked nodes refer to, and *)
(* tell the parent when the last range is done.                            *)
(*                                                                         *)
(* The siblings share the buffer of addresses (marks included) and its two *)
(* counters; memory is a snapshot that does not change.  A step is one     *)
(* access to shared memory.  A word is named by the pool node it refers    *)
(* to; words that refer to none are dropped by the searches and left out,  *)
(* and the order of the words of a node or a range is left open.           *)
(***************************************************************************)
EXTENDS Integers, Sequences, FiniteSets

CONSTANTS
    Nodes,          \* the pool: the addresses of the working buffer
    Siblings,       \* the processes of a scan
    Main,           \* the child itself, which forks the others
    NRanges,        \* g_n_ranges
    LookasideSize,  \* LOOKASIDE_SZ
    MaxWords,       \* bound on the pool references in one node
    MaxRoots        \* bound on the pool references in one range

ASSUME SiblingsAssumption == Main \in Siblings /\ IsFiniteSet(Siblings)
ASSUME SizesAssumption ==
    /\ NRanges \in Nat \ {0}
    /\ LookasideSize \in Nat \ {0}
    /\ MaxWords \in Nat /\ MaxRoots \in Nat

VARIABLES
    words,            \* words[n]: the nodes that node n refers to
    roots,            \* roots[r]: the nodes that range r refers to
    marked,           \* the nodes with the low bit set in addrs[]
    root_counter,     \* next range to claim
    roots_completed,  \* ranges whose roots have been marked
    sib,              \* the siblings
    written,          \* number of notifications written to the pipe
    parent            \* the collector thread: waiting, done or fatal

snapshot == <<words, roots>>
vars == <<words, roots, marked, root_counter, roots_completed, sib, written,
          parent>>

-----------------------------------------------------------------------------
SmallSets(n) == {S \in SUBSET Nodes : Cardinality(S) <= n}

\* A sibling: its pc, the words of its current range still to look at, its
\* lookaside list and the number of words in it (duplicates count), where the
\* lookup returns to, the active calls of recursive_mark, the node it found
\* unmarked and is about to mark, and the number of ranges it has been through.
NewSibling(pc) ==
    [pc |-> pc, range |-> {}, lookaside |-> {}, count |-> 0, ret |-> "scan",
     stack |-> <<>>, target |-> {}, completed |-> 0]

\* forkscan_child up to the loop that forks the siblings.
Init ==
    /\ words \in [Nodes -> SmallSets(MaxWords)]
    /\ roots \in [0 .. (NRanges - 1) -> SmallSets(MaxRoots)]
    /\ marked = {}
    /\ root_counter = 0
    /\ roots_completed = 0
    /\ sib = [s \in Siblings |-> NewSibling(IF s = Main THEN "fork" ELSE "unborn")]
    /\ written = 0
    /\ parent = "waiting"

-----------------------------------------------------------------------------
\* The child forks a sibling; a fork that fails leaves one sibling less.
ForkSibling(s) ==
    /\ sib[Main].pc = "fork" /\ sib[s].pc = "unborn"
    /\ \/ sib' = [sib EXCEPT ![s].pc = "claim"]
       \/ sib' = [sib EXCEPT ![s].pc = "exited"]
    /\ UNCHANGED <<snapshot, marked, root_counter, roots_completed, written, parent>>

ForkingDone ==
    /\ sib[Main].pc = "fork"
    /\ \A s \in Siblings : sib[s].pc # "unborn"
    /\ sib' = [sib EXCEPT ![Main].pc = "claim"]
    /\ UNCHANGED <<snapshot, marked, root_counter, roots_completed, written, parent>>

\* The fetch-and-add on root_counter.
ClaimRange(s) ==
    /\ sib[s].pc = "claim"
    /\ IF root_counter < NRanges
       THEN sib' = [sib EXCEPT ![s].pc = "scan", ![s].range = roots[root_counter]]
       ELSE sib' = [sib EXCEPT ![s].pc = "rest"]
    /\ root_counter' = root_counter + 1
    /\ UNCHANGED <<snapshot, marked, roots_completed, written, parent>>

\* find_roots: set a word aside; a full lookaside list is looked up at once.
SetAside(s) ==
    /\ sib[s].pc = "scan" /\ sib[s].range # {}
    /\ \E n \in sib[s].range :
          sib' = [sib EXCEPT
                    ![s].range = @ \ {n}, ![s].lookaside = @ \cup {n},
                    ![s].count = @ + 1, ![s].ret = "scan",
                    ![s].pc = IF sib[s].count + 1 < LookasideSize
                              THEN "scan" ELSE "lookup"]
    /\ UNCHANGED <<snapshot, marked, root_counter, roots_completed, written, parent>>

\* A version that reports its ranges before the remainder is looked up.
MutantRangeDone(s) ==
    /\ sib[s].pc = "scan" /\ sib[s].range = {}
    /\ sib' = [sib EXCEPT ![s].pc = IF roots_completed + 1 = NRanges
                                    THEN "notify" ELSE "claim"]
    /\ roots_completed' = roots_completed + 1
    /\ UNCHANGED <<snapshot, marked, root_counter, written, parent>>

RangeDone(s) ==
    /\ sib[s].pc = "scan" /\ sib[s].range = {}
    /\ sib' = [sib EXCEPT ![s].pc = "claim", ![s].completed = @ + 1]
    /\ UNCHANGED <<snapshot, marked, root_counter, roots_completed, written, parent>>

\* A version that leaves the rest of the lookaside list alone.
MutantRemainder(s) ==
    /\ sib[s].pc = "rest"
    /\ sib' = [sib EXCEPT ![s].pc = "report"]
    /\ UNCHANGED <<snapshot, marked, root_counter, roots_completed, written, parent>>

\* After the last range: catch any remainders.
Remainder(s) ==
    /\ sib[s].pc = "rest"
    /\ sib' = [sib EXCEPT ![s].pc = IF sib[s].count = 0 THEN "report" ELSE "lookup",
                          ![s].ret = "report"]
    /\ UNCHANGED <<snapshot, marked, root_counter, roots_completed, written, parent>>

-----------------------------------------------------------------------------
(***************************************************************************)
(* lookup_lookaside_list and recursive_mark.  A frame of the stack is a    *)
(* call of recursive_mark: its node and the words still to look at.  The   *)
(* test of the mark and the write that sets it are separate steps.         *)
(***************************************************************************)
Call(n) == [node |-> n, todo |-> words[n]]

InLookup(s) == sib[s].pc = "lookup" /\ sib[s].target = {}

\* A version whose search may end at a neighbour of the node.
MutantLookupWord(s) ==
    /\ InLookup(s) /\ sib[s].stack = <<>>
    /\ \E n \in sib[s].lookaside, m \in Nodes :
          sib' = [sib EXCEPT ![s].lookaside = @ \ {n},
                             ![s].target = IF m \in marked THEN {} ELSE {m}]
    /\ UNCHANGED <<snapshot, marked, root_counter, roots_completed, written, parent>>

\* Look at the next word of the lookaside list.
LookupWord(s) ==
    /\ InLookup(s) /\ sib[s].stack = <<>>
    /\ \E n \in sib[s].lookaside :
          sib' = [sib EXCEPT ![s].lookaside = @ \ {n},
                             ![s].target = IF n \in marked THEN {} ELSE {n}]
    /\ UNCHANGED <<snapshot, marked, root_counter, roots_completed, written, parent>>

\* Look at the next word of the node on top of the stack.
MarkWord(s) ==
    /\ InLookup(s) /\ sib[s].stack # <<>>
    /\ Head(sib[s].stack).todo # {}
    /\ \E n \in Head(sib[s].stack).todo :
          sib' = [sib EXCEPT ![s].stack[1].todo = @ \ {n},
                             ![s].target = IF n \in marked THEN {} ELSE {n}]
    /\ UNCHANGED <<snapshot, marked, root_counter, roots_completed, written, parent>>

\* Set the mark and call recursive_mark: for a word of the lookaside list on
\* the node it refers to, for a word of a node on that node itself.
SetMark(s) ==
    /\ sib[s].target # {}
    /\ \E n \in sib[s].target :
          /\ marked' = marked \cup {n}
          /\ sib' = [sib EXCEPT
                       ![s].target = {},
                       ![s].stack = IF @ = <<>> THEN <<Call(n)>>
                                    ELSE <<Call(Head(@).node)>> \o @]
    /\ UNCHANGED <<snapshot, root_counter, roots_completed, written, parent>>

MarkReturn(s) ==
    /\ InLookup(s) /\ sib[s].stack # <<>>
    /\ Head(sib[s].stack).todo = {}
    /\ sib' = [sib EXCEPT ![s].stack = Tail(@)]
    /\ UNCHANGED <<snapshot, marked, root_counter, roots_completed, written, parent>>

\* Empty the lookaside list and return.
LookupDone(s) ==
    /\ InLookup(s) /\ sib[s].stack = <<>> /\ sib[s].lookaside = {}
    /\ sib' = [sib EXCEPT ![s].pc = sib[s].ret, ![s].count = 0]
    /\ UNCHANGED <<snapshot, marked, root_counter, roots_completed, written, parent>>

-----------------------------------------------------------------------------
\* The fetch-and-add on roots_completed; whoever brings it to the number of
\* ranges, or finds it there, notifies the parent.
Report(s) ==
    /\ sib[s].pc = "report"
    /\ roots_completed' = roots_completed + sib[s].completed
    /\ sib' = [sib EXCEPT ![s].pc = IF roots_completed' = NRanges THEN "notify"
                                    ELSE "exited"]
    /\ UNCHANGED <<snapshot, marked, root_counter, written, parent>>

\* Write to the pipe.  Once the parent has read and closed it, the write ends
\* the sibling with SIGPIPE.
Notify(s) ==
    /\ sib[s].pc = "notify"
    /\ written' = written + 1
    /\ sib' = [sib EXCEPT ![s].pc = "exited"]
    /\ UNCHANGED <<snapshot, marked, root_counter, roots_completed, parent>>

\* A sibling is killed before it is done.
Crash(s) ==
    /\ sib[s].pc \notin {"unborn", "exited", "killed"}
    /\ sib' = [sib EXCEPT ![s] = NewSibling("killed")]
    /\ UNCHANGED <<snapshot, marked, root_counter, roots_completed, written, parent>>

-----------------------------------------------------------------------------
\* A version in which the parent keeps its own end for writing open.
MutantPipeClosed == FALSE

\* No process is left that could write to the pipe.
PipeClosed ==
    \A s \in Siblings :
        \/ sib[s].pc \in {"exited", "killed"}
        \/ sib[s].pc = "unborn" /\ sib[Main].pc = "killed"

\* The collector thread reads from the pipe: it goes on when a sibling has
\* written, and gives up when all have ended without.
ParentReads ==
    /\ parent = "waiting"
    /\ \/ written > 0 /\ parent' = "done"
       \/ written = 0 /\ PipeClosed /\ parent' = "fatal"
    /\ UNCHANGED <<snapshot, marked, root_counter, roots_completed, sib, written>>

-----------------------------------------------------------------------------
Scanning(s) ==
    \/ s # Main /\ ForkSibling(s)
    \/ s = Main /\ ForkingDone
    \/ ClaimRange(s)
    \/ SetAside(s)
    \/ RangeDone(s)
    \/ Remainder(s)
    \/ LookupWord(s)
    \/ MarkWord(s)
    \/ SetMark(s)
    \/ MarkReturn(s)
    \/ LookupDone(s)
    \/ Report(s)
    \/ Notify(s)

Next == ParentReads \/ \E s \in Siblings : Scanning(s) \/ Crash(s)

Spec == Init /\ [][Next]_vars

\* The scheduler runs every process.
FairSpec == Spec /\ WF_vars(ParentReads) /\ \A s \in Siblings : WF_vars(Scanning(s))

-----------------------------------------------------------------------------
(***************************************************************************)
(* Properties.                                                             *)
(***************************************************************************)
PcValues == {"unborn", "fork", "claim", "scan", "rest", "lookup", "report",
             "notify", "exited", "killed"}

\* Every variable has its type.
TypeOK ==
    /\ words \in [Nodes -> SUBSET Nodes]
    /\ roots \in [0 .. (NRanges - 1) -> SUBSET Nodes]
    /\ marked \subseteq Nodes
    /\ root_counter \in Nat
    /\ roots_completed \in 0 .. NRanges
    /\ sib \in [Siblings ->
          [pc : PcValues, range : SUBSET Nodes, lookaside : SUBSET Nodes,
           count : 0 .. LookasideSize, ret : {"scan", "report"},
           stack : Seq([node : Nodes, todo : SUBSET Nodes]),
           target : SUBSET Nodes, completed : 0 .. NRanges]]
    /\ written \in Nat
    /\ parent \in {"waiting", "done", "fatal"}

RootNodes == UNION {roots[r] : r \in 0 .. (NRanges - 1)}

\* The nodes that can be reached from the memory outside the pool.
Closed(S) == \A n \in S : words[n] \subseteq S
Reachable ==
    {n \in Nodes : \A S \in SUBSET Nodes : RootNodes \subseteq S /\ Closed(S) => n \in S}

\* A node is marked only if it can be reached: one that nobody can reach is
\* never kept by the marks of the siblings (child.c:147-230).
MarkedReachable == marked \subseteq Reachable

\* When the parent is told that the scan is complete, every node referred to
\* from any range is marked, whichever siblings scanned the ranges, raced for
\* the marks, or died (child.c:487-523).
NotifiedComplete == written > 0 => RootNodes \subseteq marked

\* Once the parent has been told, no mark changes under it: it sorts the nodes
\* to free from the ones to keep while siblings may still be running
\* (forkscan.c:224-244).
MarksFinal == [][written > 0 => marked' = marked]_vars

\* The parent does not wait for ever: it is told, or it notices that the
\* siblings have died (forkscan.c:224-227).
ParentGoesOn == <>(parent # "waiting")

\* "These roots will later be used as a basis for determining reachability of
\* the rest of the nodes" (find_roots): when the parent is told, every node that
\* can be reached is marked.
ReachableMarked == written > 0 => Reachable \subseteq marked
=============================================================================
