------------------------------- MODULE Lookup -------------------------------
(***************************************************************************)
(* lookup_lookaside_list (child.c): sort and compact the words a sibling   *)
(* has set aside, search for each from where the last one was, and mark    *)
(* the nodes found.  It puts AvlSort and AddrSearch together: the sort     *)
(* leaves some of the words that occur twice behind the sorted ones, and   *)
(* the search from a hint does not find a word that lies before the hint.  *)
(*                                                                         *)
(* recursive_mark is a number of searches without a hint, for any words:   *)
(* which ones, and in which order, is the subject of Marking.              *)
(***************************************************************************)
EXTENDS AddrSearch, AvlSort

CONSTANTS
    LookasideSize,  \* LOOKASIDE_SZ
    MaxWords        \* bound on the words that recursive_mark looks at

ASSUME LookupAssumption == LookasideSize \in 1 .. MaxDepth /\ MaxWords \in Nat

VARIABLES
    aside,    \* the words set aside, as find_roots left them
    list,     \* g_lookaside_list up to g_lookaside_count
    look      \* pc, next index of the list, cached_loc, words looked at

lvars == <<aside, list, look>>
vars == <<svars, lvars>>

Lists == UNION {[1 .. len -> Words] : len \in 1 .. LookasideSize}

SortAndCompact(a) == UtilCompact(UtilAvlSort(a))

\* The list is the sibling's own: sorting and compacting it is the first thing
\* the call does, before anybody else could notice.
LookupInit ==
    /\ SearchInit
    /\ aside \in {a \in Lists : \A k \in 1 .. Len(a) : InRange(a[k])}
    /\ list = SortAndCompact(aside)
    /\ look = [pc |-> "next", i |-> 1, cached_loc |-> 0, words |-> 0]

-----------------------------------------------------------------------------
\* A version that starts behind the last hit.
MutantLookupNext ==
    /\ look.pc = "next" /\ look.i <= Len(list)
    /\ StartHint(list[look.i], look.cached_loc + 1)
    /\ look' = [look EXCEPT !.pc = "search"]
    /\ UNCHANGED <<aside, list>>

LookupNext ==
    /\ look.pc = "next" /\ look.i <= Len(list)
    /\ StartHint(list[look.i], look.cached_loc)
    /\ look' = [look EXCEPT !.pc = "search"]
    /\ UNCHANGED <<aside, list>>

\* Remember where the search ended; mark what it found, and follow it if it was
\* not marked before.
LookupMark ==
    /\ look.pc = "search"
    /\ UseResult
    /\ look' = [look EXCEPT !.i = @ + 1, !.cached_loc = search.loc,
                            !.pc = IF marked' # marked THEN "follow" ELSE "next"]
    /\ UNCHANGED <<aside, list>>

\* recursive_mark looks at a word and marks what it refers to.
FollowWord(val) ==
    /\ look.pc = "follow" /\ look.words < MaxWords
    /\ StartFind(val)
    /\ look' = [look EXCEPT !.words = @ + 1]
    /\ UNCHANGED <<aside, list>>

FollowMark ==
    /\ look.pc = "follow"
    /\ UseResult
    /\ UNCHANGED lvars

FollowDone ==
    /\ look.pc = "follow" /\ search.at = "idle"
    /\ look' = [look EXCEPT !.pc = "next"]
    /\ UNCHANGED <<svars, aside, list>>

LookupDone ==
    /\ look.pc = "next" /\ look.i > Len(list)
    /\ list' = <<>>
    /\ look' = [look EXCEPT !.pc = "done"]
    /\ UNCHANGED <<svars, aside>>

Sibling ==
    \/ LookupNext
    \/ LookupMark
    \/ \E val \in Words : FollowWord(val)
    \/ FollowMark
    \/ FollowDone
    \/ LookupDone
    \/ SearchStep /\ UNCHANGED lvars

LookupSteps ==
    \/ Sibling
    \/ \E i \in Index : OtherMark(i) /\ UNCHANGED lvars

\* The scheduler runs the sibling; nothing is assumed of the others.
Spec == LookupInit /\ [][LookupSteps]_vars /\ WF_vars(Sibling)

-----------------------------------------------------------------------------
(***************************************************************************)
(* Properties.                                                             *)
(***************************************************************************)

\* Every variable has its type.
TypeOK ==
    /\ SearchTypeOK
    /\ aside \in Lists
    /\ list \in Seq(Words) /\ Len(list) <= LookasideSize
    /\ look \in [pc : {"next", "search", "follow", "done"},
                 i : 1 .. (LookasideSize + 1), cached_loc : Index,
                 words : 0 .. MaxWords]

\* Whatever the order of the words set aside and however often each occurs,
\* they make a balanced search tree (insert_node, child.c:187).
TreeSound == look.i = 1 => IsAvlTreeOf(BuildFromArray[aside], aside)

\* When the lookup ends every node that a word set aside refers to is marked,
\* although the list was not sorted if it had duplicates, searches start from
\* hints, and other siblings set marks in the words being compared
\* (child.c:177-229).
LookupComplete ==
    look.pc = "done" =>
        \A k \in 1 .. Len(aside), i \in Index : pool[i] = aside[k] => i \in marked

\* Every lookup ends: the searches do not go round in circles.
LookupEnds == <>(look.pc = "done")
=============================================================================
