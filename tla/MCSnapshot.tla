----------------------------- MODULE MCSnapshot -----------------------------
(* Instance of Snapshot for TLC. *)
EXTENDS Snapshot, TLC

\* The application's memory around Forkscan's first two regions.  The gap above is
\* large enough for two blocks of nodes or buffers and separates memory of the
\* application from the lock of stderr; what does not fit there goes below
\* everything else and becomes the head of the list.
MCUserMaps == {
    [p \in Pages |-> <<"none", "none", "none", "none", "data", "data", "data",
                       "none", "none", "data", "none", "none", "lock">>[p + 1]]}

MCSymmetry == Permutations(Workers) \cup Permutations(Tds \ {MainTd})
=============================================================================
