------------------------------ MODULE MCMarking -----------------------------
(***************************************************************************)
(* Instances of Marking for TLC.                                           *)
(***************************************************************************)
EXTENDS Marking, TLC

Symmetry == Permutations(Nodes) \cup Permutations(Siblings \ {Main})
=============================================================================
