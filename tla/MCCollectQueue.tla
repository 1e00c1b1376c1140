--------------------------- MODULE MCCollectQueue ---------------------------
(***************************************************************************)
(* Instances of CollectQueue for TLC.                                      *)
(***************************************************************************)
EXTENDS CollectQueue, TLC

Symmetry == Permutations(Threads)
=============================================================================
