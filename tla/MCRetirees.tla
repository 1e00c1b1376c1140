----------------------------- MODULE MCRetirees -----------------------------
(***************************************************************************)
(* Instances of Retirees for TLC.                                          *)
(***************************************************************************)
EXTENDS Retirees, TLC

Symmetry == Permutations(Threads) \cup Permutations(Addrs) \cup Permutations(Buffers)
=============================================================================
