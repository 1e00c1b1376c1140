----------------------------- MODULE MCHandshake ----------------------------
(***************************************************************************)
(* Instances of Handshake for TLC.                                         *)
(***************************************************************************)
EXTENDS Handshake, TLC

\* Threads that are all running, or all absent, at the start are alike.
Symmetry == Permutations(Started) \cup Permutations(Threads \ Started)
=============================================================================
