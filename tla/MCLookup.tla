------------------------------ MODULE MCLookup ------------------------------
(***************************************************************************)
(* The instance of Lookup for TLC.                                         *)
(***************************************************************************)
EXTENDS Lookup

\* Words with their two low bits masked off.
MCWords == {4, 8, 12, 16, 20}
=============================================================================
