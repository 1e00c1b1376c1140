---------------------------- MODULE MCRetireQueue ---------------------------
(***************************************************************************)
(* The instance of RetireQueue for TLC.                                    *)
(***************************************************************************)
EXTENDS RetireQueue
=============================================================================
