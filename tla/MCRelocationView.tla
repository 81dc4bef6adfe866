-------------------------- MODULE MCRelocationView --------------------------
(* RelocationView for TLC: its only parameter is the number of faults. *)
EXTENDS RelocationView
=============================================================================
