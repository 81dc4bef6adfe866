------------------------ MODULE MCSessionRelocation -------------------------
(* SessionRelocation for TLC: its only parameter is the number of faults. *)
EXTENDS SessionRelocation
=============================================================================
