---------------------------- MODULE MCScheduler -----------------------------
(* Scheduler for TLC. *)
EXTENDS Scheduler, TLC

CONSTANTS d1, once, loop

=============================================================================
