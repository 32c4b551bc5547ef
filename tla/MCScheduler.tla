------------------------------- MODULE MCScheduler -------------------------------
(* Scheduler for TLC. *)
EXTENDS Scheduler
==============================================================================
