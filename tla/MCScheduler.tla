---------------------------- MODULE MCScheduler ----------------------------
(* Symmetry for the safety runs of Scheduler. *)
EXTENDS Scheduler, TLC

Symmetry == Permutations(Folder) \cup Permutations(Caller)
=============================================================================
