---------------------------- MODULE MCLifecycle ----------------------------
(* Symmetry for the runs of Lifecycle. *)
EXTENDS Lifecycle, TLC

Symmetry == Permutations(Process) \cup Permutations(Cli)
=============================================================================
