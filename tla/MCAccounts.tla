----------------------------- MODULE MCAccounts -----------------------------
(* Readers are alike. *)
EXTENDS Accounts, TLC

Symmetry == Permutations(Reader)
=============================================================================
