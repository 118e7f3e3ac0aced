------------------------------ MODULE DriveCall -----------------------------
(***************************************************************************)
(* What one call of the Drive client promises its caller, the sync cycle:  *)
(* the change it asks for is made at most once; Ok means that it is made;  *)
(* an error says nothing, and the change may even be made afterwards.      *)
(***************************************************************************)
EXTENDS Integers

CONSTANTS
  Op,      \* kinds of calls
  Changes  \* those that change something on Drive

VARIABLES
  op, outcome,
  \* How often Drive has made the change.
  effects

vars == <<op, outcome, effects>>

Init == op \in Op /\ outcome = "pending" /\ effects = 0

Perform ==
  /\ op \in Changes /\ outcome # "ok" /\ effects = 0
  /\ effects' = 1
  /\ UNCHANGED <<op, outcome>>

Return(result) ==
  /\ outcome = "pending"
  /\ result = "ok" /\ op \in Changes => effects = 1
  /\ outcome' = result
  /\ UNCHANGED <<op, effects>>

Next == Perform \/ Return("ok") \/ Return("error")

Spec == Init /\ [][Next]_vars
=============================================================================
