---------------------------- MODULE MCSyncCycle ----------------------------
(* Constants for the runs of SyncCycle. *)
EXTENDS SyncCycle, TLC

CONSTANTS MaxLocal, MaxRemote, MaxFaults

MCMaxSteps == [k \in {"local", "remote", "fault"} |->
                CASE k = "local" -> MaxLocal [] k = "remote" -> MaxRemote
                  [] k = "fault" -> MaxFaults]

ContentSymmetry == Permutations(Content)

EmptyDrive == [i \in FileId |-> None]

OneFileDrive ==
  [EmptyDrive EXCEPT ![1] = [name |-> "g", md5 |-> CHOOSE c \in Content : TRUE,
                             modified |-> 1, rev |-> 1, status |-> "live"]]
=============================================================================
