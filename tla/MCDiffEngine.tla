---------------------------- MODULE MCDiffEngine ----------------------------
(* Constants for the run of the two halves of DiffEngine, which share no     *)
(* state: the loops of compute_remote_changes and merge_actions (MergeLoop)  *)
(* and compute_local_changes on a directory that changes (DirectoryScan).    *)
(*                                                                           *)
(* MergeLoop: two paths, two ids, every pairing of a directory with a table  *)
(* whose rows claim different ids. DirectoryScan: two files.                 *)
EXTENDS MergeLoop, DirectoryScan, TLC

Symmetry == Permutations(Content) \cup Permutations(Path)

MCDisks == [Path -> [md5 : Content, mtime : {1, 2}] \cup {None}]

MCRows == [id : FileId, driveMd5 : Content, driveModified : {1},
           localMd5 : Content, localModified : {1}]

MCTables ==
  {t \in [Path -> MCRows \cup {None}] :
     /\ \A p, q \in Path : t[p] # None /\ t[q] # None /\ t[p].id = t[q].id => p = q
     /\ \A p \in Path : t[p] # None => t[p].driveMd5 = t[p].localMd5}

\* Only a live file's time is read.
MCEntries ==
  {e \in [id : FileId, name : Path, md5 : Content, modified : {1, 2}, rev : {0},
          status : Statuses] :
     e.status # "live" => e.modified = 1}

VARIABLE half  \* the half that this behaviour shows

\* The state of the half that rests.
MergeRests ==
  /\ local = [p \in Path |-> None] /\ rows = [p \in Path |-> None]
  /\ list = <<>> /\ byPath = [p \in Path |-> None]

MCInit ==
  \/ half = "merge" /\ Init /\ ScanInit /\ \A p \in Name : disk[p] = None
  \/ half = "scan" /\ ScanInit /\ MergeRests

MCNext ==
  \/ half = "merge" /\ Next /\ UNCHANGED scanVars
  \/ half = "scan" /\ ScanNext /\ UNCHANGED vars

MCSpec == MCInit /\ [][MCNext /\ UNCHANGED half]_<<half, vars, scanVars>>
=============================================================================
