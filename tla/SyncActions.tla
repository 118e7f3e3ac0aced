---------------------------- MODULE SyncActions ----------------------------
(***************************************************************************)
(* The pure half of a sync cycle: how gds-core's DiffEngine compares the   *)
(* local directory, the file_states table and a list of Drive changes, how *)
(* it merges the two action lists, and the priority under which SyncQueue  *)
(* hands the merged actions out.                                           *)
(*                                                                         *)
(* Data is abstracted to what the engine compares:                         *)
(*   - a path is an opaque name (the folder is flat: a Drive file whose    *)
(*     parent is not the sync folder has no path and never gets here);     *)
(*   - an MD5 is the content itself (a member of Content);                 *)
(*   - a local mtime is the ordinal of the write to that path, and a Drive *)
(*     modifiedTime the number of the Drive change that set it: times are  *)
(*     only ever compared for equality, with a time of the same side;      *)
(*   - 0 is a time no file has (an absent Option, or a stored time that    *)
(*     cannot equal the file's).                                           *)
(* A set of actions stands for the code's Vec or HashMap: after the merge  *)
(* there is one action per path, and between changes the change number     *)
(* carries the order of the list.                                          *)
(***************************************************************************)
EXTENDS Naturals

CONSTANTS
  Path,     \* relative paths
  Content,  \* file contents (their MD5s)
  FileId,   \* Drive file ids, handed out in increasing order
  None      \* Rust's Option::None

ASSUME FileIdAssumption == FileId \subseteq Nat
ASSUME NoneAssumption == None \notin Content

NoTime == 0

(***************************************************************************)
(* What the engine reads: local metadata, file_states rows, change entries *)
(***************************************************************************)

LocalFileMeta == [md5 : Content, mtime : Nat]

FileState == [id : FileId,
              driveMd5 : Content \cup {None}, driveModified : Nat,
              localMd5 : Content, localModified : Nat]

Statuses == {"live", "trashed", "removed"}

\* rev is the number of the file's last change, modified that of the last
\* change of its content: renaming and trashing leave modifiedTime alone.
DriveFile == [name : Path, md5 : Content, modified : Nat, rev : Nat, status : Statuses]

DriveChange == [id : FileId, name : Path, md5 : Content, modified : Nat, rev : Nat,
                status : Statuses]

(***************************************************************************)
(* Sync actions                                                            *)
(***************************************************************************)

UploadKinds == {"NewUpload", "UpdateUpload"}
DownloadKinds == {"NewDownload", "UpdateDownload"}
DeleteKinds == {"DeleteRemote", "DeleteLocal"}
Kinds == UploadKinds \cup DownloadKinds \cup DeleteKinds \cup {"Conflict"}

SyncAction == [kind : Kinds, path : Path,
               state : FileState \cup {None},
               md5 : Content \cup {None}, mtime : Nat,
               file : DriveChange \cup {None}]

\* An action built from the local side (upload or remote deletion), and one
\* built from a change entry (download or local deletion).  The entry also
\* stands for the place of the action in the list.
FromLocal(kind, p, state, md5, mtime) ==
  [kind |-> kind, path |-> p, state |-> state,
   md5 |-> md5, mtime |-> mtime, file |-> None]

FromChange(kind, p, state, c) ==
  [kind |-> kind, path |-> p, state |-> state,
   md5 |-> None, mtime |-> NoTime, file |-> c]

\* A faulty variant: the parts that come from the local side are left out.
Conflict_NoLocalParts(up, down) == [down EXCEPT !.kind = "Conflict"]

Conflict(up, down) ==
  [down EXCEPT !.kind = "Conflict", !.state = up.state,
               !.md5 = up.md5, !.mtime = up.mtime]

\* The parts execute_one demands of an action of each kind.
Complete(a) ==
  /\ a.kind \in UploadKinds \cup {"Conflict"} => a.md5 \in Content /\ a.mtime # NoTime
  /\ a.kind \in {"UpdateUpload", "UpdateDownload", "Conflict"} \cup DeleteKinds =>
       a.state # None
  /\ a.kind \in DownloadKinds \cup {"Conflict"} => a.file # None

\* SyncQueue pops the smallest number first.
Priority(kind) ==
  CASE kind \in DownloadKinds -> 0
    [] kind = "Conflict"      -> 1
    [] kind \in UploadKinds   -> 2
    [] kind \in DeleteKinds   -> 3

(***************************************************************************)
(* Local side                                                              *)
(***************************************************************************)

\* The MD5 or the mtime differs from what the row recorded.
LocalChanged(meta, row) ==
  \/ row.localMd5 # meta.md5
  \/ row.localModified # meta.mtime

ComputeLocalChanges(local, rows) ==
  LET onDisk == {p \in Path : local[p] # None}
      known  == {p \in Path : rows[p] # None}
  IN  {FromLocal("NewUpload", p, None, local[p].md5, local[p].mtime) :
         p \in onDisk \ known}
      \cup
      {FromLocal("UpdateUpload", p, rows[p], local[p].md5, local[p].mtime) :
         p \in {q \in onDisk \cap known : LocalChanged(local[q], rows[q])}}
      \cup
      {FromLocal("DeleteRemote", p, rows[p], None, NoTime) :
         p \in known \ onDisk}

(***************************************************************************)
(* Remote side                                                             *)
(***************************************************************************)

\* by_drive_id: the path whose row holds this Drive id.
HasRow(id, rows) == \E p \in Path : rows[p] # None /\ rows[p].id = id
RowPath(id, rows) == CHOOSE p \in Path : rows[p] # None /\ rows[p].id = id

\* A faulty variant: the row of the id is not looked up.
ChangePath_ByName(c, rows) == c.name

ChangePath(c, rows) == IF HasRow(c.id, rows) THEN RowPath(c.id, rows) ELSE c.name

RemoteChanged(c, row) == row.driveMd5 # c.md5 \/ row.driveModified # c.modified

\* A removed id without a row, a trashed file and a file equal to its row
\* yield no action.
YieldsAction(c, rows) ==
  \/ c.status = "removed" /\ HasRow(c.id, rows)
  \/ /\ c.status = "live"
     /\ LET row == rows[ChangePath(c, rows)]
        IN  row # None => RemoteChanged(c, row)

RemoteKind(c, rows) ==
  IF c.status = "removed" THEN "DeleteLocal"
  ELSE IF rows[ChangePath(c, rows)] # None THEN "UpdateDownload"
  ELSE "NewDownload"

RemoteAction(c, rows) ==
  LET p == ChangePath(c, rows) IN FromChange(RemoteKind(c, rows), p, rows[p], c)

ComputeRemoteChanges(changes, rows) ==
  {RemoteAction(c, rows) : c \in {d \in changes : YieldsAction(d, rows)}}

(***************************************************************************)
(* The merge, keyed by path.  Remote actions are taken in list order and   *)
(* replace what the path holds, except that UpdateDownload on top of       *)
(* UpdateUpload becomes a Conflict.  No remote action is an UpdateUpload,  *)
(* so only the first remote action of a path can meet one, and any later   *)
(* action of that path replaces the outcome: the result for a path is its  *)
(* last remote action, turned into a Conflict when it is the only one.     *)
(* MergeLoop checks this form against the loop of the code.                *)
(***************************************************************************)

OnPath(actions, p) == {a \in actions : a.path = p}

LastOnPath(a, actions) == \A b \in OnPath(actions, a.path) : b.file.rev <= a.file.rev

\* A faulty variant: the server wins without a conflict.
Resolve_ServerWins(down, localActions, remoteActions) == down

Resolve(down, localActions, remoteActions) ==
  LET edited == {u \in OnPath(localActions, down.path) : u.kind = "UpdateUpload"}
  IN  IF /\ down.kind = "UpdateDownload"
         /\ edited # {}
         /\ OnPath(remoteActions, down.path) = {down}
      THEN Conflict(CHOOSE u \in edited : TRUE, down)
      ELSE down

\* A faulty variant: an upload stays beside the remote action of its path.
MergeActions_KeepsUploads(localActions, remoteActions) ==
  {u \in localActions : u.kind \in UploadKinds \/ OnPath(remoteActions, u.path) = {}}
  \cup
  {d \in remoteActions : LastOnPath(d, remoteActions)}

MergeActions(localActions, remoteActions) ==
  {u \in localActions : OnPath(remoteActions, u.path) = {}}
  \cup
  {Resolve(d, localActions, remoteActions) :
     d \in {e \in remoteActions : LastOnPath(e, remoteActions)}}

\* SyncQueue::pop; the order of paths within a priority is left open.
IsNext(a, queue) == \A b \in queue : Priority(a.kind) <= Priority(b.kind)
=============================================================================
