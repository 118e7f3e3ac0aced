----------------------------- MODULE SyncCycle -----------------------------
(***************************************************************************)
(* One sync folder: the local directory, the Drive folder, the file_states *)
(* table with the folder's page token, and the daemon task that runs sync  *)
(* cycles over them (run_sync_loop and SyncExecutor), while users edit     *)
(* both sides, pause and resume, and the daemon crashes or an API call     *)
(* fails.                                                                  *)
(*                                                                         *)
(* A cycle is: take the stored page token, page through changes.list, scan *)
(* the directory and merge (one step), pop and execute the actions one at  *)
(* a time, and store the new token.  Each await of execute_one at which a  *)
(* file, the Drive or the database changes is a step of its own.           *)
(***************************************************************************)
EXTENDS SyncActions

CONSTANTS
  UserPath,        \* names local users create; the others are conflict copies
  RemotePath,      \* names remote users create
  InitialDrive,    \* the Drive folder when it is added, and the number of
  InitialHead,     \*   its last change
  Large,           \* names whose uploads take the resumable protocol (> 5 MB)
  MtimeSurvives,   \* TRUE: mtimes have no digits below the stored millisecond
  LocalOps,        \* what local users do: "write", "delete"
  RemoteOps,       \* "create", "duplicate", "edit", "rename", "trash", "remove"
  EditPhases,      \* the phases of the daemon in which local users act
  FaultKinds,      \* "failedCall", "lostResponse", "crash"
  UserMayPause,
  SinglePage,      \* TRUE: changes.list never needs a second page
  MaxSteps,        \* bound: steps of each of "local", "remote", "fault"
  MaxChanges       \* bound: no cycle starts after this many Drive changes

Phases == {"idle", "fetch", "scan", "execute", "advance"}

ASSUME CycleAssumption ==
  /\ None \notin DriveFile
  /\ UserPath \subseteq Path /\ RemotePath \subseteq Path
  /\ InitialDrive \in [FileId -> DriveFile \cup {None}]
  /\ InitialHead \in Nat
  /\ \A i \in FileId : InitialDrive[i] # None =>
       InitialDrive[i].modified <= InitialDrive[i].rev /\ InitialDrive[i].rev <= InitialHead
  /\ \A i, j \in FileId :
       InitialDrive[i] # None /\ InitialDrive[j] # None
         /\ InitialDrive[i].rev = InitialDrive[j].rev => i = j
  /\ Large \subseteq Path
  /\ MtimeSurvives \in BOOLEAN /\ UserMayPause \in BOOLEAN
  /\ LocalOps \subseteq {"write", "delete"}
  /\ RemoteOps \subseteq {"create", "duplicate", "edit", "rename", "trash", "remove"}
  /\ EditPhases \subseteq Phases
  /\ FaultKinds \subseteq {"failedCall", "lostResponse", "crash"}
  /\ SinglePage \in BOOLEAN
  /\ MaxChanges \in Nat
  /\ MaxSteps \in [{"local", "remote", "fault"} -> Nat]

VARIABLES
  \* The local directory and the number of writes each path has seen.
  local, writes,
  \* The Drive folder and the number of its last change.
  drive, head,
  \* SQLite: file_states by path, sync_folders.start_page_token and .paused.
  rows, token, folderPaused,
  \* The cycle, all of it in memory: phase, page cursor, fetched changes,
  \* newStartPageToken, queued actions and the action being executed.
  phase, cursor, changes, newToken, queue, op,
  \* The shared pause flag, and how far a D-Bus pause or resume call is.
  pause, call,
  \* History: the token the folder started from, and how many bounded steps
  \* were taken.
  start, steps

files    == <<local, writes>>
server   == <<drive, head>>
database == <<rows, token, folderPaused>>
memory   == <<phase, cursor, changes, newToken, queue, op>>
control  == <<pause, call>>
vars     == <<files, server, database, memory, control, start, steps>>

-----------------------------------------------------------------------------
(***************************************************************************)
(* Types                                                                   *)
(***************************************************************************)

Stages == {"begin", "read", "copied", "fetched", "written", "sent", "dropped"}

\* What an upload's response says of the stored file.
Response == [id : FileId, md5 : Content \cup {None}, modified : Nat]

\* execute_one: the action, how far it is, the local bytes it read, the bytes
\* it downloaded, the conflict copy it wrote, the upload response it holds.
Operation == [action : SyncAction, stage : Stages,
              content : Content \cup {None}, server : Content \cup {None},
              copy : Path \cup {None}, file : Response \cup {None}]

ASSUME NoneIsApart == None \notin Nat \cup LocalFileMeta \cup FileState \cup Operation

TypeOK ==
  /\ local \in [Path -> LocalFileMeta \cup {None}]
  /\ writes \in [Path -> Nat]
  /\ drive \in [FileId -> DriveFile \cup {None}]
  /\ head \in Nat
  /\ rows \in [Path -> FileState \cup {None}]
  /\ token \in Nat \cup {None}
  /\ start \in Nat \cup {None}
  /\ folderPaused \in BOOLEAN
  /\ phase \in Phases
  /\ cursor \in Nat
  /\ changes \subseteq DriveChange
  /\ newToken \in Nat
  /\ queue \subseteq SyncAction
  /\ op \in Operation \cup {None}
  /\ pause \in BOOLEAN
  /\ call \in {"none", "pausing", "resuming"}
  /\ steps \in [{"local", "remote", "fault"} -> Nat]

-----------------------------------------------------------------------------
Init ==
  /\ local = [p \in Path |-> None]
  /\ writes = [p \in Path |-> 0]
  /\ drive = InitialDrive
  /\ head = InitialHead
  /\ rows = [p \in Path |-> None]
  /\ token = None /\ start = None
  /\ folderPaused = FALSE
  /\ phase = "idle" /\ cursor = 0 /\ changes = {} /\ newToken = 0
  /\ queue = {} /\ op = None
  /\ pause = FALSE /\ call = "none"
  /\ steps = [k \in {"local", "remote", "fault"} |-> 0]

Spend(kind) ==
  /\ steps[kind] < MaxSteps[kind]
  /\ steps' = [steps EXCEPT ![kind] = @ + 1]

\* Everything a cycle holds in memory is dropped: what an error return of
\* run_sync_loop and a crash have in common.
Forget ==
  /\ phase' = "idle" /\ cursor' = 0 /\ changes' = {} /\ newToken' = 0
  /\ queue' = {} /\ op' = None

-----------------------------------------------------------------------------
(***************************************************************************)
(* The users of both sides                                                 *)
(***************************************************************************)

WriteFile(p, c) ==
  /\ writes' = [writes EXCEPT ![p] = @ + 1]
  /\ local' = [local EXCEPT ![p] = [md5 |-> c, mtime |-> writes[p] + 1]]

UserWrites(p, c) ==
  /\ "write" \in LocalOps /\ phase \in EditPhases
  /\ Spend("local")
  /\ WriteFile(p, c)
  /\ UNCHANGED <<server, database, memory, control, start>>

UserDeletes(p) ==
  /\ "delete" \in LocalOps /\ phase \in EditPhases
  /\ local[p] # None
  /\ Spend("local")
  /\ local' = [local EXCEPT ![p] = None]
  /\ UNCHANGED <<writes, server, database, memory, control, start>>

\* Every change of the Drive folder takes the next change number.
PutFile(id, f) ==
  /\ head' = head + 1
  /\ drive' = [drive EXCEPT ![id] = f]

NextId(id) ==
  /\ drive[id] = None
  /\ \A i \in FileId : i < id => drive[i] # None

NewFile(p, c) == [name |-> p, md5 |-> c, modified |-> head + 1, rev |-> head + 1,
                  status |-> "live"]
Rewritten(id, c) == [drive[id] EXCEPT !.md5 = c, !.modified = head + 1, !.rev = head + 1]
Renamed(id, p) == [drive[id] EXCEPT !.name = p, !.rev = head + 1]
Marked(id, status) == [drive[id] EXCEPT !.status = status, !.rev = head + 1]

Named(p) == {i \in FileId : drive[i] # None /\ drive[i].status # "removed"
                                            /\ drive[i].name = p}

\* Drive lets two files of a folder have one name ("duplicate").
RemoteCreates(p, c, id) ==
  /\ \/ "create" \in RemoteOps /\ Named(p) = {}
     \/ "duplicate" \in RemoteOps /\ Named(p) # {}
  /\ NextId(id)
  /\ Spend("remote")
  /\ PutFile(id, NewFile(p, c))
  /\ UNCHANGED <<files, database, memory, control, start>>

RemoteEdits(id, c) ==
  /\ "edit" \in RemoteOps
  /\ drive[id] # None /\ drive[id].status = "live"
  /\ Spend("remote")
  /\ PutFile(id, Rewritten(id, c))
  /\ UNCHANGED <<files, database, memory, control, start>>

RemoteRenames(id, p) ==
  /\ "rename" \in RemoteOps
  /\ drive[id] # None /\ drive[id].status = "live" /\ drive[id].name # p
  /\ Named(p) = {}
  /\ Spend("remote")
  /\ PutFile(id, Renamed(id, p))
  /\ UNCHANGED <<files, database, memory, control, start>>

RemoteTrashes(id) ==
  /\ "trash" \in RemoteOps
  /\ drive[id] # None /\ drive[id].status = "live"
  /\ Spend("remote")
  /\ PutFile(id, Marked(id, "trashed"))
  /\ UNCHANGED <<files, database, memory, control, start>>

RemoteRemoves(id) ==
  /\ "remove" \in RemoteOps
  /\ drive[id] # None /\ drive[id].status # "removed"
  /\ Spend("remote")
  /\ PutFile(id, Marked(id, "removed"))
  /\ UNCHANGED <<files, database, memory, control, start>>

(***************************************************************************)
(* pause_sync and resume_sync store the shared flag first and write the    *)
(* folder row afterwards.                                                  *)
(***************************************************************************)

PauseFlag ==
  /\ UserMayPause /\ call = "none"
  /\ pause' = TRUE /\ call' = "pausing"
  /\ UNCHANGED <<files, server, database, memory, start, steps>>

ResumeFlag ==
  /\ UserMayPause /\ call = "none"
  /\ pause' = FALSE /\ call' = "resuming"
  /\ UNCHANGED <<files, server, database, memory, start, steps>>

SetFolderPaused ==
  /\ call # "none"
  /\ folderPaused' = (call = "pausing")
  /\ call' = "none"
  /\ UNCHANGED <<files, server, rows, token, memory, pause, start, steps>>

-----------------------------------------------------------------------------
(***************************************************************************)
(* run_sync_loop up to the queue                                           *)
(***************************************************************************)

\* A folder without a token starts from the Drive's present: its first cycle
\* asks for a start token and stores it before it lists anything.
FirstCycle ==
  /\ phase = "idle" /\ ~folderPaused /\ token = None
  /\ token' = head /\ start' = head
  /\ phase' = "fetch" /\ cursor' = head
  /\ UNCHANGED <<files, server, rows, folderPaused, changes, newToken, queue, op,
                 control, steps>>

StartCycle ==
  /\ phase = "idle" /\ ~folderPaused /\ token # None
  /\ head <= MaxChanges
  /\ phase' = "fetch" /\ cursor' = token
  /\ UNCHANGED <<files, server, database, changes, newToken, queue, op, control, start, steps>>

Entry(id) == [id |-> id, name |-> drive[id].name, md5 |-> drive[id].md5,
              modified |-> drive[id].modified, rev |-> drive[id].rev,
              status |-> drive[id].status]

\* A faulty variant: nextPageToken is ignored.
FetchPage_FirstOnly ==
  /\ phase = "fetch"
  /\ LET new == {i \in FileId : drive[i] # None /\ drive[i].rev > cursor}
     IN  \/ new = {} /\ UNCHANGED changes
         \/ \E last \in new :
              changes' = {Entry(i) : i \in {j \in new : drive[j].rev <= drive[last].rev}}
  /\ phase' = "scan" /\ newToken' = head
  /\ UNCHANGED <<files, server, database, cursor, queue, op, control, start, steps>>

\* One page of changes.list.  Drive lists each file once, at its last change,
\* in the order of these, and cuts pages where it likes; the page that reaches
\* the end carries newStartPageToken.
FetchPage ==
  /\ phase = "fetch"
  /\ LET new == {i \in FileId : drive[i] # None /\ drive[i].rev > cursor}
     IN  \/ /\ new = {}
            /\ phase' = "scan" /\ newToken' = head
            /\ UNCHANGED <<cursor, changes>>
         \/ \E last \in new :
              LET page == {i \in new : drive[i].rev <= drive[last].rev}
              IN  /\ SinglePage => page = new
                  /\ changes' = changes \cup {Entry(i) : i \in page}
                  /\ cursor' = drive[last].rev
                  /\ \/ page = new /\ phase' = "scan" /\ newToken' = head
                     \/ page # new /\ UNCHANGED <<phase, newToken>>
  /\ UNCHANGED <<files, server, database, queue, op, control, start, steps>>

\* A faulty variant: a cycle without actions ends at once.
Scan_StopsEarly ==
  /\ phase = "scan"
  /\ queue' = MergeActions(ComputeLocalChanges(local, rows),
                           ComputeRemoteChanges(changes, rows))
  /\ phase' = IF queue' = {} THEN "idle" ELSE "execute"
  /\ cursor' = 0 /\ changes' = {}
  /\ UNCHANGED <<files, server, database, newToken, op, control, start, steps>>

\* compute_local_changes, compute_remote_changes, merge_actions, from_actions.
Scan ==
  /\ phase = "scan"
  /\ queue' = MergeActions(ComputeLocalChanges(local, rows),
                           ComputeRemoteChanges(changes, rows))
  /\ phase' = "execute" /\ cursor' = 0 /\ changes' = {}
  /\ UNCHANGED <<files, server, database, newToken, op, control, start, steps>>

(***************************************************************************)
(* SyncExecutor::run                                                       *)
(***************************************************************************)

Pop(a) ==
  /\ phase = "execute" /\ op = None /\ ~pause
  /\ IsNext(a, queue)
  /\ queue' = queue \ {a}
  /\ op' = [action |-> a, stage |-> "begin", content |-> None, server |-> None,
            copy |-> None, file |-> None]
  /\ UNCHANGED <<files, server, database, phase, cursor, changes, newToken,
                 control, start, steps>>

\* The flag is read after pop(): this action and the rest of the queue are
\* dropped, and run returns Ok.
StopForPause ==
  /\ phase = "execute" /\ op = None /\ pause /\ queue # {}
  /\ queue' = {} /\ phase' = "advance"
  /\ UNCHANGED <<files, server, database, cursor, changes, newToken, op, control, start, steps>>

QueueEmpty ==
  /\ phase = "execute" /\ op = None /\ queue = {}
  /\ phase' = "advance"
  /\ UNCHANGED <<files, server, database, cursor, changes, newToken, queue, op,
                 control, start, steps>>

\* update_page_token, after any Ok of run.
AdvanceToken ==
  /\ phase = "advance"
  /\ token' = newToken
  /\ phase' = "idle" /\ newToken' = 0
  /\ UNCHANGED <<files, server, rows, folderPaused, cursor, changes, queue, op,
                 control, start, steps>>

(***************************************************************************)
(* SyncExecutor::execute_one, one action per await that touches a store    *)
(***************************************************************************)

At(stage, kinds) ==
  /\ op # None
  /\ op.stage = stage
  /\ op.action.kind \in kinds

\* The rest of the cycle's memory while an action executes.
Queued == <<phase, cursor, changes, newToken, queue>>

\* An error of execute_one ends the run and the cycle.
Fail ==
  /\ Forget
  /\ UNCHANGED <<files, server, database, control, start, steps>>

\* The Drive call took effect, and its answer arrives or is lost.
AnsweredOrLost(op1) ==
  \/ op' = op1 /\ UNCHANGED <<Queued, steps>>
  \/ "lostResponse" \in FaultKinds /\ Spend("fault") /\ Forget

ReadLocalFile ==
  /\ At("begin", UploadKinds \cup {"Conflict"})
  /\ LET p == op.action.path
     IN  \/ /\ local[p] # None
            /\ op' = [op EXCEPT !.stage = "read", !.content = local[p].md5]
            /\ UNCHANGED <<files, server, database, Queued, control, start, steps>>
         \/ local[p] = None /\ Fail

\* A faulty variant: no upload asks for the stored checksum and time.
UploadAnswer_NoFields(id, p, c) == [id |-> id, md5 |-> None, modified |-> NoTime]

\* files_create_simple asks for the stored checksum and time; a resumable
\* upload does not, and its answer has neither.
UploadAnswer(id, p, c) ==
  IF p \in Large THEN [id |-> id, md5 |-> None, modified |-> NoTime]
                 ELSE [id |-> id, md5 |-> c, modified |-> head + 1]

CreateRemoteFile(id) ==
  /\ At("read", {"NewUpload"})
  /\ NextId(id)
  /\ LET p == op.action.path
     IN  /\ PutFile(id, NewFile(p, op.content))
         /\ AnsweredOrLost([op EXCEPT !.stage = "sent",
                                      !.file = UploadAnswer(id, p, op.content)])
  /\ UNCHANGED <<files, database, control, start>>

\* The content replaces whatever the Drive file holds; only an id that no
\* longer exists is refused.
UpdateRemoteFile ==
  /\ At("read", {"UpdateUpload"})
  /\ LET id == op.action.state.id
     IN  \/ /\ drive[id].status # "removed"
            /\ PutFile(id, Rewritten(id, op.content))
            /\ AnsweredOrLost([op EXCEPT !.stage = "sent",
                 !.file = UploadAnswer(id, op.action.path, op.content)])
            /\ UNCHANGED <<files, database, control, start>>
         \/ drive[id].status = "removed" /\ Fail

\* The mtime of the scan as the row gives it back: the column holds
\* milliseconds.
StoredMtime(mtime) == IF MtimeSurvives THEN mtime ELSE NoTime

\* A faulty variant: the local side of the row is read from the file when the
\* upload is over.
RecordUpload_Restat ==
  /\ At("sent", UploadKinds)
  /\ LET p == op.action.path
     IN  /\ local[p] # None
         /\ rows' = [rows EXCEPT ![p] =
                       [id |-> op.file.id,
                        driveMd5 |-> op.file.md5, driveModified |-> op.file.modified,
                        localMd5 |-> local[p].md5, localModified |-> local[p].mtime]]
  /\ op' = None
  /\ UNCHANGED <<files, server, token, folderPaused, Queued, control, start, steps>>

\* file_state_after_upload: Drive's side from the answer, the local side from
\* the scan.  upsert ends the action.
RecordUpload ==
  /\ At("sent", UploadKinds)
  /\ rows' = [rows EXCEPT ![op.action.path] =
                [id |-> op.file.id,
                 driveMd5 |-> op.file.md5, driveModified |-> op.file.modified,
                 localMd5 |-> op.action.md5,
                 localModified |-> StoredMtime(op.action.mtime)]]
  /\ op' = None
  /\ UNCHANGED <<files, server, token, folderPaused, Queued, control, start, steps>>

\* A name nobody has used: the conflict copy carries the time of the conflict.
Copies == Path \ (UserPath \cup RemotePath)
FreshCopy(q) == q \in Copies /\ writes[q] = 0

WriteConflictCopy ==
  /\ At("read", {"Conflict"})
  /\ \E r \in Path : FreshCopy(r)
  /\ LET q == CHOOSE r \in Path : FreshCopy(r)
     IN  /\ WriteFile(q, op.content)
         /\ op' = [op EXCEPT !.stage = "copied", !.copy = q]
  /\ UNCHANGED <<server, database, Queued, control, start, steps>>

\* files_get_media returns what the file holds now.
FetchContent ==
  /\ \/ At("begin", DownloadKinds)
     \/ At("copied", {"Conflict"})
  /\ LET id == op.action.file.id
     IN  \/ /\ drive[id].status # "removed"
            /\ op' = [op EXCEPT !.stage = "fetched", !.server = drive[id].md5]
            /\ UNCHANGED <<files, server, database, Queued, control, start, steps>>
         \/ drive[id].status = "removed" /\ Fail

\* write_atomic over the local path.
WriteDownload ==
  /\ At("fetched", DownloadKinds \cup {"Conflict"})
  /\ WriteFile(op.action.path, op.server)
  /\ op' = [op EXCEPT !.stage = "written"]
  /\ UNCHANGED <<server, database, Queued, control, start, steps>>

\* A faulty variant: the row takes the checksum of the file that was replaced.
RecordDownload_OldMd5 ==
  /\ At("written", DownloadKinds \cup {"Conflict"})
  /\ LET c == op.action.file
     IN  rows' = [rows EXCEPT ![op.action.path] =
                    [id |-> c.id, driveMd5 |-> c.md5, driveModified |-> c.modified,
                     localMd5 |-> op.content, localModified |-> NoTime]]
  /\ op' = None
  /\ UNCHANGED <<files, server, token, folderPaused, Queued, control, start, steps>>

\* file_state_after_download: both sides from the change entry.  The Drive
\* modification time stands in for the mtime of the file just written, which
\* no file has.
RecordDownload ==
  /\ At("written", DownloadKinds \cup {"Conflict"})
  /\ LET c == op.action.file
     IN  rows' = [rows EXCEPT ![op.action.path] =
                    [id |-> c.id, driveMd5 |-> c.md5, driveModified |-> c.modified,
                     localMd5 |-> c.md5, localModified |-> NoTime]]
  /\ op' = None
  /\ UNCHANGED <<files, server, token, folderPaused, Queued, control, start, steps>>

\* files_delete: an id that is gone already is an error.
DeleteRemoteFile ==
  /\ At("begin", {"DeleteRemote"})
  /\ LET id == op.action.state.id
     IN  \/ /\ drive[id].status # "removed"
            /\ PutFile(id, Marked(id, "removed"))
            /\ AnsweredOrLost([op EXCEPT !.stage = "dropped"])
            /\ UNCHANGED <<files, database, control, start>>
         \/ drive[id].status = "removed" /\ Fail

\* remove_file: a file that is gone already is an error.
DeleteLocalFile ==
  /\ At("begin", {"DeleteLocal"})
  /\ LET p == op.action.path
     IN  \/ /\ local[p] # None
            /\ local' = [local EXCEPT ![p] = None]
            /\ op' = [op EXCEPT !.stage = "dropped"]
            /\ UNCHANGED <<writes, server, database, Queued, control, start, steps>>
         \/ local[p] = None /\ Fail

\* A faulty variant: the row of a deleted file stays.
DropRow_KeepsRow ==
  /\ At("dropped", DeleteKinds)
  /\ op' = None
  /\ UNCHANGED <<files, server, database, Queued, control, start, steps>>

DropRow ==
  /\ At("dropped", DeleteKinds)
  /\ rows' = [rows EXCEPT ![op.action.path] = None]
  /\ op' = None
  /\ UNCHANGED <<files, server, token, folderPaused, Queued, control, start, steps>>

(***************************************************************************)
(* Faults                                                                  *)
(***************************************************************************)

\* An HTTP, file or database call of the cycle fails without effect.
CallFails ==
  /\ "failedCall" \in FaultKinds
  /\ phase # "idle"
  /\ Spend("fault")
  /\ Forget
  /\ UNCHANGED <<files, server, database, control, start>>

\* The daemon dies and is started again: the pause flag starts FALSE, and
\* what the database holds stays.
Crash ==
  /\ "crash" \in FaultKinds
  /\ Spend("fault")
  /\ Forget
  /\ pause' = FALSE /\ call' = "none"
  /\ UNCHANGED <<files, server, database, start>>

-----------------------------------------------------------------------------
Users ==
  \/ \E p \in UserPath, c \in Content : UserWrites(p, c)
  \/ \E p \in UserPath : UserDeletes(p)
  \/ \E p \in RemotePath, c \in Content, id \in FileId : RemoteCreates(p, c, id)
  \/ \E id \in FileId, c \in Content : RemoteEdits(id, c)
  \/ \E id \in FileId, p \in RemotePath : RemoteRenames(id, p)
  \/ \E id \in FileId : RemoteTrashes(id) \/ RemoteRemoves(id)
  \/ PauseFlag \/ ResumeFlag

Daemon ==
  \/ SetFolderPaused
  \/ FirstCycle \/ StartCycle \/ FetchPage \/ Scan
  \/ \E a \in queue : Pop(a)
  \/ StopForPause \/ QueueEmpty \/ AdvanceToken
  \/ ReadLocalFile
  \/ \E id \in FileId : CreateRemoteFile(id)
  \/ UpdateRemoteFile \/ RecordUpload
  \/ WriteConflictCopy \/ FetchContent \/ WriteDownload \/ RecordDownload
  \/ DeleteRemoteFile \/ DeleteLocalFile \/ DropRow

Faults == CallFails \/ Crash

Next == Users \/ Daemon \/ Faults

Spec == Init /\ [][Next]_vars

\* The scheduler starts another cycle at every poll tick and the executor runs
\* to the end of its queue, so the daemon never stops for good.  Users and
\* faults owe nothing.
FairSpec == Spec /\ WF_vars(Daemon)

-----------------------------------------------------------------------------
(***************************************************************************)
(* Properties                                                              *)
(***************************************************************************)

\* A file the next scan will not upload, and a file whose next change entry
\* will yield no action.
LooksUnchangedLocally(p) ==
  local[p] # None /\ rows[p] # None /\ ~LocalChanged(local[p], rows[p])

LooksUnchangedRemotely(p) ==
  rows[p] # None /\ ~RemoteChanged(drive[rows[p].id], rows[p])

\* No silent divergence: when neither side of a file looks changed to the
\* engine, so that no later cycle would touch it, both hold the same content.
\* An edit made while its file is uploaded or downloaded, a lost response or
\* a crash before the row is written must each leave a side that looks changed.
NoSilentDivergence ==
  \A p \in Path :
    LooksUnchangedLocally(p) /\ LooksUnchangedRemotely(p)
      => local[p].md5 = drive[rows[p].id].md5

\* The stored page token is honest: a Drive file whose last change lies between
\* the folder's first token and the stored one is recorded at that change (or in
\* no row at all once removed), so no change is skipped by a failed, crashed or
\* repeated cycle.
TokenHonest ==
  token # None =>
    \A id \in FileId :
      drive[id] # None /\ drive[id].rev \in (start + 1) .. token =>
        CASE drive[id].status = "live" ->
               HasRow(id, rows) /\ ~RemoteChanged(drive[id], rows[RowPath(id, rows)])
          [] drive[id].status = "removed" -> ~HasRow(id, rows)
          [] OTHER -> TRUE

\* Two live files of the Drive folder never have one name.
DistinctIn(names) ==
  \A i, j \in FileId :
    /\ drive[i] # None /\ drive[i].status = "live"
    /\ drive[j] # None /\ drive[j].status = "live"
    /\ drive[i].name = drive[j].name /\ drive[i].name \in names
    => i = j

\* A local file is uploaded under one id only: no crash, lost response or
\* failed call between files.create and the row makes a second live file of
\* the same name, of the names that only the daemon gives to Drive files.
\* (A remote user who removes and creates a name again while a cycle runs can
\* do so after its listing: the upload of the remains is then a second file.)
NoDuplicateUpload == DistinctIn(Path \ RemotePath)

\* Two rows never claim the same Drive file.
RowsDisjoint ==
  \A p, q \in Path :
    rows[p] # None /\ rows[q] # None /\ rows[p].id = rows[q].id => p = q

\* No transfer feeds itself: the Drive writes of the daemon are paid for by what
\* users did and by what failed.  A user's change of either side costs one write
\* (the engine uploads what it has just downloaded, once), a fault two more (the
\* repeated call, and the upload of its own change read back).
TrafficBounded ==
  head - InitialHead - steps["remote"] <=
    steps["local"] + steps["remote"] + 2 * steps["fault"]

\* Content kept somewhere a user can find it.
KeptLocally(c) == \E q \in Path : local[q] # None /\ local[q].md5 = c
KeptOnDrive(c) == \E i \in FileId : drive[i] # None /\ drive[i].status # "removed"
                                                    /\ drive[i].md5 = c

\* A step of the daemon destroys content c of local file p: it is not the
\* content last synchronised, and neither side keeps it anywhere.
Destroys(p, c) ==
  /\ local[p] # None /\ local[p].md5 = c /\ local'[p] # local[p]
  /\ ~(rows[p] # None /\ rows[p].localMd5 = c)
  /\ ~KeptLocally(c)' /\ ~KeptOnDrive(c)'

\* Server wins, local copy preserved (docs/ARCHITECTURE.md:55): the daemon never
\* destroys the content of a local file.
LocalCopyPreserved == [][Daemon => \A p \in Path, c \in Content : ~Destroys(p, c)]_vars

\* The same for the files the policy is about, known to both sides: a download
\* over a file that has a row never destroys its content.
ConflictPolicy ==
  [][Daemon => \A p \in Path, c \in Content :
                 rows[p] # None /\ local'[p] # None => ~Destroys(p, c)]_vars

\* The mirror image (docs/ARCHITECTURE.md:82-83, an upload first asks whether the
\* server is newer): an upload replaces Drive content only if the row knew it,
\* or it is kept somewhere.
RemoteEditPreserved ==
  [][Daemon => \A id \in FileId, c \in Content :
       /\ drive[id] # None /\ drive[id].md5 = c
       /\ drive'[id] # drive[id] /\ drive'[id].status = "live"
       => \/ HasRow(id, rows) /\ rows[RowPath(id, rows)].driveMd5 = c
          \/ KeptLocally(c)' \/ KeptOnDrive(c)']_vars

InSync ==
  /\ start # None
  /\ \A id \in FileId :
       drive[id] # None /\ drive[id].status = "live" /\ drive[id].rev > start =>
         local[drive[id].name] # None /\ local[drive[id].name].md5 = drive[id].md5
  /\ \A p \in Path :
       local[p] # None =>
         \E id \in Named(p) : drive[id].status = "live" /\ drive[id].md5 = local[p].md5

\* Once users and faults are done, local directory and Drive folder become and
\* stay equal.
Converges == <>[]InSync

\* Cycles keep completing: an action that fails for good does not keep every
\* later cycle from reaching its end.
CyclesComplete == []<>(phase = "advance")
=============================================================================
