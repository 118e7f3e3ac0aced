-------------------------- MODULE SyncCycleProofs --------------------------
(***************************************************************************)
(* Proofs about SyncCycle for every set of paths, contents and file ids    *)
(* and every bound: the type invariant, that no interleaving of users,     *)
(* daemon and faults makes local and remote content diverge silently, that *)
(* a Drive file has one row, that stored tokens are honest, that a name is *)
(* uploaded once, that a download destroys nothing that was edited, and    *)
(* that the daemon's writes are paid for by users' changes and faults.     *)
(***************************************************************************)
EXTENDS SyncCycle, FiniteSetTheorems, TLAPS

-----------------------------------------------------------------------------
(***************************************************************************)
(* Types need more than TypeOK to be inductive: that an action carries the *)
(* parts its kind uses, that an operation holds what its stage produced,   *)
(* and that every id met in a row, an action or a change is a Drive file.  *)
(***************************************************************************)

Exists(id) == drive[id] \in DriveFile

WellFormed(a) ==
  /\ a.kind \in UploadKinds => a.md5 \in Content
  /\ a.kind \in {"UpdateUpload", "DeleteRemote"} =>
       a.state \in FileState /\ Exists(a.state.id)
  /\ a.kind \in DownloadKinds \cup {"Conflict"} =>
       a.file \in DriveChange /\ Exists(a.file.id)

StageOK ==
  /\ op.stage = "read" => op.content \in Content
  /\ op.stage = "fetched" => op.server \in Content
  /\ op.stage = "sent" => op.file \in Response /\ Exists(op.file.id)

References ==
  /\ \A p \in Path : rows[p] # None => Exists(rows[p].id)
  /\ \A c \in changes : Exists(c.id)
  /\ \A a \in queue : WellFormed(a)
  /\ op # None => WellFormed(op.action) /\ StageOK

TypeInv == TypeOK /\ References

-----------------------------------------------------------------------------
(* The actions compute_local_changes and compute_remote_changes build. *)

LEMMA LocalActionsOK ==
  ASSUME TypeInv,
         NEW a \in ComputeLocalChanges(local, rows)
  PROVE  a \in SyncAction /\ WellFormed(a)
<1> DEFINE onDisk == {p \in Path : local[p] # None}
           known == {p \in Path : rows[p] # None}
<1> USE DEF FromLocal, SyncAction, Kinds, UploadKinds, DownloadKinds, DeleteKinds,
            WellFormed, NoTime
<1>1. CASE \E p \in onDisk \ known :
              a = FromLocal("NewUpload", p, None, local[p].md5, local[p].mtime)
  BY <1>1 DEF TypeInv, TypeOK, LocalFileMeta
<1>2. CASE \E p \in onDisk \cap known :
              a = FromLocal("UpdateUpload", p, rows[p], local[p].md5, local[p].mtime)
  <2>1. PICK p \in onDisk \cap known :
              a = FromLocal("UpdateUpload", p, rows[p], local[p].md5, local[p].mtime)
    BY <1>2
  <2>2. rows[p] \in FileState /\ local[p] \in LocalFileMeta /\ Exists(rows[p].id)
    BY DEF TypeInv, TypeOK, References
  <2>3. QED
    BY <2>1, <2>2 DEF LocalFileMeta
<1>3. CASE \E p \in known \ onDisk :
              a = FromLocal("DeleteRemote", p, rows[p], None, NoTime)
  <2>1. PICK p \in known \ onDisk :
              a = FromLocal("DeleteRemote", p, rows[p], None, NoTime)
    BY <1>3
  <2>2. rows[p] \in FileState /\ Exists(rows[p].id)
    BY DEF TypeInv, TypeOK, References
  <2>3. QED
    BY <2>1, <2>2
<1>4. QED
  BY <1>1, <1>2, <1>3 DEF ComputeLocalChanges

LEMMA RemoteActionsOK ==
  ASSUME TypeInv,
         NEW a \in ComputeRemoteChanges(changes, rows)
  PROVE  a \in SyncAction /\ WellFormed(a) /\ a.kind \notin UploadKinds
<1> USE DEF FromChange, SyncAction, Kinds, UploadKinds, DownloadKinds, DeleteKinds,
            WellFormed, NoTime
<1>1. PICK c \in changes : a = RemoteAction(c, rows)
  BY DEF ComputeRemoteChanges
<1>2. c \in DriveChange /\ Exists(c.id)
  BY DEF TypeInv, TypeOK, References
<1>3. ChangePath(c, rows) \in Path
  BY <1>2 DEF ChangePath, HasRow, RowPath, DriveChange
<1>4. rows[ChangePath(c, rows)] \in FileState \cup {None}
  BY <1>3 DEF TypeInv, TypeOK
<1>5. RemoteKind(c, rows) \in {"DeleteLocal", "UpdateDownload", "NewDownload"}
  BY DEF RemoteKind
<1>6. QED
  BY <1>1, <1>2, <1>3, <1>4, <1>5 DEF RemoteAction

LEMMA MergedActionsOK ==
  ASSUME TypeInv,
         NEW a \in MergeActions(ComputeLocalChanges(local, rows),
                                ComputeRemoteChanges(changes, rows))
  PROVE  a \in SyncAction /\ WellFormed(a)
<1> DEFINE L == ComputeLocalChanges(local, rows)
           R == ComputeRemoteChanges(changes, rows)
<1>1. CASE a \in L
  BY <1>1, LocalActionsOK
<1>2. CASE \E d \in R : a = Resolve(d, L, R)
  <2>1. PICK d \in R : a = Resolve(d, L, R)
    BY <1>2
  <2>2. d \in SyncAction /\ WellFormed(d)
    BY RemoteActionsOK
  <2>3. CASE a = d
    BY <2>2, <2>3
  <2>4. CASE \E u \in L : u.kind = "UpdateUpload" /\ a = Conflict(u, d)
                          /\ d.kind = "UpdateDownload"
    <3>1. PICK u \in L : u.kind = "UpdateUpload" /\ a = Conflict(u, d)
                          /\ d.kind = "UpdateDownload"
      BY <2>4
    <3>2. u \in SyncAction /\ WellFormed(u)
      BY LocalActionsOK
    <3>3. a = [d EXCEPT !.kind = "Conflict", !.state = u.state,
                        !.md5 = u.md5, !.mtime = u.mtime]
      BY <3>1 DEF Conflict
    <3>4. a \in SyncAction
      BY <2>2, <3>2, <3>3 DEF SyncAction, Kinds
    <3>5. a.kind = "Conflict" /\ a.file = d.file
      BY <2>2, <3>3 DEF SyncAction
    <3>6. QED
      BY <2>2, <3>1, <3>4, <3>5
      DEF WellFormed, UploadKinds, DownloadKinds
  <2>5. QED
    BY <2>1, <2>3, <2>4 DEF Resolve, OnPath
<1>3. QED
  BY <1>1, <1>2 DEF MergeActions

-----------------------------------------------------------------------------
(* Steps that several actions share. *)

\* The records a Drive write stores over an existing file.
LEMMA ChangedFileOK ==
  ASSUME TypeOK, NEW id \in FileId, Exists(id)
  PROVE  /\ \A c \in Content : Rewritten(id, c) \in DriveFile
         /\ \A p \in Path : Renamed(id, p) \in DriveFile
         /\ \A status \in Statuses : Marked(id, status) \in DriveFile
<1>1. head + 1 \in Nat
  BY DEF TypeOK
<1>2. ASSUME NEW f \in DriveFile, NEW n \in Nat
      PROVE  /\ \A c \in Content : [f EXCEPT !.md5 = c, !.modified = n, !.rev = n] \in DriveFile
             /\ \A p \in Path : [f EXCEPT !.name = p, !.rev = n] \in DriveFile
             /\ \A st \in Statuses : [f EXCEPT !.status = st, !.rev = n] \in DriveFile
  BY DEF DriveFile
<1>3. QED
  BY <1>1, <1>2 DEF Exists, Rewritten, Renamed, Marked

\* A Drive write keeps the Drive typed and every known file known.
LEMMA PutFileOK ==
  ASSUME TypeOK, NEW id \in FileId, NEW f \in DriveFile, PutFile(id, f)
  PROVE  /\ drive' \in [FileId -> DriveFile \cup {None}] /\ head' \in Nat
         /\ \A i \in FileId : Exists(i) => Exists(i)'
         /\ Exists(id)'
BY DEF TypeOK, PutFile, Exists

\* So it keeps every reference that the step leaves alone.
LEMMA ReferencesKept ==
  ASSUME TypeInv,
         \A i \in FileId : Exists(i) => Exists(i)',
         UNCHANGED <<rows, changes, queue, op>>
  PROVE  References'
<1>1. ASSUME NEW a \in SyncAction, WellFormed(a)
      PROVE  WellFormed(a)'
  BY <1>1 DEF WellFormed, FileState, DriveChange
<1>2. \A p \in Path : rows[p] # None => Exists(rows[p].id)'
  BY DEF TypeInv, TypeOK, References, FileState
<1>3. \A c \in changes : Exists(c.id)'
  BY DEF TypeInv, TypeOK, References, DriveChange
<1>4. \A a \in queue : WellFormed(a)'
  BY <1>1 DEF TypeInv, TypeOK, References
<1>5. op # None => WellFormed(op.action)' /\ StageOK'
  BY <1>1 DEF TypeInv, TypeOK, References, Operation, StageOK, Response
<1>6. QED
  BY <1>2, <1>3, <1>4, <1>5 DEF References

LEMMA ForgetOK ==
  ASSUME TypeInv, Forget, UNCHANGED rows,
         \A i \in FileId : Exists(i) => Exists(i)'
  PROVE  /\ References'
         /\ phase' \in Phases /\ cursor' \in Nat /\ changes' \subseteq DriveChange
         /\ newToken' \in Nat /\ queue' \subseteq SyncAction
         /\ op' \in Operation \cup {None}
BY DEF TypeInv, TypeOK, References, Forget, Phases, FileState

LEMMA WriteFileOK ==
  ASSUME TypeOK, NEW p \in Path, NEW c \in Content, WriteFile(p, c)
  PROVE  local' \in [Path -> LocalFileMeta \cup {None}] /\ writes' \in [Path -> Nat]
BY DEF TypeOK, WriteFile, LocalFileMeta

LEMMA SpendOK ==
  ASSUME TypeOK, NEW k \in {"local", "remote", "fault"}, Spend(k)
  PROVE  steps' \in [{"local", "remote", "fault"} -> Nat]
BY DEF TypeOK, Spend

-----------------------------------------------------------------------------
LEMMA TypeInvInit == Init => TypeInv
<1> SUFFICES ASSUME Init PROVE TypeInv
  OBVIOUS
<1>1. TypeOK
  BY CycleAssumption DEF Init, TypeOK, Phases
<1>2. References
  BY DEF Init, References
<1>3. QED
  BY <1>1, <1>2 DEF TypeInv

LEMMA TypeInvUsers == TypeInv /\ Users => TypeInv'
<1> SUFFICES ASSUME TypeInv, Users PROVE TypeInv'
  OBVIOUS
<1> USE DEF vars, files, server, database, memory, control
<1>1. ASSUME NEW p \in UserPath, NEW c \in Content, UserWrites(p, c)
      PROVE  TypeInv'
  <2>1. p \in Path
    BY CycleAssumption
  <2>2. TypeOK'
    BY <1>1, <2>1, WriteFileOK, SpendOK DEF TypeInv, TypeOK, UserWrites
  <2>3. References'
    BY <1>1, ReferencesKept DEF UserWrites, Exists
  <2>4. QED
    BY <2>2, <2>3 DEF TypeInv
<1>2. ASSUME NEW p \in UserPath, UserDeletes(p)
      PROVE  TypeInv'
  <2>1. p \in Path
    BY CycleAssumption
  <2>2. TypeOK'
    BY <1>2, <2>1, SpendOK DEF TypeInv, TypeOK, UserDeletes
  <2>3. References'
    BY <1>2, ReferencesKept DEF UserDeletes, Exists
  <2>4. QED
    BY <2>2, <2>3 DEF TypeInv
<1>3. ASSUME NEW id \in FileId, NEW f \in DriveFile, PutFile(id, f), Spend("remote"),
             UNCHANGED <<files, database, memory, control, start>>
      PROVE  TypeInv'
  <2>1. TypeOK'
    BY <1>3, PutFileOK, SpendOK DEF TypeInv, TypeOK
  <2>2. References'
    BY <1>3, PutFileOK, ReferencesKept DEF TypeInv
  <2>3. QED
    BY <2>1, <2>2 DEF TypeInv
<1>4. ASSUME NEW p \in RemotePath, NEW c \in Content, NEW id \in FileId,
             RemoteCreates(p, c, id)
      PROVE  TypeInv'
  <2>1. NewFile(p, c) \in DriveFile
    BY CycleAssumption DEF NewFile, DriveFile, Statuses, TypeInv, TypeOK
  <2>2. QED
    BY <1>3, <1>4, <2>1 DEF RemoteCreates
<1>5. ASSUME NEW id \in FileId, NEW c \in Content, RemoteEdits(id, c)
      PROVE  TypeInv'
  <2>1. Rewritten(id, c) \in DriveFile
    BY <1>5, ChangedFileOK DEF RemoteEdits, Exists, TypeInv, TypeOK
  <2>2. QED
    BY <1>3, <1>5, <2>1 DEF RemoteEdits
<1>6. ASSUME NEW id \in FileId, RemoteTrashes(id)
      PROVE  TypeInv'
  <2>1. Marked(id, "trashed") \in DriveFile
    BY <1>6, ChangedFileOK DEF Statuses, RemoteTrashes, Exists, TypeInv, TypeOK
  <2>2. QED
    BY <1>3, <1>6, <2>1 DEF RemoteTrashes
<1>7. ASSUME NEW id \in FileId, RemoteRemoves(id)
      PROVE  TypeInv'
  <2>1. Marked(id, "removed") \in DriveFile
    BY <1>7, ChangedFileOK DEF Statuses, RemoteRemoves, Exists, TypeInv, TypeOK
  <2>2. QED
    BY <1>3, <1>7, <2>1 DEF RemoteRemoves
<1>8. ASSUME NEW id \in FileId, NEW p \in RemotePath, RemoteRenames(id, p)
      PROVE  TypeInv'
  <2>1. Renamed(id, p) \in DriveFile
    BY <1>8, CycleAssumption, ChangedFileOK DEF RemoteRenames, Exists, TypeInv, TypeOK
  <2>2. QED
    BY <1>3, <1>8, <2>1 DEF RemoteRenames
<1>9. CASE PauseFlag \/ ResumeFlag
  <2>1. TypeOK'
    BY <1>9 DEF PauseFlag, ResumeFlag, TypeInv, TypeOK
  <2>2. References'
    BY <1>9, ReferencesKept DEF PauseFlag, ResumeFlag, Exists
  <2>3. QED
    BY <2>1, <2>2 DEF TypeInv
<1>10. QED
  BY <1>1, <1>2, <1>4, <1>5, <1>6, <1>7, <1>8, <1>9 DEF Users

\* The operation an action of execute_one leaves behind.
LEMMA OperationOK ==
  ASSUME TypeInv, op # None, NEW st \in Stages
  PROVE  /\ op \in Operation /\ op.action \in SyncAction /\ WellFormed(op.action)
         /\ [op EXCEPT !.stage = st] \in Operation
         /\ \A c \in Content : /\ [op EXCEPT !.stage = st, !.content = c] \in Operation
                               /\ [op EXCEPT !.stage = st, !.server = c] \in Operation
         /\ \A q \in Path : [op EXCEPT !.stage = st, !.copy = q] \in Operation
         /\ \A f \in Response : [op EXCEPT !.stage = st, !.file = f] \in Operation
<1>1. op \in Operation /\ op.action \in SyncAction /\ WellFormed(op.action)
  BY DEF TypeInv, TypeOK, References, Operation
<1>2. [op EXCEPT !.stage = st] \in Operation
  BY <1>1 DEF Operation
<1>3. \A c \in Content : /\ [op EXCEPT !.stage = st, !.content = c] \in Operation
                         /\ [op EXCEPT !.stage = st, !.server = c] \in Operation
  BY <1>1 DEF Operation
<1>4. \A q \in Path : [op EXCEPT !.stage = st, !.copy = q] \in Operation
  BY <1>1 DEF Operation
<1>5. \A f \in Response : [op EXCEPT !.stage = st, !.file = f] \in Operation
  BY <1>1 DEF Operation
<1>6. QED
  BY <1>1, <1>2, <1>3, <1>4, <1>5

\* A failing action.
LEMMA FailOK == TypeInv /\ Fail => TypeInv'
<1> SUFFICES ASSUME TypeInv, Fail PROVE TypeInv'
  OBVIOUS
<1>1. Forget /\ UNCHANGED <<files, server, database, control, start, steps>>
  BY DEF Fail
<1>2. UNCHANGED <<local, writes, drive, head, rows, token, folderPaused, pause, call,
                  start, steps>>
  BY <1>1 DEF files, server, database, control
<1>3. /\ References'
      /\ phase' \in Phases /\ cursor' \in Nat /\ changes' \subseteq DriveChange
      /\ newToken' \in Nat /\ queue' \subseteq SyncAction
      /\ op' \in Operation \cup {None}
  BY <1>1, <1>2, ForgetOK DEF Exists
<1>4. QED
  BY <1>2, <1>3 DEF TypeInv, TypeOK

\* A Drive write of execute_one, answered or not.
LEMMA DriveCallOK ==
  ASSUME TypeInv, NEW id \in FileId, NEW f \in DriveFile, PutFile(id, f),
         NEW op1 \in Operation, op1.action \in SyncAction,
         op # None, op1.action = op.action,
         op1.stage \in {"sent", "dropped"},
         op1.stage = "sent" => op1.file \in Response /\ op1.file.id = id,
         AnsweredOrLost(op1),
         UNCHANGED <<files, database, control, start>>
  PROVE  TypeInv'
<1> USE DEF files, database, control
<1>1. /\ drive' \in [FileId -> DriveFile \cup {None}] /\ head' \in Nat
      /\ \A i \in FileId : Exists(i) => Exists(i)'
      /\ Exists(id)'
  BY PutFileOK DEF TypeInv
<1>2. CASE op' = op1 /\ UNCHANGED <<Queued, steps>>
  <2>1. TypeOK'
    BY <1>1, <1>2 DEF TypeInv, TypeOK, Queued
  <2>2. ASSUME NEW a \in SyncAction, WellFormed(a)
        PROVE  WellFormed(a)'
    BY <1>1, <2>2 DEF WellFormed, FileState, DriveChange
  <2>3. UNCHANGED <<rows, changes, queue>>
    BY <1>2 DEF Queued
  <2>4. (\A p \in Path : rows[p] # None => Exists(rows[p].id))'
    BY <1>1, <2>3 DEF TypeInv, TypeOK, References, FileState
  <2>5. (\A c \in changes : Exists(c.id))'
    BY <1>1, <2>3 DEF TypeInv, TypeOK, References, DriveChange
  <2>6. (\A a \in queue : WellFormed(a))'
    BY <2>2, <2>3 DEF TypeInv, TypeOK, References
  <2>7. WellFormed(op.action)'
    BY <1>2, <2>2 DEF TypeInv, References
  <2>8. StageOK'
    BY <1>1, <1>2 DEF StageOK
  <2>9. QED
    BY <2>1, <2>4, <2>5, <2>6, <2>7, <2>8 DEF TypeInv, References
<1>3. CASE Spend("fault") /\ Forget
  <2>1. steps' \in [{"local", "remote", "fault"} -> Nat]
    BY <1>3, SpendOK DEF TypeInv
  <2>2. /\ References'
        /\ phase' \in Phases /\ cursor' \in Nat /\ changes' \subseteq DriveChange
        /\ newToken' \in Nat /\ queue' \subseteq SyncAction
        /\ op' \in Operation \cup {None}
    BY <1>1, <1>3, ForgetOK
  <2>3. QED
    BY <1>1, <2>1, <2>2 DEF TypeInv, TypeOK
<1>4. QED
  BY <1>2, <1>3 DEF AnsweredOrLost

\* An action that moves the operation on without touching the Drive.
LEMMA LocalStepOK ==
  ASSUME TypeInv, op # None,
         NEW op1 \in Operation, op' = op1, op1.action = op.action,
         op1.stage = "read" => op1.content \in Content,
         op1.stage = "fetched" => op1.server \in Content,
         op1.stage # "sent",
         UNCHANGED <<server, database, Queued>>
  PROVE  References'
<1>1. UNCHANGED <<drive, rows, changes, queue>>
  BY DEF server, database, Queued
<1>2. WellFormed(op.action)' /\ StageOK'
  BY <1>1 DEF TypeInv, References, WellFormed, StageOK, Exists
<1>3. QED
  BY <1>1, <1>2 DEF TypeInv, References, WellFormed, Exists

\* An action that ends the operation and writes or deletes a row.
LEMMA RowStepOK ==
  ASSUME TypeInv, op # None,
         NEW p \in Path, NEW r \in FileState \cup {None},
         r # None => Exists(r.id),
         rows' = [rows EXCEPT ![p] = r], op' = None,
         UNCHANGED <<files, server, token, folderPaused, Queued, control, start, steps>>
  PROVE  TypeInv'
<1> USE DEF files, server, control, Queued
<1>1. TypeOK'
  BY DEF TypeInv, TypeOK
<1>2. References'
  BY DEF TypeInv, TypeOK, References, WellFormed, Exists
<1>3. QED
  BY <1>1, <1>2 DEF TypeInv

LEMMA TypeInvCycle ==
  ASSUME TypeInv,
         SetFolderPaused \/ FirstCycle \/ StartCycle \/ FetchPage \/ Scan
           \/ (\E a \in queue : Pop(a)) \/ StopForPause \/ QueueEmpty \/ AdvanceToken
  PROVE  TypeInv'
<1> USE DEF files, server, database, memory, control
<1>1. CASE SetFolderPaused
  <2>1. TypeOK'
    BY <1>1 DEF SetFolderPaused, TypeInv, TypeOK
  <2>2. QED
    BY <1>1, <2>1, ReferencesKept DEF SetFolderPaused, TypeInv, Exists
<1>2. CASE FirstCycle
  <2>1. TypeOK'
    BY <1>2 DEF FirstCycle, TypeInv, TypeOK, Phases
  <2>2. QED
    BY <1>2, <2>1, ReferencesKept DEF FirstCycle, TypeInv, Exists
<1>3. CASE StartCycle
  <2>1. TypeOK'
    BY <1>3 DEF StartCycle, TypeInv, TypeOK, Phases
  <2>2. QED
    BY <1>3, <2>1, ReferencesKept DEF StartCycle, TypeInv, Exists
<1>4. CASE FetchPage
  <2>1. PICK page \in SUBSET FileId :
          /\ \A i \in page : Exists(i)
          /\ changes' = changes \cup {Entry(i) : i \in page}
    <3>1. CASE UNCHANGED changes
      <4>1. changes' = changes \cup {Entry(i) : i \in {}}
        BY <3>1
      <4>2. QED
        BY <4>1
    <3>2. CASE \E last \in {i \in FileId : drive[i] # None /\ drive[i].rev > cursor} :
                 LET page == {i \in FileId : /\ drive[i] # None /\ drive[i].rev > cursor
                                             /\ drive[i].rev <= drive[last].rev}
                 IN  changes' = changes \cup {Entry(i) : i \in page}
      <4>1. PICK last \in FileId :
              changes' = changes \cup
                {Entry(i) : i \in {j \in FileId : /\ drive[j] # None /\ drive[j].rev > cursor
                                                  /\ drive[j].rev <= drive[last].rev}}
        BY <3>2
      <4>2. \A i \in FileId : drive[i] # None => Exists(i)
        BY DEF TypeInv, TypeOK, Exists
      <4>3. QED
        BY <4>1, <4>2
    <3>3. QED
      BY <1>4, <3>1, <3>2 DEF FetchPage
  <2>2. \A i \in page : Entry(i) \in DriveChange /\ Entry(i).id = i
    BY <2>1 DEF Entry, Exists, DriveFile, DriveChange
  <2>3. changes' \subseteq DriveChange
    BY <2>1, <2>2 DEF TypeInv, TypeOK
  <2>4. cursor' \in Nat /\ newToken' \in Nat /\ phase' \in Phases
    BY <1>4 DEF FetchPage, TypeInv, TypeOK, Phases, DriveFile
  <2>5. UNCHANGED <<local, writes, drive, head, rows, token, folderPaused, queue, op,
                    pause, call, start, steps>>
    BY <1>4 DEF FetchPage
  <2>6. TypeOK'
    BY <2>3, <2>4, <2>5 DEF TypeInv, TypeOK
  <2>7. \A c \in changes' : Exists(c.id)
    BY <2>1, <2>2 DEF TypeInv, References
  <2>8. References'
    BY <2>5, <2>7 DEF TypeInv, References, WellFormed, StageOK, Exists
  <2>9. QED
    BY <2>6, <2>8 DEF TypeInv
<1>5. CASE Scan
  <2>1. \A a \in queue' : a \in SyncAction /\ WellFormed(a)
    BY <1>5, MergedActionsOK DEF Scan
  <2>2. /\ phase' \in Phases /\ cursor' = 0 /\ changes' = {}
        /\ UNCHANGED <<local, writes, drive, head, rows, token, folderPaused, newToken, op,
                       pause, call, start, steps>>
    BY <1>5 DEF Scan, Phases
  <2>3. TypeOK'
    BY <2>1, <2>2 DEF TypeInv, TypeOK
  <2>4. References'
    BY <2>1, <2>2 DEF TypeInv, References, WellFormed, StageOK, Exists
  <2>5. QED
    BY <2>3, <2>4 DEF TypeInv
<1>6. ASSUME NEW a \in queue, Pop(a)
      PROVE  TypeInv'
  <2>1. a \in SyncAction /\ WellFormed(a)
    BY DEF TypeInv, TypeOK, References
  <2>2. op' \in Operation /\ op'.action = a /\ op'.stage = "begin"
    BY <1>6, <2>1 DEF Pop, Operation, Stages
  <2>3. TypeOK'
    BY <1>6, <2>2 DEF Pop, TypeInv, TypeOK
  <2>4. UNCHANGED <<drive, rows, changes>> /\ queue' \subseteq queue
    BY <1>6 DEF Pop
  <2>5. References'
    BY <2>1, <2>2, <2>4 DEF TypeInv, References, WellFormed, StageOK, Exists
  <2>6. QED
    BY <2>3, <2>5 DEF TypeInv
<1>7. CASE StopForPause \/ QueueEmpty \/ AdvanceToken
  <2>1. TypeOK'
    BY <1>7 DEF StopForPause, QueueEmpty, AdvanceToken, TypeInv, TypeOK, Phases
  <2>2. UNCHANGED <<drive, rows, changes, op>> /\ queue' \subseteq queue
    BY <1>7 DEF StopForPause, QueueEmpty, AdvanceToken
  <2>3. References'
    BY <2>2 DEF TypeInv, References, WellFormed, StageOK, Exists
  <2>4. QED
    BY <2>1, <2>3 DEF TypeInv
<1>8. QED
  BY <1>1, <1>2, <1>3, <1>4, <1>5, <1>6, <1>7

LEMMA TypeInvExecute ==
  ASSUME TypeInv,
         ReadLocalFile \/ (\E id \in FileId : CreateRemoteFile(id))
           \/ UpdateRemoteFile \/ RecordUpload \/ WriteConflictCopy \/ FetchContent
           \/ WriteDownload \/ RecordDownload \/ DeleteRemoteFile \/ DeleteLocalFile
           \/ DropRow
  PROVE  TypeInv'
<1> USE DEF files, server, database, control
<1> DEFINE path == op.action.path
<1>1. op # None
  BY DEF ReadLocalFile, CreateRemoteFile, UpdateRemoteFile, RecordUpload,
         WriteConflictCopy, FetchContent, WriteDownload, RecordDownload,
         DeleteRemoteFile, DeleteLocalFile, DropRow, At
<1>2. /\ op \in Operation /\ op.action \in SyncAction /\ WellFormed(op.action)
      /\ path \in Path
  BY <1>1, OperationOK DEF SyncAction, Stages
<1>3. StageOK
  BY <1>1 DEF TypeInv, References
<1>4. ASSUME NEW op1 \in Operation, op' = op1, op1.action = op.action,
             op1.stage = "read" => op1.content \in Content,
             op1.stage = "fetched" => op1.server \in Content,
             op1.stage # "sent",
             local' \in [Path -> LocalFileMeta \cup {None}],
             writes' \in [Path -> Nat],
             UNCHANGED <<server, database, Queued, control, start, steps>>
      PROVE  TypeInv'
  <2>1. References'
    BY <1>1, <1>4, LocalStepOK
  <2>2. TypeOK'
    BY <1>4 DEF TypeInv, TypeOK, Queued
  <2>3. QED
    BY <2>1, <2>2 DEF TypeInv
<1>5. CASE ReadLocalFile
  <2>1. CASE /\ local[path] # None
             /\ op' = [op EXCEPT !.stage = "read", !.content = local[path].md5]
             /\ UNCHANGED <<files, server, database, Queued, control, start, steps>>
    <3>1. local[path].md5 \in Content
      BY <1>2, <2>1 DEF TypeInv, TypeOK, LocalFileMeta
    <3>2. op' \in Operation
      BY <1>1, <2>1, <3>1, OperationOK DEF Stages
    <3>3. op'.action = op.action /\ op'.stage = "read" /\ op'.content \in Content
      BY <1>2, <2>1, <3>1 DEF Operation
    <3>4. QED
      BY <1>4, <2>1, <3>2, <3>3 DEF TypeInv, TypeOK
  <2>2. QED
    BY <1>5, <2>1, FailOK DEF ReadLocalFile
<1>6. ASSUME NEW id \in FileId, CreateRemoteFile(id)
      PROVE  TypeInv'
  <2> DEFINE answer == UploadAnswer(id, path, op.content)
             op1 == [op EXCEPT !.stage = "sent", !.file = answer]
  <2>1. op.content \in Content
    BY <1>3, <1>6 DEF CreateRemoteFile, At, StageOK
  <2>2. NewFile(path, op.content) \in DriveFile
    BY <1>2, <2>1 DEF NewFile, DriveFile, Statuses, TypeInv, TypeOK
  <2>3. answer \in Response /\ answer.id = id
    BY <2>1 DEF UploadAnswer, Response, TypeInv, TypeOK, NoTime
  <2>4. op1 \in Operation
    BY <1>1, <2>3, OperationOK DEF Stages
  <2>5. op1.action = op.action /\ op1.stage = "sent" /\ op1.file = answer
    BY <1>2 DEF Operation
  <2>6. /\ PutFile(id, NewFile(path, op.content))
        /\ AnsweredOrLost(op1)
        /\ UNCHANGED <<files, database, control, start>>
    BY <1>6 DEF CreateRemoteFile
  <2> HIDE DEF answer, op1
  <2>7. QED
    BY <1>1, <1>2, <2>2, <2>3, <2>4, <2>5, <2>6, DriveCallOK
<1>7. CASE UpdateRemoteFile
  <2> DEFINE id == op.action.state.id
             answer == UploadAnswer(id, path, op.content)
             op1 == [op EXCEPT !.stage = "sent", !.file = answer]
             f == Rewritten(id, op.content)
  <2>1. op.content \in Content
    BY <1>3, <1>7 DEF UpdateRemoteFile, At, StageOK
  <2>2. id \in FileId /\ Exists(id)
    BY <1>2, <1>7 DEF UpdateRemoteFile, At, WellFormed, FileState
  <2>3. f \in DriveFile
    BY <2>1, <2>2, ChangedFileOK DEF TypeInv
  <2>4. answer \in Response /\ answer.id = id
    BY <2>1, <2>2 DEF UploadAnswer, Response, TypeInv, TypeOK, NoTime
  <2>5. op1 \in Operation
    BY <1>1, <2>4, OperationOK DEF Stages
  <2>6. op1.action = op.action /\ op1.stage = "sent" /\ op1.file = answer
    BY <1>2 DEF Operation
  <2>7. CASE /\ PutFile(id, f) /\ AnsweredOrLost(op1)
             /\ UNCHANGED <<files, database, control, start>>
    <3> HIDE DEF answer, op1, f, id
    <3>1. QED
      BY <1>1, <1>2, <2>2, <2>3, <2>4, <2>5, <2>6, <2>7, DriveCallOK
  <2>8. QED
    BY <1>7, <2>7, FailOK DEF UpdateRemoteFile
<1>8. CASE RecordUpload
  <2> DEFINE r == [id |-> op.file.id, driveMd5 |-> op.file.md5,
                   driveModified |-> op.file.modified, localMd5 |-> op.action.md5,
                   localModified |-> StoredMtime(op.action.mtime)]
  <2>1. op.file \in Response /\ Exists(op.file.id) /\ op.action.md5 \in Content
    BY <1>2, <1>3, <1>8 DEF RecordUpload, At, StageOK, WellFormed
  <2>2. r \in FileState /\ r.id = op.file.id
    BY <1>2, <2>1 DEF Response, FileState, StoredMtime, SyncAction, NoTime
  <2>3. /\ rows' = [rows EXCEPT ![path] = r] /\ op' = None
        /\ UNCHANGED <<files, server, token, folderPaused, Queued, control, start, steps>>
    BY <1>8 DEF RecordUpload
  <2> HIDE DEF r
  <2>4. QED
    BY <1>1, <1>2, <2>1, <2>2, <2>3, RowStepOK
<1>9. CASE WriteConflictCopy
  <2>1. PICK q \in Path : /\ WriteFile(q, op.content)
                          /\ op' = [op EXCEPT !.stage = "copied", !.copy = q]
    BY <1>9 DEF WriteConflictCopy
  <2>2. op.content \in Content
    BY <1>3, <1>9 DEF WriteConflictCopy, At, StageOK
  <2>3. op' \in Operation
    BY <1>1, <2>1, OperationOK DEF Stages
  <2>4. op'.action = op.action /\ op'.stage = "copied"
    BY <1>2, <2>1 DEF Operation
  <2>5. local' \in [Path -> LocalFileMeta \cup {None}] /\ writes' \in [Path -> Nat]
    BY <2>1, <2>2, WriteFileOK DEF TypeInv
  <2>6. UNCHANGED <<server, database, Queued, control, start, steps>>
    BY <1>9 DEF WriteConflictCopy
  <2>7. QED
    BY <1>4, <2>3, <2>4, <2>5, <2>6
<1>10. CASE FetchContent
  <2> DEFINE id == op.action.file.id
  <2>1. CASE /\ op' = [op EXCEPT !.stage = "fetched", !.server = drive[id].md5]
             /\ UNCHANGED <<files, server, database, Queued, control, start, steps>>
    <3>1. Exists(id)
      BY <1>2, <1>10 DEF FetchContent, At, WellFormed
    <3>2. drive[id].md5 \in Content
      BY <3>1 DEF Exists, DriveFile
    <3>3. op' \in Operation
      BY <1>1, <2>1, <3>2, OperationOK DEF Stages
    <3>4. op'.action = op.action /\ op'.stage = "fetched" /\ op'.server \in Content
      BY <1>2, <2>1, <3>2 DEF Operation
    <3>5. QED
      BY <1>4, <2>1, <3>3, <3>4 DEF TypeInv, TypeOK
  <2>2. QED
    BY <1>10, <2>1, FailOK DEF FetchContent
<1>11. CASE WriteDownload
  <2>1. WriteFile(path, op.server) /\ op' = [op EXCEPT !.stage = "written"]
    BY <1>11 DEF WriteDownload
  <2>2. op.server \in Content
    BY <1>3, <1>11 DEF WriteDownload, At, StageOK
  <2>3. op' \in Operation
    BY <1>1, <2>1, OperationOK DEF Stages
  <2>4. op'.action = op.action /\ op'.stage = "written"
    BY <1>2, <2>1 DEF Operation
  <2>5. local' \in [Path -> LocalFileMeta \cup {None}] /\ writes' \in [Path -> Nat]
    BY <1>2, <2>1, <2>2, WriteFileOK DEF TypeInv
  <2>6. UNCHANGED <<server, database, Queued, control, start, steps>>
    BY <1>11 DEF WriteDownload
  <2>7. QED
    BY <1>4, <2>3, <2>4, <2>5, <2>6
<1>12. CASE RecordDownload
  <2> DEFINE c == op.action.file
             r == [id |-> c.id, driveMd5 |-> c.md5, driveModified |-> c.modified,
                   localMd5 |-> c.md5, localModified |-> NoTime]
  <2>1. c \in DriveChange /\ Exists(c.id)
    BY <1>2, <1>12 DEF RecordDownload, At, WellFormed
  <2>2. r \in FileState /\ r.id = c.id
    BY <2>1 DEF DriveChange, FileState, NoTime
  <2>3. /\ rows' = [rows EXCEPT ![path] = r] /\ op' = None
        /\ UNCHANGED <<files, server, token, folderPaused, Queued, control, start, steps>>
    BY <1>12 DEF RecordDownload
  <2> HIDE DEF r
  <2>4. QED
    BY <1>1, <1>2, <2>1, <2>2, <2>3, RowStepOK
<1>13. CASE DeleteRemoteFile
  <2> DEFINE id == op.action.state.id
             op1 == [op EXCEPT !.stage = "dropped"]
             f == Marked(id, "removed")
  <2>1. id \in FileId /\ Exists(id)
    BY <1>2, <1>13 DEF DeleteRemoteFile, At, WellFormed, FileState
  <2>2. f \in DriveFile
    BY <2>1, ChangedFileOK DEF Statuses, TypeInv
  <2>3. op1 \in Operation
    BY <1>1, OperationOK DEF Stages
  <2>4. op1.action = op.action /\ op1.stage = "dropped"
    BY <1>2 DEF Operation
  <2>5. CASE /\ PutFile(id, f) /\ AnsweredOrLost(op1)
             /\ UNCHANGED <<files, database, control, start>>
    <3> HIDE DEF op1, f, id
    <3>1. QED
      BY <1>1, <1>2, <2>1, <2>2, <2>3, <2>4, <2>5, DriveCallOK
  <2>6. QED
    BY <1>13, <2>5, FailOK DEF DeleteRemoteFile
<1>14. CASE DeleteLocalFile
  <2>1. CASE /\ local' = [local EXCEPT ![path] = None]
             /\ op' = [op EXCEPT !.stage = "dropped"]
             /\ UNCHANGED <<writes, server, database, Queued, control, start, steps>>
    <3>1. op' \in Operation
      BY <1>1, <2>1, OperationOK DEF Stages
    <3>2. op'.action = op.action /\ op'.stage = "dropped"
      BY <1>2, <2>1 DEF Operation
    <3>3. QED
      BY <1>4, <2>1, <3>1, <3>2 DEF TypeInv, TypeOK
  <2>2. QED
    BY <1>14, <2>1, FailOK DEF DeleteLocalFile
<1>15. CASE DropRow
  <2>1. /\ rows' = [rows EXCEPT ![path] = None] /\ op' = None
        /\ UNCHANGED <<files, server, token, folderPaused, Queued, control, start, steps>>
    BY <1>15 DEF DropRow
  <2>2. QED
    BY <1>1, <1>2, <2>1, RowStepOK
<1>16. QED
  BY <1>5, <1>6, <1>7, <1>8, <1>9, <1>10, <1>11, <1>12, <1>13, <1>14, <1>15

LEMMA TypeInvFaults == TypeInv /\ Faults => TypeInv'
<1> SUFFICES ASSUME TypeInv, Faults PROVE TypeInv'
  OBVIOUS
<1>1. /\ Forget /\ Spend("fault")
      /\ UNCHANGED <<local, writes, drive, head, rows, token, folderPaused, start>>
      /\ pause' \in BOOLEAN /\ call' \in {"none", "pausing", "resuming"}
  BY DEF Faults, CallFails, Crash, files, server, database, control, TypeInv, TypeOK
<1>2. steps' \in [{"local", "remote", "fault"} -> Nat]
  BY <1>1, SpendOK DEF TypeInv
<1>3. /\ References'
      /\ phase' \in Phases /\ cursor' \in Nat /\ changes' \subseteq DriveChange
      /\ newToken' \in Nat /\ queue' \subseteq SyncAction
      /\ op' \in Operation \cup {None}
  BY <1>1, ForgetOK DEF Exists
<1>4. QED
  BY <1>1, <1>2, <1>3 DEF TypeInv, TypeOK

LEMMA TypeInvStep == TypeInv /\ [Next]_vars => TypeInv'
<1>1. TypeInv /\ Daemon => TypeInv'
  BY TypeInvCycle, TypeInvExecute DEF Daemon
<1>2. TypeInv /\ UNCHANGED vars => TypeInv'
  BY DEF vars, files, server, database, memory, control,
         TypeInv, TypeOK, References, WellFormed, StageOK, Exists
<1>3. QED
  BY <1>1, <1>2, TypeInvUsers, TypeInvFaults DEF Next

\* In every run every variable has its type: no row, queued action or operation
\* of a cycle ever names a Drive file that does not exist, or lacks the part its
\* kind and stage need (execute_one returns an error for a missing part).
THEOREM TypeCorrect == Spec => []TypeOK
<1>1. Spec => []TypeInv
  BY TypeInvInit, TypeInvStep, PTL DEF Spec
<1>2. TypeInv => TypeOK
  BY DEF TypeInv
<1>3. QED
  BY <1>1, <1>2, PTL

-----------------------------------------------------------------------------
(***************************************************************************)
(* No silent divergence.  The row of an upload takes its local side from   *)
(* the scan and its Drive side from the bytes read later, so the two may   *)
(* disagree; what saves the user is that the mtime in the row is then not  *)
(* the mtime of the file.  A pair of a content and a time taken at a scan  *)
(* stays true of a file as long as the file keeps that time.               *)
(***************************************************************************)

AtTime(p, t) == local[p] # None /\ local[p].mtime = t

Stamped(p, c, t) == t <= writes[p] /\ (AtTime(p, t) => local[p].md5 = c)

MtimesBounded == \A p \in Path : local[p] # None => local[p].mtime \in 1..writes[p]

QueueStamped ==
  \A a \in queue : a.kind \in UploadKinds => Stamped(a.path, a.md5, a.mtime)

OperationStamped ==
  op # None /\ op.action.kind \in UploadKinds =>
    /\ Stamped(op.action.path, op.action.md5, op.action.mtime)
    /\ op.stage \in {"read", "sent"} =>
         (AtTime(op.action.path, op.action.mtime) => op.content = op.action.md5)
    /\ op.stage = "sent" => op.file.md5 \in {None, op.content}

RowsStamped ==
  \A p \in Path : rows[p] # None =>
    /\ rows[p].localModified <= writes[p]
    /\ AtTime(p, rows[p].localModified) => rows[p].driveMd5 \in {None, rows[p].localMd5}

StampInv == MtimesBounded /\ QueueStamped /\ OperationStamped /\ RowsStamped

DivergenceInv == TypeInv /\ StampInv

\* A step gives a file a time later than all its writes so far, or leaves the
\* file alone, or removes it.
FilesAge ==
  \A p \in Path :
    /\ writes'[p] >= writes[p]
    /\ local'[p] # None /\ local'[p] # local[p] =>
         local'[p].mtime \in (writes[p] + 1)..writes'[p]

LEMMA WriteFileAges ==
  ASSUME TypeOK, NEW p \in Path, NEW c \in Content, WriteFile(p, c)
  PROVE  FilesAge
BY DEF TypeOK, WriteFile, FilesAge, LocalFileMeta

LEMMA NoWriteAges ==
  ASSUME TypeOK, UNCHANGED writes,
         local' = local \/ \E p \in Path : local' = [local EXCEPT ![p] = None]
  PROVE  FilesAge
BY DEF TypeOK, FilesAge

LEMMA StepAges == TypeInv /\ [Next]_vars => FilesAge
<1> SUFFICES ASSUME TypeInv, [Next]_vars PROVE FilesAge
  OBVIOUS
<1> USE DEF files, TypeInv
<1>1. ASSUME NEW p \in UserPath, NEW c \in Content, UserWrites(p, c)
      PROVE  FilesAge
  BY <1>1, CycleAssumption, WriteFileAges DEF UserWrites
<1>2. ASSUME NEW p \in UserPath, UserDeletes(p)
      PROVE  FilesAge
  <2>1. p \in Path
    BY CycleAssumption
  <2>2. QED
    BY <1>2, <2>1, NoWriteAges DEF UserDeletes
<1>3. CASE WriteConflictCopy
  <2>1. op.content \in Content
    BY <1>3 DEF WriteConflictCopy, At, References, StageOK
  <2>2. PICK q \in Path : WriteFile(q, op.content)
    BY <1>3 DEF WriteConflictCopy
  <2>3. QED
    BY <2>1, <2>2, WriteFileAges
<1>4. CASE WriteDownload
  <2>1. op # None /\ op.server \in Content
    BY <1>4 DEF WriteDownload, At, References, StageOK
  <2>2. op.action.path \in Path
    BY <2>1 DEF TypeOK, Operation, SyncAction
  <2>3. WriteFile(op.action.path, op.server)
    BY <1>4 DEF WriteDownload
  <2>4. QED
    BY <2>1, <2>2, <2>3, WriteFileAges
<1>5. CASE DeleteLocalFile
  <2>1. op.action.path \in Path
    BY <1>5 DEF DeleteLocalFile, At, TypeOK, Operation, SyncAction
  <2>2. QED
    BY <1>5, <2>1, NoWriteAges DEF DeleteLocalFile, Fail
<1>6. ASSUME UNCHANGED files
      PROVE  FilesAge
  BY <1>6, NoWriteAges
<1>7. ASSUME NEW p \in RemotePath, NEW c \in Content, NEW id \in FileId,
             RemoteCreates(p, c, id)
      PROVE  UNCHANGED files
  BY <1>7 DEF RemoteCreates
<1>8. ASSUME NEW id \in FileId,
             \/ \E c \in Content : RemoteEdits(id, c)
             \/ \E p \in RemotePath : RemoteRenames(id, p)
             \/ RemoteTrashes(id) \/ RemoteRemoves(id) \/ CreateRemoteFile(id)
      PROVE  UNCHANGED files
  BY <1>8 DEF RemoteEdits, RemoteRenames, RemoteTrashes, RemoteRemoves, CreateRemoteFile
<1>9. ASSUME \/ PauseFlag \/ ResumeFlag \/ SetFolderPaused
             \/ FirstCycle \/ StartCycle \/ FetchPage \/ Scan
             \/ (\E a \in queue : Pop(a)) \/ StopForPause \/ QueueEmpty \/ AdvanceToken
             \/ Faults
      PROVE  UNCHANGED files
  BY <1>9 DEF PauseFlag, ResumeFlag, SetFolderPaused, FirstCycle, StartCycle, FetchPage,
              Scan, Pop, StopForPause, QueueEmpty, AdvanceToken, Faults, CallFails, Crash
<1>10. ASSUME \/ ReadLocalFile \/ UpdateRemoteFile \/ RecordUpload \/ FetchContent
              \/ RecordDownload \/ DeleteRemoteFile \/ DropRow
       PROVE  UNCHANGED files
  BY <1>10 DEF ReadLocalFile, UpdateRemoteFile, RecordUpload, FetchContent,
               RecordDownload, DeleteRemoteFile, DropRow, Fail
<1>11. UNCHANGED vars => UNCHANGED files
  BY DEF vars
<1>12. QED
  BY <1>1, <1>2, <1>3, <1>4, <1>5, <1>6, <1>7, <1>8, <1>9, <1>10, <1>11
  DEF Next, Users, Daemon

\* While files age, nothing that was true at an earlier time is falsified.
LEMMA StampsKept ==
  ASSUME TypeInv, TypeInv', MtimesBounded, FilesAge
  PROVE  /\ MtimesBounded'
         /\ \A p \in Path, t \in Nat : t <= writes[p] =>
              t <= writes'[p] /\ (AtTime(p, t)' => AtTime(p, t))
         /\ \A p \in Path, c \in Content \cup {None}, t \in Nat :
              Stamped(p, c, t) => Stamped(p, c, t)'
<1>1. \A p \in Path : writes[p] \in Nat /\ writes'[p] \in Nat
  BY DEF TypeInv, TypeOK
<1>2. MtimesBounded'
  BY <1>1 DEF MtimesBounded, FilesAge
<1>3. ASSUME NEW p \in Path, NEW t \in Nat, t <= writes[p], AtTime(p, t)'
      PROVE  local'[p] = local[p]
  BY <1>1, <1>3 DEF FilesAge, AtTime
<1>4. \A p \in Path, t \in Nat : t <= writes[p] => t <= writes'[p]
  BY <1>1 DEF FilesAge
<1>5. QED
  BY <1>2, <1>3, <1>4 DEF AtTime, Stamped

\* A step that takes no stamp and writes no row.
LEMMA QuietStepOK ==
  ASSUME DivergenceInv, TypeInv', FilesAge,
         rows' = rows, queue' \subseteq queue,
         \/ op' = op \/ op' = None
         \/ op # None /\ op'.action = op.action /\ op.action.kind \notin UploadKinds
  PROVE  StampInv'
<1> USE DEF DivergenceInv, StampInv
<1>1. MtimesBounded'
  BY StampsKept
<1>2. ASSUME NEW a \in SyncAction, Stamped(a.path, a.md5, a.mtime)
      PROVE  Stamped(a.path, a.md5, a.mtime)'
  BY <1>2, StampsKept DEF SyncAction
<1>3. QueueStamped'
  BY <1>2 DEF QueueStamped, TypeInv, TypeOK
<1>4. OperationStamped'
  <2>1. CASE op' = op /\ op # None
    <3>1. op.action \in SyncAction
      BY <2>1 DEF TypeInv, TypeOK, Operation
    <3>2. ASSUME op.action.kind \in UploadKinds
          PROVE  /\ op.action.path \in Path /\ op.action.mtime \in Nat
                 /\ op.action.mtime <= writes[op.action.path]
      BY <2>1, <3>1, <3>2 DEF OperationStamped, Stamped, SyncAction
    <3>3. QED
      BY <1>2, <2>1, <3>1, <3>2, StampsKept DEF OperationStamped
  <2>2. QED
    BY <2>1 DEF OperationStamped
<1>5. RowsStamped'
  BY StampsKept DEF RowsStamped, TypeInv, TypeOK, FileState
<1>6. QED
  BY <1>1, <1>3, <1>4, <1>5

\* A step that writes or deletes the row of p and ends the operation.
LEMMA RowWrittenOK ==
  ASSUME DivergenceInv, TypeInv', FilesAge, queue' = queue, op' = None,
         UNCHANGED files,
         NEW p \in Path, NEW r \in FileState \cup {None}, rows' = [rows EXCEPT ![p] = r],
         r # None => /\ r.localModified <= writes[p]
                     /\ AtTime(p, r.localModified) => r.driveMd5 \in {None, r.localMd5}
  PROVE  StampInv'
<1>1. MtimesBounded' /\ QueueStamped' /\ OperationStamped'
  BY DEF DivergenceInv, StampInv, files, MtimesBounded, QueueStamped, OperationStamped,
         Stamped, AtTime
<1>2. RowsStamped'
  BY DEF DivergenceInv, StampInv, files, RowsStamped, AtTime, TypeInv, TypeOK
<1>3. QED
  BY <1>1, <1>2 DEF StampInv

\* The uploads a scan queues carry the content and time of the file.
LEMMA ScanStamps ==
  ASSUME DivergenceInv,
         NEW a \in MergeActions(ComputeLocalChanges(local, rows),
                                ComputeRemoteChanges(changes, rows)),
         a.kind \in UploadKinds
  PROVE  Stamped(a.path, a.md5, a.mtime)
<1> DEFINE L == ComputeLocalChanges(local, rows)
           R == ComputeRemoteChanges(changes, rows)
<1>1. a \in L
  <2>1. ASSUME NEW d \in R, a = Resolve(d, L, R)
        PROVE  FALSE
    <3>1. d \in SyncAction /\ d.kind \notin UploadKinds
      BY RemoteActionsOK DEF DivergenceInv
    <3>2. \A u : Conflict(u, d).kind = "Conflict"
      BY <3>1 DEF Conflict, SyncAction
    <3>3. QED
      BY <2>1, <3>1, <3>2 DEF Resolve, UploadKinds
  <2>2. QED
    BY <2>1 DEF MergeActions
<1>2. PICK p \in Path : /\ local[p] # None /\ a.path = p
                        /\ a.md5 = local[p].md5 /\ a.mtime = local[p].mtime
  BY <1>1 DEF ComputeLocalChanges, FromLocal, UploadKinds
<1>3. local[p].mtime <= writes[p]
  BY <1>2 DEF DivergenceInv, StampInv, MtimesBounded, TypeInv, TypeOK
<1>4. QED
  BY <1>2, <1>3 DEF Stamped

LEMMA StampInvStep ==
  ASSUME DivergenceInv, TypeInv', FilesAge, Next
  PROVE  StampInv'
<1> USE DEF files, server, database, memory, control
<1> DEFINE path == op.action.path
<1>1. /\ rows \in [Path -> FileState \cup {None}]
      /\ writes \in [Path -> Nat]
      /\ local \in [Path -> LocalFileMeta \cup {None}]
      /\ op # None => op \in Operation /\ op.action \in SyncAction
  BY DEF DivergenceInv, TypeInv, TypeOK, Operation
<1>2. ASSUME UNCHANGED <<rows, queue, op>>
      PROVE  StampInv'
  BY <1>2, QuietStepOK
<1>3. ASSUME Forget, UNCHANGED rows
      PROVE  StampInv'
  BY <1>3, QuietStepOK DEF Forget
<1>4. CASE Users
  <2>1. UNCHANGED <<rows, queue, op>>
    BY <1>4 DEF Users, UserWrites, UserDeletes, RemoteCreates, RemoteEdits, RemoteRenames,
                RemoteTrashes, RemoteRemoves, PauseFlag, ResumeFlag
  <2>2. QED
    BY <1>2, <2>1
<1>5. CASE SetFolderPaused \/ FirstCycle \/ StartCycle \/ FetchPage \/ AdvanceToken
  <2>1. UNCHANGED <<rows, queue, op>>
    BY <1>5 DEF SetFolderPaused, FirstCycle, StartCycle, FetchPage, AdvanceToken
  <2>2. QED
    BY <1>2, <2>1
<1>6. CASE StopForPause \/ QueueEmpty
  BY <1>6, QuietStepOK DEF StopForPause, QueueEmpty
<1>7. CASE Faults
  <2>1. Forget /\ UNCHANGED rows
    BY <1>7 DEF Faults, CallFails, Crash
  <2>2. QED
    BY <1>3, <2>1
<1>8. CASE Scan
  <2>1. QueueStamped'
    BY <1>8, ScanStamps DEF Scan, QueueStamped, Stamped, AtTime
  <2>2. MtimesBounded' /\ OperationStamped' /\ RowsStamped'
    BY <1>8 DEF Scan, DivergenceInv, StampInv, MtimesBounded, OperationStamped,
                RowsStamped, Stamped, AtTime
  <2>3. QED
    BY <2>1, <2>2 DEF StampInv
<1>9. ASSUME NEW a \in queue, Pop(a)
      PROVE  StampInv'
  <2>1. op'.action = a /\ op'.stage = "begin"
    BY <1>9 DEF Pop
  <2>2. OperationStamped'
    BY <1>9, <2>1 DEF Pop, DivergenceInv, StampInv, QueueStamped, OperationStamped,
                      Stamped, AtTime
  <2>3. MtimesBounded' /\ QueueStamped' /\ RowsStamped'
    BY <1>9 DEF Pop, DivergenceInv, StampInv, MtimesBounded, QueueStamped, RowsStamped,
                Stamped, AtTime
  <2>4. QED
    BY <2>2, <2>3 DEF StampInv
<1>10. ASSUME OperationStamped', UNCHANGED <<files, rows, queue>>
       PROVE  StampInv'
  BY <1>10 DEF DivergenceInv, StampInv, MtimesBounded, QueueStamped, RowsStamped,
               Stamped, AtTime
<1>11. CASE ReadLocalFile
  <2>1. CASE /\ op' = [op EXCEPT !.stage = "read", !.content = local[path].md5]
             /\ UNCHANGED <<files, server, database, Queued, control, start, steps>>
    <3>1. op # None /\ op \in Operation
      BY <1>1, <1>11 DEF ReadLocalFile, At
    <3>2. /\ op'.action = op.action /\ op'.stage = "read"
          /\ op'.content = local[path].md5
      BY <2>1, <3>1 DEF Operation
    <3>3. OperationStamped'
      BY <2>1, <3>1, <3>2 DEF DivergenceInv, StampInv, OperationStamped, Stamped, AtTime
    <3>4. QED
      BY <1>10, <2>1, <3>3 DEF Queued
  <2>2. QED
    BY <1>3, <1>11, <2>1 DEF ReadLocalFile, Fail
<1>12. ASSUME NEW id \in FileId, At("read", UploadKinds), UNCHANGED <<files, database>>,
              AnsweredOrLost([op EXCEPT !.stage = "sent",
                                        !.file = UploadAnswer(id, path, op.content)])
       PROVE  StampInv'
  <2> DEFINE answer == UploadAnswer(id, path, op.content)
  <2>1. op # None /\ op \in Operation /\ op.stage = "read"
    BY <1>1, <1>12 DEF At
  <2>2. CASE /\ op' = [op EXCEPT !.stage = "sent", !.file = answer]
             /\ UNCHANGED Queued
    <3>1. /\ op'.action = op.action /\ op'.stage = "sent" /\ op'.file = answer
          /\ op'.content = op.content
      BY <2>1, <2>2 DEF Operation
    <3>2. answer.md5 \in {None, op.content}
      BY DEF UploadAnswer
    <3>3. OperationStamped'
      BY <1>12, <2>1, <3>1, <3>2
      DEF DivergenceInv, StampInv, OperationStamped, Stamped, AtTime
    <3>4. QED
      BY <1>10, <1>12, <2>2, <3>3 DEF Queued
  <2>3. QED
    BY <1>3, <1>12, <2>2 DEF AnsweredOrLost
<1>13. ASSUME NEW id \in FileId, CreateRemoteFile(id)
       PROVE  StampInv'
  BY <1>12, <1>13 DEF CreateRemoteFile, At, UploadKinds
<1>14. CASE UpdateRemoteFile
  <2>1. CASE Fail
    BY <1>3, <2>1 DEF Fail
  <2>2. op # None /\ op.action.kind = "UpdateUpload"
    BY <1>14 DEF UpdateRemoteFile, At
  <2>3. op.action.state.id \in FileId
    BY <2>2 DEF DivergenceInv, TypeInv, References, WellFormed, FileState
  <2>4. QED
    BY <1>12, <1>14, <2>1, <2>3 DEF UpdateRemoteFile, At, UploadKinds
<1>15. CASE RecordUpload
  <2> DEFINE r == [id |-> op.file.id, driveMd5 |-> op.file.md5,
                   driveModified |-> op.file.modified, localMd5 |-> op.action.md5,
                   localModified |-> StoredMtime(op.action.mtime)]
  <2>1. /\ op # None /\ op.stage = "sent" /\ op.action.kind \in UploadKinds
        /\ path \in Path /\ op.action.mtime \in Nat
    BY <1>1, <1>15 DEF RecordUpload, At, SyncAction
  <2>2. r \in FileState
    <3>1. op.file \in Response /\ op.action.md5 \in Content
      BY <2>1 DEF DivergenceInv, TypeInv, References, StageOK, WellFormed
    <3>2. QED
      BY <2>1, <3>1 DEF Response, FileState, StoredMtime, NoTime
  <2>3. /\ op.action.mtime <= writes[path]
        /\ AtTime(path, op.action.mtime) => op.file.md5 \in {None, op.action.md5}
    BY <2>1 DEF DivergenceInv, StampInv, OperationStamped, Stamped
  <2>4. ~AtTime(path, NoTime)
    BY <1>1, <2>1 DEF AtTime, NoTime, DivergenceInv, StampInv, MtimesBounded
  <2>5. /\ r.localModified <= writes[path]
        /\ AtTime(path, r.localModified) => r.driveMd5 \in {None, r.localMd5}
    BY <1>1, <2>1, <2>3, <2>4 DEF StoredMtime, NoTime
  <2>6. /\ rows' = [rows EXCEPT ![path] = r] /\ op' = None
        /\ queue' = queue /\ UNCHANGED files
    BY <1>15 DEF RecordUpload, Queued
  <2> HIDE DEF r
  <2>7. QED
    BY <2>1, <2>2, <2>5, <2>6, RowWrittenOK
<1>16. CASE RecordDownload
  <2> DEFINE c == op.action.file
             r == [id |-> c.id, driveMd5 |-> c.md5, driveModified |-> c.modified,
                   localMd5 |-> c.md5, localModified |-> NoTime]
  <2>1. op # None /\ path \in Path /\ c \in DriveChange
    BY <1>1, <1>16
    DEF RecordDownload, At, SyncAction, DivergenceInv, TypeInv, References, WellFormed
  <2>2. r \in FileState /\ r.localModified = NoTime
    BY <2>1 DEF DriveChange, FileState, NoTime
  <2>3. r.localModified <= writes[path] /\ ~AtTime(path, r.localModified)
    BY <1>1, <2>1, <2>2 DEF AtTime, NoTime, DivergenceInv, StampInv, MtimesBounded
  <2>4. /\ rows' = [rows EXCEPT ![path] = r] /\ op' = None
        /\ queue' = queue /\ UNCHANGED files
    BY <1>16 DEF RecordDownload, Queued
  <2> HIDE DEF r
  <2>5. QED
    BY <2>1, <2>2, <2>3, <2>4, RowWrittenOK
<1>17. CASE DropRow
  <2>1. path \in Path
    BY <1>1, <1>17 DEF DropRow, At, SyncAction
  <2>2. /\ rows' = [rows EXCEPT ![path] = None] /\ op' = None
        /\ queue' = queue /\ UNCHANGED files
    BY <1>17 DEF DropRow, Queued
  <2>3. QED
    BY <2>1, <2>2, RowWrittenOK
<1>18. CASE \/ WriteConflictCopy \/ FetchContent \/ WriteDownload
            \/ DeleteRemoteFile \/ DeleteLocalFile
  <2>1. op # None /\ op \in Operation /\ op.action.kind \notin UploadKinds
    BY <1>1, <1>18 DEF WriteConflictCopy, FetchContent, WriteDownload, DeleteRemoteFile,
                       DeleteLocalFile, At, UploadKinds, DownloadKinds
  <2>2. CASE Forget /\ UNCHANGED rows
    BY <1>3, <2>2
  <2>3. CASE op'.action = op.action /\ UNCHANGED <<rows, queue>>
    BY <2>1, <2>3, QuietStepOK
  <2>4. \/ Forget /\ UNCHANGED rows
        \/ op'.action = op.action /\ UNCHANGED <<rows, queue>>
    BY <1>18, <2>1 DEF WriteConflictCopy, FetchContent, WriteDownload, DeleteRemoteFile,
                       DeleteLocalFile, Fail, AnsweredOrLost, Queued, Operation
  <2>5. QED
    BY <2>2, <2>3, <2>4
<1>19. QED
  BY <1>4, <1>5, <1>6, <1>7, <1>8, <1>9, <1>11, <1>13, <1>14, <1>15, <1>16, <1>17, <1>18
  DEF Next, Daemon

LEMMA DivergenceInvInit == Init => DivergenceInv
<1>1. Init => StampInv
  BY DEF Init, StampInv, MtimesBounded, QueueStamped, OperationStamped, RowsStamped
<1>2. QED
  BY <1>1, TypeInvInit DEF DivergenceInv

LEMMA DivergenceInvStep == DivergenceInv /\ [Next]_vars => DivergenceInv'
<1>1. DivergenceInv /\ Next => DivergenceInv'
  BY TypeInvStep, StepAges, StampInvStep DEF DivergenceInv
<1>2. DivergenceInv /\ UNCHANGED vars => StampInv'
  BY DEF vars, files, server, database, memory, control, DivergenceInv, StampInv,
         MtimesBounded, QueueStamped, OperationStamped, RowsStamped, Stamped, AtTime
<1>3. QED
  BY <1>1, <1>2, TypeInvStep DEF DivergenceInv

\* In every run, with any users and any faults, a file whose two sides both look
\* unchanged to the diff engine has the same content on both sides.
THEOREM NoSilentDivergenceHolds == Spec => []NoSilentDivergence
<1>1. DivergenceInv => NoSilentDivergence
  <2> SUFFICES ASSUME DivergenceInv, NEW p \in Path,
                      LooksUnchangedLocally(p), LooksUnchangedRemotely(p)
               PROVE  local[p].md5 = drive[rows[p].id].md5
    BY DEF NoSilentDivergence
  <2>1. AtTime(p, rows[p].localModified) /\ local[p].md5 = rows[p].localMd5
    BY DEF LooksUnchangedLocally, LocalChanged, AtTime
  <2>2. rows[p].driveMd5 \in {None, rows[p].localMd5}
    BY <2>1 DEF LooksUnchangedLocally, DivergenceInv, StampInv, RowsStamped
  <2>3. drive[rows[p].id].md5 = rows[p].driveMd5 /\ rows[p].driveMd5 \in Content
    BY DEF LooksUnchangedRemotely, RemoteChanged, DivergenceInv, TypeInv, References,
           Exists, DriveFile
  <2>4. QED
    BY <2>1, <2>2, <2>3, NoneAssumption
<1>2. QED
  BY DivergenceInvInit, DivergenceInvStep, <1>1, PTL DEF Spec

-----------------------------------------------------------------------------
(***************************************************************************)
(* Rows: a Drive file has one row, as long as a cycle lists a file once.   *)
(* A row of an id is aimed at a path by the table, by an action of the     *)
(* queue or by the operation under way; all that aim the same id agree on  *)
(* the path (ClaimInv), because the scan asks the table first and the list *)
(* has one entry per id.                                                   *)
(***************************************************************************)

\* The ids an action will write into the row of its path.
Writes(a, id) ==
  \/ a.kind = "UpdateUpload" /\ a.state.id = id
  \/ a.kind \in DownloadKinds \cup {"Conflict"} /\ a.file.id = id

RowAims(id, p) == rows[p] # None /\ rows[p].id = id
QueueAims(id, p) == \E a \in queue : a.path = p /\ Writes(a, id)
OpAims(id, p) ==
  /\ op # None /\ op.action.path = p
  /\ \/ Writes(op.action, id)
     \/ op.stage = "sent" /\ op.file.id = id

Aims(id, p) == RowAims(id, p) \/ QueueAims(id, p) \/ OpAims(id, p)

ClaimInv ==
  \A id \in FileId : \A p, q \in Path : Aims(id, p) /\ Aims(id, q) => p = q

\* Changes are in memory at the scan only, one of a file, and an operation
\* only while the queue is executed.
ListInv ==
  /\ phase # "scan" => changes = {}
  /\ \A c, d \in changes : c.id = d.id => c = d
  /\ op # None => phase = "execute"

FewerAims == \A id \in FileId : \A p \in Path : Aims(id, p)' => Aims(id, p)

LEMMA ClaimsKept ==
  ASSUME ClaimInv, FewerAims
  PROVE  ClaimInv'
BY DEF ClaimInv, FewerAims, Aims, RowAims, QueueAims, OpAims, Writes

LEMMA ForgetAims ==
  ASSUME Forget, UNCHANGED rows
  PROVE  FewerAims
BY DEF Forget, FewerAims, Aims, RowAims, QueueAims, OpAims

LEMMA StillAims ==
  ASSUME UNCHANGED <<rows, queue, op>>
  PROVE  FewerAims
BY DEF FewerAims, Aims, RowAims, QueueAims, OpAims, Writes

\* The operation goes on, without an upload's answer.
LEMMA StageAims ==
  ASSUME op # None, op'.action = op.action, op'.stage # "sent", UNCHANGED <<rows, queue>>
  PROVE  FewerAims
BY DEF FewerAims, Aims, RowAims, QueueAims, OpAims, Writes

\* The operation ends with the row of its path written or dropped.
LEMMA RecordAims ==
  ASSUME TypeInv, op # None, op' = None, UNCHANGED queue,
         \E row \in FileState \cup {None} :
           /\ rows' = [rows EXCEPT ![op.action.path] = row]
           /\ row # None => OpAims(row.id, op.action.path)
  PROVE  FewerAims
<1>1. PICK row \in FileState \cup {None} :
        /\ rows' = [rows EXCEPT ![op.action.path] = row]
        /\ row # None => OpAims(row.id, op.action.path)
  OBVIOUS
<1>2. rows \in [Path -> FileState \cup {None}]
  BY DEF TypeInv, TypeOK
<1> SUFFICES ASSUME NEW id \in FileId, NEW p \in Path, Aims(id, p)'
             PROVE  Aims(id, p)
  BY DEF FewerAims
<1>3. CASE RowAims(id, p)'
  BY <1>1, <1>2, <1>3 DEF Aims, RowAims
<1>4. CASE QueueAims(id, p)'
  BY <1>4 DEF Aims, QueueAims, Writes
<1>5. QED
  BY <1>3, <1>4 DEF Aims, OpAims

\* What the scan aims: the rows again, and the listed files without one.
LEMMA ScanAims ==
  ASSUME TypeInv, Scan, ListInv, NEW id \in FileId, NEW p \in Path, Aims(id, p)'
  PROVE  \/ RowAims(id, p)
         \/ ~HasRow(id, rows) /\ \E c \in changes : c.id = id /\ c.name = p
<1> DEFINE L == ComputeLocalChanges(local, rows)
           R == ComputeRemoteChanges(changes, rows)
<1>1. op = None /\ UNCHANGED <<op, rows>> /\ queue' = MergeActions(L, R)
  BY DEF Scan, ListInv, database
<1>2. CASE RowAims(id, p)'
  BY <1>1, <1>2 DEF RowAims
<1>3. CASE QueueAims(id, p)'
  <2>1. PICK a \in MergeActions(L, R) : a.path = p /\ Writes(a, id)
    BY <1>1, <1>3 DEF QueueAims, Writes
  <2>2. CASE a \in L
    <3>1. a.kind = "UpdateUpload" /\ a.state.id = id
      BY <2>1, <2>2 DEF Writes, ComputeLocalChanges, FromLocal, DownloadKinds
    <3>2. PICK q \in Path : /\ rows[q] # None
                            /\ a = FromLocal("UpdateUpload", q, rows[q], local[q].md5, local[q].mtime)
      BY <2>2, <3>1 DEF ComputeLocalChanges, FromLocal
    <3>3. q = p /\ rows[q].id = id
      BY <2>1, <3>1, <3>2 DEF FromLocal
    <3>4. QED
      BY <3>2, <3>3 DEF RowAims
  <2>3. CASE \E d \in R : a = Resolve(d, L, R)
    <3>1. PICK d \in R : a = Resolve(d, L, R)
      BY <2>3
    <3>2. PICK c \in changes : d = RemoteAction(c, rows)
      BY <3>1 DEF ComputeRemoteChanges
    <3>3. d.path = ChangePath(c, rows) /\ d.file = c
      BY <3>2 DEF RemoteAction, FromChange
    <3>4. d \in SyncAction
      BY <3>1, RemoteActionsOK
    <3>5. a.path = d.path /\ a.file = d.file
      BY <3>1, <3>4 DEF Resolve, Conflict, SyncAction
    <3>6. a.kind # "UpdateUpload"
      BY <3>1, <3>4, RemoteActionsOK DEF Resolve, Conflict, SyncAction, UploadKinds
    <3>7. c.id = id /\ p = ChangePath(c, rows)
      BY <2>1, <3>3, <3>5, <3>6 DEF Writes
    <3>8. CASE HasRow(id, rows)
      BY <3>7, <3>8 DEF ChangePath, HasRow, RowPath, RowAims
    <3>9. CASE ~HasRow(id, rows)
      BY <3>7, <3>9 DEF ChangePath
    <3>10. QED
      BY <3>8, <3>9
  <2>4. QED
    BY <2>1, <2>2, <2>3 DEF MergeActions
<1>4. QED
  BY <1>1, <1>2, <1>3 DEF Aims, OpAims

LEMMA ScanClaims ==
  ASSUME TypeInv, Scan, ListInv, ClaimInv
  PROVE  ClaimInv'
<1> SUFFICES ASSUME NEW id \in FileId, NEW p \in Path, NEW q \in Path,
                    Aims(id, p)', Aims(id, q)'
             PROVE  p = q
  BY DEF ClaimInv
<1>1. CASE HasRow(id, rows)
  <2>1. RowAims(id, p) /\ RowAims(id, q)
    BY <1>1, ScanAims
  <2>2. QED
    BY <2>1 DEF ClaimInv, Aims
<1>2. CASE ~HasRow(id, rows)
  <2>1. ~RowAims(id, p) /\ ~RowAims(id, q)
    BY <1>2 DEF HasRow, RowAims
  <2>2. PICK c \in changes : c.id = id /\ c.name = p
    BY <2>1, ScanAims
  <2>3. PICK d \in changes : d.id = id /\ d.name = q
    BY <2>1, ScanAims
  <2>4. QED
    BY <2>2, <2>3 DEF ListInv
<1>3. QED
  BY <1>1, <1>2

\* Nothing aims at an id that Drive has not handed out.
LEMMA FreshAims ==
  ASSUME TypeInv, NEW id \in FileId, drive[id] = None, NEW p \in Path, Aims(id, p)
  PROVE  FALSE
<1>1. ~Exists(id)
  BY CycleAssumption DEF Exists
<1>2. ~RowAims(id, p)
  BY <1>1 DEF TypeInv, References, RowAims
<1>3. ~QueueAims(id, p)
  BY <1>1 DEF TypeInv, References, QueueAims, WellFormed, Writes
<1>4. ~OpAims(id, p)
  BY <1>1 DEF TypeInv, References, OpAims, WellFormed, StageOK, Writes
<1>5. QED
  BY <1>2, <1>3, <1>4 DEF Aims

LEMMA CreateClaims ==
  ASSUME TypeInv, ClaimInv, NEW id \in FileId, CreateRemoteFile(id)
  PROVE  ClaimInv'
<1>1. /\ drive[id] = None /\ op \in Operation /\ UNCHANGED rows
      /\ op.action.kind = "NewUpload"
  BY DEF CreateRemoteFile, NextId, At, database, TypeInv, TypeOK
<1>2. CASE Forget
  BY <1>1, <1>2, ForgetAims, ClaimsKept
<1>3. CASE /\ op' = [op EXCEPT !.stage = "sent",
                               !.file = UploadAnswer(id, op.action.path, op.content)]
           /\ UNCHANGED queue
  <2>1. op'.action = op.action /\ op'.file.id = id
    <3>1. UploadAnswer(id, op.action.path, op.content).id = id
      BY DEF UploadAnswer
    <3>2. /\ op'.action = op.action
          /\ op'.file = UploadAnswer(id, op.action.path, op.content)
      BY <1>1, <1>3 DEF Operation
    <3>3. QED
      BY <3>1, <3>2
  <2>2. ASSUME NEW i \in FileId, NEW p \in Path, Aims(i, p)'
        PROVE  Aims(i, p) \/ (i = id /\ p = op.action.path)
    <3>1. CASE RowAims(i, p)'
      BY <1>1, <3>1 DEF Aims, RowAims
    <3>2. CASE QueueAims(i, p)'
      BY <1>3, <3>2 DEF Aims, QueueAims, Writes
    <3>3. CASE OpAims(i, p)'
      <4>1. op'.action.path = p
        BY <3>3 DEF OpAims
      <4>2. ~Writes(op.action, i)
        BY <1>1 DEF Writes, DownloadKinds
      <4>3. op'.file.id = i
        BY <2>1, <3>3, <4>2 DEF OpAims, Writes
      <4>4. QED
        BY <2>1, <4>1, <4>3
    <3>4. QED
      BY <2>2, <3>1, <3>2, <3>3 DEF Aims
  <2>3. \A p \in Path : ~Aims(id, p)
    BY <1>1, FreshAims
  <2>4. QED
    BY <2>2, <2>3 DEF ClaimInv
<1>4. QED
  BY <1>2, <1>3 DEF CreateRemoteFile, AnsweredOrLost, Queued

LEMMA ListStep ==
  ASSUME SinglePage, TypeInv, ListInv, [Next]_vars
  PROVE  ListInv'
<1> USE DEF ListInv, database, memory, control, files, server
<1>1. CASE Users
  BY <1>1 DEF Users, UserWrites, UserDeletes, RemoteCreates, RemoteEdits, RemoteRenames,
     RemoteTrashes, RemoteRemoves, PauseFlag, ResumeFlag
<1>2. CASE Forget
  BY <1>2 DEF Forget
<1>3. CASE CallFails \/ Crash
  BY <1>2, <1>3 DEF CallFails, Crash
<1>4. CASE SetFolderPaused \/ FirstCycle \/ StartCycle
  BY <1>4 DEF SetFolderPaused, FirstCycle, StartCycle
<1>5. CASE FetchPage
  <2> DEFINE new == {i \in FileId : drive[i] # None /\ drive[i].rev > cursor}
  <2>1. changes = {} /\ op = None /\ op' = op
    BY <1>5 DEF FetchPage
  <2>2. phase' = "scan" /\ (changes' = changes \/ changes' = {Entry(i) : i \in new})
    <3>1. CASE phase' = "scan" /\ UNCHANGED changes
      BY <3>1
    <3>2. CASE \E last \in new :
                 LET page == {i \in new : drive[i].rev <= drive[last].rev}
                 IN  /\ SinglePage => page = new
                     /\ changes' = changes \cup {Entry(i) : i \in page}
                     /\ \/ page = new /\ phase' = "scan" /\ newToken' = head
                        \/ page # new /\ UNCHANGED <<phase, newToken>>
      <4>1. PICK last \in new :
              LET page == {i \in new : drive[i].rev <= drive[last].rev}
              IN  /\ SinglePage => page = new
                  /\ changes' = changes \cup {Entry(i) : i \in page}
                  /\ \/ page = new /\ phase' = "scan" /\ newToken' = head
                     \/ page # new /\ UNCHANGED <<phase, newToken>>
        BY <3>2
      <4>2. {i \in new : drive[i].rev <= drive[last].rev} = new
        BY <4>1, SinglePage
      <4>3. QED
        BY <2>1, <4>1, <4>2
    <3>3. QED
      BY <1>5, <3>1, <3>2 DEF FetchPage
  <2>3. \A i \in FileId : Entry(i).id = i
    BY DEF Entry
  <2>4. QED
    BY <2>1, <2>2, <2>3
<1>6. CASE Scan
  BY <1>6 DEF Scan
<1>7. CASE \/ \E a \in queue : Pop(a)
           \/ StopForPause \/ QueueEmpty \/ AdvanceToken
  BY <1>7 DEF Pop, StopForPause, QueueEmpty, AdvanceToken
<1>8. CASE op # None /\ UNCHANGED <<phase, changes>>
  BY <1>8
<1>9. CASE ReadLocalFile \/ UpdateRemoteFile \/ FetchContent \/ DeleteRemoteFile
           \/ DeleteLocalFile
  BY <1>2, <1>8, <1>9 DEF ReadLocalFile, UpdateRemoteFile, FetchContent, DeleteRemoteFile,
     DeleteLocalFile, Fail, AnsweredOrLost, Queued, At
<1>10. CASE \E id \in FileId : CreateRemoteFile(id)
  BY <1>2, <1>8, <1>10 DEF CreateRemoteFile, AnsweredOrLost, Queued, At
<1>11. CASE RecordUpload \/ RecordDownload \/ WriteConflictCopy \/ WriteDownload \/ DropRow
  BY <1>8, <1>11 DEF RecordUpload, RecordDownload, WriteConflictCopy, WriteDownload, DropRow,
     Queued, At
<1>12. CASE UNCHANGED vars
  BY <1>12 DEF vars
<1>13. QED
  BY <1>1, <1>3, <1>4, <1>5, <1>6, <1>7, <1>9, <1>10, <1>11, <1>12 DEF Next, Daemon, Faults

LEMMA ClaimStep ==
  ASSUME TypeInv, TypeInv', ListInv, ClaimInv, [Next]_vars
  PROVE  ClaimInv'
<1> USE DEF database, memory, control, files, server
<1>1. CASE UNCHANGED <<rows, queue, op>>
  BY <1>1, StillAims, ClaimsKept
<1>2. CASE Users \/ UNCHANGED vars
  BY <1>1, <1>2 DEF Users, UserWrites, UserDeletes, RemoteCreates, RemoteEdits, RemoteRenames,
     RemoteTrashes, RemoteRemoves, PauseFlag, ResumeFlag, vars
<1>3. CASE Forget /\ UNCHANGED rows
  BY <1>3, ForgetAims, ClaimsKept
<1>4. CASE CallFails \/ Crash
  BY <1>3, <1>4 DEF CallFails, Crash
<1>5. CASE SetFolderPaused \/ FirstCycle \/ StartCycle \/ FetchPage \/ QueueEmpty \/ AdvanceToken
  BY <1>1, <1>5 DEF SetFolderPaused, FirstCycle, StartCycle, FetchPage, QueueEmpty, AdvanceToken
<1>6. CASE Scan
  BY <1>6, ScanClaims
<1>7. CASE \E a \in queue : Pop(a)
  <2>1. PICK a \in queue : Pop(a)
    BY <1>7
  <2>2. /\ UNCHANGED rows /\ queue' \subseteq queue
        /\ op'.action = a /\ op'.stage = "begin"
    BY <2>1 DEF Pop
  <2>3. FewerAims
    BY <2>2 DEF FewerAims, Aims, RowAims, QueueAims, OpAims, Writes
  <2>4. QED
    BY <2>3, ClaimsKept
<1>8. CASE StopForPause
  BY <1>8, ClaimsKept
     DEF StopForPause, FewerAims, Aims, RowAims, QueueAims, OpAims, Writes
<1>9. ASSUME op # None, op'.action = op.action, op'.stage # "sent", UNCHANGED <<rows, queue>>
      PROVE  ClaimInv'
  BY <1>9, StageAims, ClaimsKept
<1>10. op # None => op \in Operation
  BY DEF TypeInv, TypeOK
<1>11. CASE ReadLocalFile
  BY <1>3, <1>9, <1>10, <1>11 DEF ReadLocalFile, Fail, At, Queued, Operation
<1>12. CASE FetchContent
  BY <1>3, <1>9, <1>10, <1>12 DEF FetchContent, Fail, At, Queued, Operation
<1>13. CASE WriteConflictCopy
  BY <1>9, <1>10, <1>13 DEF WriteConflictCopy, At, Queued, Operation
<1>14. CASE WriteDownload
  BY <1>9, <1>10, <1>14 DEF WriteDownload, At, Queued, Operation
<1>15. CASE DeleteRemoteFile
  BY <1>3, <1>9, <1>10, <1>15 DEF DeleteRemoteFile, AnsweredOrLost, Fail, At, Queued, Operation
<1>16. CASE DeleteLocalFile
  BY <1>3, <1>9, <1>10, <1>16 DEF DeleteLocalFile, Fail, At, Queued, Operation
<1>17. CASE \E id \in FileId : CreateRemoteFile(id)
  BY <1>17, CreateClaims
<1>18. CASE UpdateRemoteFile
  <2> DEFINE id == op.action.state.id
             answer == UploadAnswer(id, op.action.path, op.content)
  <2>1. CASE Forget
    BY <1>3, <1>18, <2>1 DEF UpdateRemoteFile, Fail
  <2>2. CASE op' = [op EXCEPT !.stage = "sent", !.file = answer] /\ UNCHANGED queue
    <3>1. /\ op \in Operation /\ op.action.kind = "UpdateUpload" /\ UNCHANGED rows
          /\ op # None
      BY <1>10, <1>18, <2>1 DEF UpdateRemoteFile, At, Fail
    <3>2. answer.id = id
      BY DEF UploadAnswer
    <3>3. op'.action = op.action /\ op'.file = answer
      BY <2>2, <3>1 DEF Operation
    <3>4. FewerAims
      BY <2>2, <3>1, <3>2, <3>3 DEF FewerAims, Aims, RowAims, QueueAims, OpAims, Writes
    <3>5. QED
      BY <3>4, ClaimsKept
  <2>3. QED
    BY <1>18, <2>1, <2>2 DEF UpdateRemoteFile, AnsweredOrLost, Fail, Queued
<1>19. CASE RecordUpload \/ RecordDownload \/ DropRow
  <2>1. /\ op # None /\ op' = None /\ UNCHANGED queue /\ op \in Operation
    BY <1>10, <1>19 DEF RecordUpload, RecordDownload, DropRow, At, Queued
  <2>2. \E row \in FileState \cup {None} :
          /\ rows' = [rows EXCEPT ![op.action.path] = row]
          /\ row # None => OpAims(row.id, op.action.path)
    <3>1. op.action.path \in Path /\ rows \in [Path -> FileState \cup {None}]
      BY <2>1 DEF Operation, SyncAction, TypeInv, TypeOK
    <3>2. rows'[op.action.path] \in FileState \cup {None}
      BY <3>1 DEF TypeInv, TypeOK
    <3>3. CASE RecordUpload
      <4>1. /\ rows' = [rows EXCEPT ![op.action.path] = rows'[op.action.path]]
            /\ rows'[op.action.path].id = op.file.id
            /\ op.stage = "sent"
        BY <3>1, <3>3 DEF RecordUpload, At
      <4>2. QED
        BY <2>1, <3>2, <4>1 DEF OpAims
    <3>4. CASE RecordDownload
      <4>1. /\ rows' = [rows EXCEPT ![op.action.path] = rows'[op.action.path]]
            /\ rows'[op.action.path].id = op.action.file.id
            /\ op.action.kind \in DownloadKinds \cup {"Conflict"}
        BY <3>1, <3>4 DEF RecordDownload, At
      <4>2. QED
        BY <2>1, <3>2, <4>1 DEF OpAims, Writes
    <3>5. CASE DropRow
      BY <3>5 DEF DropRow
    <3>6. QED
      BY <1>19, <3>3, <3>4, <3>5
  <2>3. QED
    BY <2>1, <2>2, RecordAims, ClaimsKept
<1>20. QED
  BY <1>2, <1>4, <1>5, <1>6, <1>7, <1>8, <1>11, <1>12, <1>13, <1>14, <1>15, <1>16, <1>17,
     <1>18, <1>19 DEF Next, Daemon, Faults

\* Two rows never hold one Drive file, whatever users, pauses and faults do, as
\* long as a cycle's changes come in one page: the path of an id is the row's
\* where there is one (compute_remote_changes), whatever the entry's name.
THEOREM RowsDisjointHolds == ASSUME SinglePage PROVE Spec => []RowsDisjoint
<1>1. Init => TypeInv /\ ListInv /\ ClaimInv
  BY TypeInvInit DEF Init, ListInv, ClaimInv, Aims, RowAims, QueueAims, OpAims
<1>2. TypeInv /\ ListInv /\ ClaimInv /\ [Next]_vars => (TypeInv /\ ListInv /\ ClaimInv)'
  BY TypeInvStep, ListStep, ClaimStep, SinglePage
<1>3. TypeInv /\ ClaimInv => RowsDisjoint
  <2> SUFFICES ASSUME TypeInv, ClaimInv, NEW p \in Path, NEW q \in Path,
                      rows[p] # None, rows[q] # None, rows[p].id = rows[q].id
               PROVE  p = q
    BY DEF RowsDisjoint
  <2>1. rows[p].id \in FileId
    BY DEF TypeInv, TypeOK, FileState
  <2>2. Aims(rows[p].id, p) /\ Aims(rows[p].id, q)
    BY DEF Aims, RowAims
  <2>3. QED
    BY <2>1, <2>2 DEF ClaimInv
<1>4. QED
  BY <1>1, <1>2, <1>3, PTL DEF Spec


-----------------------------------------------------------------------------
(***************************************************************************)
(* Honest tokens, and one upload per name.                                 *)
(*                                                                         *)
(* Both are about what a stored token has passed.  The argument follows a  *)
(* file's last change through a cycle: it is listed (ListingInv), its      *)
(* entry yields an action unless its row is right already, the action      *)
(* keeps the values of the entry (QueueInv), the operation that records    *)
(* them has touched the file as it was listed (OpInv), and until then the  *)
(* token does not move (HonestUpTo).  A path has one row only, so two      *)
(* files of one name compete for it; PairInv says which one gives way.     *)
(***************************************************************************)

\* A bounded set of numbers has a largest one.
LEMMA LargestNatural ==
  ASSUME NEW N \in SUBSET Nat, N # {}, NEW b \in Nat, \A n \in N : n <= b
  PROVE  \E n \in N : \A m \in N : m <= n
<1> DEFINE Above(n) == {m \in N : m > n}
           A == {Above(n) : n \in N}
<1>1. A \subseteq FiniteSubsetsOf(N)
  <2>1. \A n \in N : Above(n) \in SUBSET Nat /\ \A m \in Above(n) : m <= b
    OBVIOUS
  <2>2. \A n \in N : IsFiniteSet(Above(n))
    BY <2>1, FS_BoundedSetOfNaturals
  <2>3. QED
    BY <2>2 DEF FiniteSubsetsOf
<1>2. PICK x \in A : \A y \in A : <<y, x>> \notin StrictSubsetOrdering(N)
  <2>1. A # {}
    OBVIOUS
  <2>2. QED
    BY <1>1, <2>1, WFMin, FS_StrictSubsetOrderingWellFounded
<1>3. PICK n \in N : x = Above(n)
  OBVIOUS
<1>4. ASSUME NEW m \in N, m > n
      PROVE  FALSE
  <2>1. Above(m) \subseteq Above(n) /\ m \in Above(n) /\ m \notin Above(m)
    <3>1. n \in Nat /\ m \in Nat /\ \A k \in N : k \in Nat
      OBVIOUS
    <3>2. \A k \in N : k > m => k > n
      BY <1>4, <3>1
    <3>3. m > n /\ ~(m > m)
      BY <1>4, <3>1
    <3>4. QED
      BY <3>2, <3>3
  <2>2. <<Above(m), Above(n)>> \in StrictSubsetOrdering(N)
    BY <2>1 DEF StrictSubsetOrdering
  <2>3. QED
    BY <1>2, <1>3, <2>2
<1>5. QED
  BY <1>4

\* Change numbers order what is on Drive.
DriveInv ==
  /\ \A i \in FileId : Exists(i) => drive[i].modified <= drive[i].rev /\ drive[i].rev <= head
  /\ \A i, j \in FileId : Exists(i) /\ Exists(j) /\ drive[i].rev = drive[j].rev => i = j

\* One write of a Drive file: it gets the next change number, and keeps its name.
Touches(id) ==
  /\ head' = head + 1
  /\ \A i \in FileId : i # id => drive'[i] = drive[i]
  /\ drive'[id] \in DriveFile /\ drive'[id].rev = head + 1
  /\ \/ ~Exists(id) /\ drive'[id].status = "live" /\ drive'[id].modified = head + 1
     \/ /\ Exists(id) /\ drive[id].status # "removed"
        /\ drive'[id].name = drive[id].name
        /\ \/ drive'[id].status = drive[id].status /\ drive'[id].modified = head + 1
           \/ drive'[id].status # "live" /\ drive'[id].modified = drive[id].modified

\* What the steps of a folder without renames leave of the Drive files.
Onward ==
  /\ head <= head'
  /\ \A i \in FileId : Exists(i) =>
       /\ drive'[i] \in DriveFile
       /\ drive'[i].name = drive[i].name
       /\ drive[i].modified <= drive'[i].modified
       /\ drive[i].status = "removed" => drive'[i] = drive[i]
       /\ drive[i].status # "live" => drive'[i].status # "live"
       /\ \/ drive'[i] = drive[i]
          \/ /\ drive'[i].rev = head + 1
             /\ drive'[i].status = "live" => drive'[i].modified = head + 1
  /\ \A i \in FileId : ~Exists(i) /\ drive'[i] \in DriveFile =>
       /\ drive'[i].status = "live"
       /\ drive'[i].rev = head + 1 /\ drive'[i].modified = head + 1

\* One write keeps the order and moves on.
LEMMA TouchMovesOn ==
  ASSUME TypeInv, DriveInv, NEW id \in FileId, Touches(id)
  PROVE  DriveInv' /\ Onward
<1>1. head \in Nat /\ drive \in [FileId -> DriveFile \cup {None}] /\ None \notin DriveFile
  BY CycleAssumption DEF TypeInv, TypeOK
<1>2. \A i \in FileId : Exists(i) => /\ drive[i].rev \in Nat /\ drive[i].modified \in Nat
                                     /\ drive[i].rev <= head /\ drive[i].modified <= drive[i].rev
  BY DEF Exists, DriveFile, DriveInv
<1>3. Onward
  BY <1>1, <1>2 DEF Touches, Onward, Exists
<1>4. \A i \in FileId : Exists(i)' => drive'[i].modified <= drive'[i].rev /\ drive'[i].rev <= head'
  <2> SUFFICES ASSUME NEW i \in FileId, Exists(i)'
               PROVE  drive'[i].modified <= drive'[i].rev /\ drive'[i].rev <= head'
    OBVIOUS
  <2>1. CASE i = id
    BY <1>1, <1>2, <2>1 DEF Touches
  <2>2. CASE i # id
    BY <1>1, <1>2, <2>2 DEF Touches, Exists
  <2>3. QED
    BY <2>1, <2>2
<1>5. \A i, j \in FileId : Exists(i)' /\ Exists(j)' /\ drive'[i].rev = drive'[j].rev => i = j
  <2> SUFFICES ASSUME NEW i \in FileId, NEW j \in FileId, Exists(i)', Exists(j)',
                      drive'[i].rev = drive'[j].rev
               PROVE  i = j
    OBVIOUS
  <2>1. \A k \in FileId : Exists(k)' /\ k # id =>
          Exists(k) /\ drive'[k] = drive[k] /\ drive'[k].rev < head + 1
    BY <1>1, <1>2 DEF Touches, Exists
  <2>2. drive'[id].rev = head + 1 /\ ~(head + 1 < head + 1)
    BY <1>1 DEF Touches
  <2>3. QED
    BY <2>1, <2>2 DEF DriveInv
<1>6. QED
  BY <1>3, <1>4, <1>5 DEF DriveInv

\* So does a step that leaves the Drive alone.
LEMMA DriveStillMovesOn ==
  ASSUME TypeInv, DriveInv, UNCHANGED server
  PROVE  DriveInv' /\ Onward
<1>1. head \in Nat /\ drive \in [FileId -> DriveFile \cup {None}] /\ head' = head /\ drive' = drive
  BY DEF TypeInv, TypeOK, server
<1>2. \A i \in FileId : Exists(i) => drive[i].rev \in Nat /\ drive[i].modified \in Nat
  BY DEF Exists, DriveFile
<1>3. QED
  BY <1>1, <1>2 DEF DriveInv, Onward, Exists

-----------------------------------------------------------------------------
(***************************************************************************)
(* The steps of a folder without renames and pauses, sorted by what they   *)
(* do to the cycle.  A file is made by a remote user (FreshByUser) or by   *)
(* the NewUpload that is being executed (FreshByUpload).                   *)
(***************************************************************************)

FreshByUser ==
  \A i \in FileId : ~Exists(i) /\ drive'[i] \in DriveFile =>
    /\ drive'[i].name \in RemotePath
    /\ \/ "duplicate" \in RemoteOps
       \/ \A j \in FileId : Exists(j) /\ drive[j].name = drive'[i].name =>
                              drive[j].status = "removed"

FreshByUpload ==
  \A i \in FileId : ~Exists(i) /\ drive'[i] \in DriveFile =>
    /\ op # None /\ op.action.kind = "NewUpload" /\ op.stage = "read"
    /\ drive'[i].name = op.action.path

\* Users, and the folder's row: the cycle does not see it.
Outside == FreshByUser /\ UNCHANGED <<rows, token, start, memory>>

\* A failed call, a lost answer or a crash: the cycle is forgotten.
Drops == FreshByUpload /\ Forget /\ UNCHANGED <<rows, token, start>>

\* FirstCycle and StartCycle.
Begins ==
  /\ phase = "idle" /\ phase' = "fetch"
  /\ token' # None /\ cursor' = token'
  /\ \/ UNCHANGED <<token, start>>
     \/ token = None /\ token' = head /\ start' = head
  /\ UNCHANGED <<server, rows, changes, newToken, queue, op>>

\* The operation goes on: without writing to Drive, by writing a file it knows, or
\* by making one.
WorksAlone ==
  /\ UNCHANGED server
  /\ \/ op.stage = "begin" /\ op'.stage = "read"
     \/ op'.stage = "copied"
     \/ /\ op'.stage = "fetched"
        /\ op.action.kind \in DownloadKinds \cup {"Conflict"}
        /\ drive[op.action.file.id].status # "removed"
     \/ op.stage = "fetched" /\ op'.stage = "written"
     \/ op'.stage = "dropped" /\ op.action.kind = "DeleteLocal"

WritesKnown ==
  LET id == op.action.state.id
  IN  /\ id \in FileId /\ Exists(id) /\ Touches(id)
      /\ \/ /\ op.action.kind = "UpdateUpload" /\ op'.stage = "sent"
            /\ op'.file.id = id /\ op'.file.modified <= head + 1
         \/ op.action.kind = "DeleteRemote" /\ op'.stage = "dropped"

WritesNew ==
  \E id \in FileId :
    /\ ~Exists(id) /\ Touches(id) /\ drive'[id].name = op.action.path
    /\ op.action.kind = "NewUpload" /\ op.stage = "read" /\ op'.stage = "sent"
    /\ op'.file.id = id /\ op'.file.modified <= head + 1

Works ==
  /\ op # None /\ op' # None /\ op'.action = op.action
  /\ UNCHANGED <<rows, token, start, Queued>>
  /\ WorksAlone \/ WritesKnown \/ WritesNew

\* The operation writes its row and ends.
Records == RecordUpload \/ RecordDownload \/ DropRow

StepKinds ==
  \/ Outside \/ Drops \/ Begins \/ FetchPage \/ Scan
  \/ \E a \in queue : Pop(a)
  \/ QueueEmpty \/ AdvanceToken \/ Works \/ Records

\* The writes of a known file.
LEMMA KnownFileTouched ==
  ASSUME TypeInv, NEW id \in FileId, Exists(id), drive[id].status # "removed"
  PROVE  /\ \A c \in Content : PutFile(id, Rewritten(id, c)) => Touches(id)
         /\ \A st \in {"trashed", "removed"} : PutFile(id, Marked(id, st)) => Touches(id)
<1>1. head \in Nat /\ drive \in [FileId -> DriveFile \cup {None}] /\ drive[id] \in DriveFile
  BY DEF TypeInv, TypeOK, Exists
<1>2. \A f : PutFile(id, f) =>
        head' = head + 1 /\ drive'[id] = f /\ \A i \in FileId : i # id => drive'[i] = drive[i]
  BY <1>1 DEF PutFile
<1>3. head + 1 \in Nat
  BY <1>1
<1>4. ASSUME NEW c \in Content, PutFile(id, Rewritten(id, c))
      PROVE  Touches(id)
  <2> DEFINE g == Rewritten(id, c)
  <2>1. /\ g \in DriveFile /\ g.rev = head + 1 /\ g.modified = head + 1
        /\ g.name = drive[id].name /\ g.status = drive[id].status
    BY <1>1, <1>3 DEF Rewritten, DriveFile
  <2> HIDE DEF g
  <2>2. drive'[id] = g
    BY <1>2, <1>4 DEF g
  <2>3. QED
    BY <1>2, <1>4, <2>1, <2>2 DEF Touches
<1>5. ASSUME NEW st \in {"trashed", "removed"}, PutFile(id, Marked(id, st))
      PROVE  Touches(id)
  <2> DEFINE g == Marked(id, st)
  <2>1. /\ g \in DriveFile /\ g.rev = head + 1 /\ g.modified = drive[id].modified
        /\ g.name = drive[id].name /\ g.status # "live"
    BY <1>1, <1>3 DEF Marked, DriveFile, Statuses
  <2> HIDE DEF g
  <2>2. drive'[id] = g
    BY <1>2, <1>5 DEF g
  <2>3. QED
    BY <1>2, <1>5, <2>1, <2>2 DEF Touches
<1>6. QED
  BY <1>4, <1>5

\* The first write of a file.
LEMMA NewFileTouched ==
  ASSUME TypeInv, NEW id \in FileId, drive[id] = None, NEW p \in Path, NEW c \in Content,
         PutFile(id, NewFile(p, c))
  PROVE  /\ Touches(id) /\ ~Exists(id) /\ drive'[id].name = p
         /\ \A i \in FileId : ~Exists(i) /\ drive'[i] \in DriveFile => i = id
<1>1. head \in Nat /\ drive \in [FileId -> DriveFile \cup {None}] /\ None \notin DriveFile
  BY CycleAssumption DEF TypeInv, TypeOK
<1>2. NewFile(p, c) \in DriveFile
  BY <1>1 DEF NewFile, DriveFile, Statuses
<1>3. /\ head' = head + 1 /\ drive'[id] = NewFile(p, c)
      /\ \A i \in FileId : i # id => drive'[i] = drive[i]
  BY <1>1 DEF PutFile
<1>4. /\ NewFile(p, c).name = p /\ NewFile(p, c).status = "live"
      /\ NewFile(p, c).rev = head + 1 /\ NewFile(p, c).modified = head + 1
  BY DEF NewFile
<1>5. QED
  BY <1>1, <1>2, <1>3, <1>4 DEF Touches, Exists

\* Nothing is made when the Drive is left alone, or a known file written.
LEMMA NothingFresh ==
  ASSUME TypeInv, \/ UNCHANGED server
                  \/ \E id \in FileId : Exists(id) /\ Touches(id)
  PROVE  \A i \in FileId : ~Exists(i) => drive'[i] \notin DriveFile
BY DEF Exists, Touches, server

\* The steps of users.
LEMMA UserStepSorted ==
  ASSUME TypeInv, DriveInv, ~pause, ~UserMayPause, "rename" \notin RemoteOps, Users
  PROVE  ~pause' /\ DriveInv' /\ Onward /\ Outside
<1> USE DEF files, database, control
<1>1. ASSUME NEW id \in FileId, drive[id] # None, drive[id].status # "removed",
             \/ \E c \in Content : PutFile(id, Rewritten(id, c))
             \/ \E st \in {"trashed", "removed"} : PutFile(id, Marked(id, st)),
             UNCHANGED <<files, database, memory, control, start>>
      PROVE  ~pause' /\ DriveInv' /\ Onward /\ Outside
  <2>1. Exists(id)
    BY <1>1 DEF Exists, TypeInv, TypeOK
  <2>2. Touches(id)
    BY <1>1, <2>1, KnownFileTouched
  <2>3. FreshByUser
    BY <2>1, <2>2, NothingFresh DEF FreshByUser
  <2>4. QED
    BY <1>1, <2>2, <2>3, TouchMovesOn DEF Outside
<1>2. CASE UNCHANGED <<server, database, memory, control, start>>
  <2>1. FreshByUser
    BY <1>2, NothingFresh DEF FreshByUser
  <2>2. QED
    BY <1>2, <2>1, DriveStillMovesOn DEF Outside
<1>3. CASE \/ \E p \in UserPath, c \in Content : UserWrites(p, c)
           \/ \E p \in UserPath : UserDeletes(p)
  BY <1>2, <1>3 DEF UserWrites, UserDeletes
<1>4. ASSUME NEW p \in RemotePath, NEW c \in Content, NEW id \in FileId, RemoteCreates(p, c, id)
      PROVE  ~pause' /\ DriveInv' /\ Onward /\ Outside
  <2>1. p \in Path /\ drive[id] = None /\ PutFile(id, NewFile(p, c))
        /\ UNCHANGED <<files, database, memory, control, start>>
    BY <1>4, CycleAssumption DEF RemoteCreates, NextId
  <2>2. /\ Touches(id) /\ ~Exists(id) /\ drive'[id].name = p
        /\ \A i \in FileId : ~Exists(i) /\ drive'[i] \in DriveFile => i = id
    BY <2>1, NewFileTouched
  <2>3. "duplicate" \in RemoteOps \/ Named(p) = {}
    BY <1>4 DEF RemoteCreates
  <2>4. Named(p) = {} =>
          \A j \in FileId : Exists(j) /\ drive[j].name = p => drive[j].status = "removed"
    BY CycleAssumption DEF Named, Exists
  <2>5. FreshByUser
    BY <2>2, <2>3, <2>4 DEF FreshByUser
  <2>6. QED
    BY <2>1, <2>2, <2>5, TouchMovesOn DEF Outside
<1>5. CASE \E id \in FileId, c \in Content : RemoteEdits(id, c)
  BY <1>1, <1>5 DEF RemoteEdits
<1>6. CASE \E id \in FileId : RemoteTrashes(id) \/ RemoteRemoves(id)
  <2>1. PICK id \in FileId : RemoteTrashes(id) \/ RemoteRemoves(id)
    BY <1>6
  <2>2. /\ drive[id] # None /\ drive[id].status # "removed"
        /\ PutFile(id, Marked(id, "trashed")) \/ PutFile(id, Marked(id, "removed"))
        /\ UNCHANGED <<files, database, memory, control, start>>
    BY <2>1 DEF RemoteTrashes, RemoteRemoves
  <2>3. QED
    BY <1>1, <2>2
<1>7. QED
  BY <1>3, <1>4, <1>5, <1>6 DEF Users, RemoteRenames, PauseFlag, ResumeFlag

\* The steps that end a cycle with an error.
LEMMA DropSorted ==
  ASSUME TypeInv, DriveInv, ~pause, Forget,
         UNCHANGED <<server, rows, token, start>>, pause' = pause \/ pause' = FALSE
  PROVE  ~pause' /\ DriveInv' /\ Onward /\ Drops
<1>1. FreshByUpload
  BY NothingFresh DEF FreshByUpload
<1>2. ~pause'
  OBVIOUS
<1>3. QED
  BY <1>1, <1>2, DriveStillMovesOn DEF Drops

\* A call of execute_one that writes a Drive file, when its answer is lost.
LEMMA LostSorted ==
  ASSUME TypeInv, DriveInv, ~pause, Forget, FreshByUpload,
         \E id \in FileId : Touches(id),
         UNCHANGED <<rows, token, start, pause>>
  PROVE  ~pause' /\ DriveInv' /\ Onward /\ Drops
BY TouchMovesOn DEF Drops

\* The next stage of the operation keeps its action.
LEMMA NextStage ==
  ASSUME TypeInv, op # None, NEW st \in Stages,
         \/ op' = [op EXCEPT !.stage = st]
         \/ \E c \in Content : op' = [op EXCEPT !.stage = st, !.content = c]
         \/ \E c \in Content : op' = [op EXCEPT !.stage = st, !.server = c]
         \/ \E q \in Path : op' = [op EXCEPT !.stage = st, !.copy = q]
  PROVE  op' \in Operation /\ op'.action = op.action /\ op'.stage = st
<1>1. op \in Operation
  BY DEF TypeInv, TypeOK
<1>2. op' \in Operation
  BY OperationOK
<1>3. op'.action = op.action /\ op'.stage = st
  BY <1>1 DEF Operation
<1>4. QED
  BY <1>2, <1>3

\* So does the answer of an upload.
LEMMA NextAnswer ==
  ASSUME TypeInv, op # None, NEW f \in Response,
         op' = [op EXCEPT !.stage = "sent", !.file = f]
  PROVE  op' \in Operation /\ op'.action = op.action /\ op'.stage = "sent" /\ op'.file = f
<1>1. op \in Operation
  BY DEF TypeInv, TypeOK
<1>2. op' \in Operation
  BY OperationOK DEF Stages
<1>3. op'.action = op.action /\ op'.stage = "sent" /\ op'.file = f
  BY <1>1 DEF Operation
<1>4. QED
  BY <1>2, <1>3

\* The stages of execute_one that do not write to Drive.
LEMMA WorkSorted ==
  ASSUME TypeInv, TypeInv', DriveInv, ~pause,
         \/ ReadLocalFile \/ WriteConflictCopy \/ FetchContent \/ WriteDownload \/ DeleteLocalFile
  PROVE  ~pause' /\ DriveInv' /\ Onward /\ StepKinds
<1> USE DEF files, database, control
<1>1. op \in Operation /\ op # None /\ UNCHANGED <<server, rows, token, start, pause>>
  BY DEF TypeInv, TypeOK, At, ReadLocalFile, WriteConflictCopy, FetchContent, WriteDownload,
         DeleteLocalFile, Fail
<1>2. CASE Forget
  BY <1>1, <1>2, DropSorted DEF StepKinds
<1>3. ASSUME NEW st \in {"read", "copied", "fetched", "written", "dropped"},
             op' \in Operation, op'.action = op.action, op'.stage = st,
             UNCHANGED Queued, WorksAlone
      PROVE  ~pause' /\ DriveInv' /\ Onward /\ StepKinds
  BY <1>1, <1>3, DriveStillMovesOn, NoneIsApart DEF StepKinds, Works
<1>4. CASE ReadLocalFile
  <2>1. CASE op' = [op EXCEPT !.stage = "read", !.content = local[op.action.path].md5]
             /\ UNCHANGED Queued /\ op.stage = "begin" /\ local[op.action.path] # None
    <3>1. local[op.action.path].md5 \in Content
      BY <1>1, <2>1 DEF TypeInv, TypeOK, LocalFileMeta, Operation, SyncAction
    <3>2. op' \in Operation /\ op'.action = op.action /\ op'.stage = "read"
      BY <1>1, <2>1, <3>1, NextStage DEF Stages
    <3>3. QED
      BY <1>1, <1>3, <2>1, <3>2 DEF WorksAlone
  <2>2. QED
    BY <1>2, <1>4, <2>1 DEF ReadLocalFile, Fail, At
<1>5. CASE WriteConflictCopy
  <2>1. PICK q \in Path : op' = [op EXCEPT !.stage = "copied", !.copy = q]
    BY <1>5 DEF WriteConflictCopy
  <2>2. op' \in Operation /\ op'.action = op.action /\ op'.stage = "copied" /\ UNCHANGED Queued
    BY <1>1, <1>5, <2>1, NextStage DEF Stages, WriteConflictCopy
  <2>3. QED
    BY <1>1, <1>3, <2>2 DEF WorksAlone
<1>6. CASE FetchContent
  <2> DEFINE id == op.action.file.id
  <2>1. op.action.kind \in DownloadKinds \cup {"Conflict"}
    BY <1>6 DEF FetchContent, At
  <2>2. CASE /\ op' = [op EXCEPT !.stage = "fetched", !.server = drive[id].md5]
             /\ UNCHANGED Queued /\ drive[id].status # "removed"
    <3>1. drive[id].md5 \in Content
      BY <1>1, <2>1 DEF TypeInv, References, WellFormed, Exists, DriveFile
    <3>2. op' \in Operation /\ op'.action = op.action /\ op'.stage = "fetched"
      BY <1>1, <2>2, <3>1, NextStage DEF Stages
    <3>3. QED
      BY <1>1, <1>3, <2>1, <2>2, <3>2 DEF WorksAlone
  <2>3. QED
    BY <1>2, <1>6, <2>2 DEF FetchContent, Fail
<1>7. CASE WriteDownload
  <2>1. /\ op.stage = "fetched" /\ UNCHANGED Queued
        /\ op' \in Operation /\ op'.action = op.action /\ op'.stage = "written"
    BY <1>1, <1>7, NextStage DEF Stages, WriteDownload, At
  <2>2. QED
    BY <1>1, <1>3, <2>1 DEF WorksAlone
<1>8. CASE DeleteLocalFile
  <2>1. CASE op' = [op EXCEPT !.stage = "dropped"] /\ UNCHANGED Queued
    <3>1. /\ op.action.kind = "DeleteLocal"
          /\ op' \in Operation /\ op'.action = op.action /\ op'.stage = "dropped"
      BY <1>1, <1>8, <2>1, NextStage DEF Stages, DeleteLocalFile, At
    <3>2. QED
      BY <1>1, <1>3, <2>1, <3>1 DEF WorksAlone
  <2>2. QED
    BY <1>2, <1>8, <2>1 DEF DeleteLocalFile, Fail
<1>9. QED
  BY <1>4, <1>5, <1>6, <1>7, <1>8

\* The call of a new upload.
LEMMA CreateSorted ==
  ASSUME TypeInv, DriveInv, ~pause, NEW id \in FileId, CreateRemoteFile(id)
  PROVE  ~pause' /\ DriveInv' /\ Onward /\ StepKinds
<1> DEFINE p == op.action.path
           answer == UploadAnswer(id, p, op.content)
           op1 == [op EXCEPT !.stage = "sent", !.file = answer]
<1> USE DEF files, database, control
<1>1. /\ op # None /\ op \in Operation /\ op.stage = "read" /\ op.action.kind = "NewUpload"
      /\ p \in Path /\ op.content \in Content /\ drive[id] = None /\ head \in Nat
  BY DEF CreateRemoteFile, At, TypeInv, TypeOK, References, StageOK, NextId, Operation, SyncAction
<1>2. PutFile(id, NewFile(p, op.content)) /\ AnsweredOrLost(op1)
      /\ UNCHANGED <<rows, token, pause, start>>
  BY DEF CreateRemoteFile
<1>3. /\ Touches(id) /\ ~Exists(id) /\ drive'[id].name = p
      /\ \A i \in FileId : ~Exists(i) /\ drive'[i] \in DriveFile => i = id
  BY <1>1, <1>2, NewFileTouched
<1>4. DriveInv' /\ Onward
  BY <1>3, TouchMovesOn
<1>5. CASE Forget
  <2>1. FreshByUpload
    BY <1>1, <1>3 DEF FreshByUpload
  <2>2. QED
    BY <1>2, <1>3, <1>5, <2>1, LostSorted DEF StepKinds
<1>6. CASE op' = op1 /\ UNCHANGED Queued
  <2>1. answer \in Response /\ answer.id = id /\ answer.modified <= head + 1
    BY <1>1 DEF UploadAnswer, Response, NoTime
  <2> HIDE DEF answer
  <2>2. op' \in Operation /\ op'.action = op.action /\ op'.stage = "sent" /\ op'.file = answer
    BY <1>1, <1>6, <2>1, NextAnswer
  <2>3. WritesNew
    BY <1>1, <1>3, <2>1, <2>2 DEF WritesNew
  <2>4. QED
    BY <1>1, <1>2, <1>4, <1>6, <2>2, <2>3, NoneIsApart DEF StepKinds, Works
<1>7. QED
  BY <1>2, <1>5, <1>6 DEF AnsweredOrLost

\* The calls that write a file the action knows.
LEMMA UpdateSorted ==
  ASSUME TypeInv, DriveInv, ~pause, UpdateRemoteFile \/ DeleteRemoteFile
  PROVE  ~pause' /\ DriveInv' /\ Onward /\ StepKinds
<1> DEFINE id == op.action.state.id
           answer == UploadAnswer(id, op.action.path, op.content)
           op1 == [op EXCEPT !.stage = "sent", !.file = answer]
           op2 == [op EXCEPT !.stage = "dropped"]
<1> USE DEF files, database, control
<1>1. /\ op # None /\ op \in Operation /\ head \in Nat
      /\ id \in FileId /\ Exists(id) /\ UNCHANGED <<rows, token, pause, start>>
  BY DEF UpdateRemoteFile, DeleteRemoteFile, Fail, At, TypeInv, TypeOK, References, WellFormed,
         FileState
<1>2. CASE Fail
  BY <1>1, <1>2, DropSorted DEF Fail, StepKinds
<1>3. CASE UpdateRemoteFile /\ ~Fail
  <2>1. /\ op.stage = "read" /\ op.action.kind = "UpdateUpload" /\ op.content \in Content
        /\ drive[id].status # "removed"
        /\ PutFile(id, Rewritten(id, op.content)) /\ AnsweredOrLost(op1)
    BY <1>1, <1>3 DEF UpdateRemoteFile, At, TypeInv, References, StageOK
  <2>2. Touches(id)
    BY <1>1, <2>1, KnownFileTouched
  <2>3. DriveInv' /\ Onward
    BY <1>1, <2>2, TouchMovesOn
  <2>4. CASE Forget
    <3>1. FreshByUpload
      BY <1>1, <2>2, NothingFresh DEF FreshByUpload
    <3>2. QED
      BY <1>1, <2>2, <2>4, <3>1, LostSorted DEF StepKinds
  <2>5. CASE op' = op1 /\ UNCHANGED Queued
    <3>1. answer \in Response /\ answer.id = id /\ answer.modified <= head + 1
      BY <1>1, <2>1 DEF UploadAnswer, Response, NoTime
    <3> HIDE DEF answer
    <3>2. op' \in Operation /\ op'.action = op.action /\ op'.stage = "sent" /\ op'.file = answer
      BY <1>1, <2>5, <3>1, NextAnswer
    <3>3. WritesKnown
      BY <1>1, <2>1, <2>2, <3>1, <3>2 DEF WritesKnown
    <3>4. QED
      BY <1>1, <2>3, <2>5, <3>2, <3>3, NoneIsApart DEF StepKinds, Works
  <2>6. QED
    BY <2>1, <2>4, <2>5 DEF AnsweredOrLost
<1>4. CASE DeleteRemoteFile /\ ~Fail
  <2>1. /\ op.action.kind = "DeleteRemote" /\ drive[id].status # "removed"
        /\ PutFile(id, Marked(id, "removed")) /\ AnsweredOrLost(op2)
    BY <1>1, <1>4 DEF DeleteRemoteFile, At
  <2>2. Touches(id)
    BY <1>1, <2>1, KnownFileTouched
  <2>3. DriveInv' /\ Onward
    BY <1>1, <2>2, TouchMovesOn
  <2>4. CASE Forget
    <3>1. FreshByUpload
      BY <1>1, <2>2, NothingFresh DEF FreshByUpload
    <3>2. QED
      BY <1>1, <2>2, <2>4, <3>1, LostSorted DEF StepKinds
  <2>5. CASE op' = op2 /\ UNCHANGED Queued
    <3>1. op' \in Operation /\ op'.action = op.action /\ op'.stage = "dropped"
      BY <1>1, <2>5, NextStage DEF Stages
    <3>2. WritesKnown
      BY <1>1, <2>1, <2>2, <3>1 DEF WritesKnown
    <3>3. QED
      BY <1>1, <2>3, <2>5, <3>1, <3>2, NoneIsApart DEF StepKinds, Works
  <2>6. QED
    BY <2>1, <2>4, <2>5 DEF AnsweredOrLost
<1>5. QED
  BY <1>2, <1>3, <1>4

\* Every step is of one of these kinds, and moves the Drive onward.
LEMMA StepSorted ==
  ASSUME TypeInv, TypeInv', DriveInv, ~pause, ~UserMayPause, "rename" \notin RemoteOps,
         [Next]_vars
  PROVE  ~pause' /\ DriveInv' /\ Onward /\ StepKinds
<1> USE DEF files, database, control
<1>1. CASE Users
  BY <1>1, UserStepSorted DEF StepKinds
<1>2. CASE SetFolderPaused \/ UNCHANGED vars
  <2>1. UNCHANGED <<server, rows, token, start, memory, pause>>
    BY <1>2 DEF SetFolderPaused, vars
  <2>2. FreshByUser
    BY <2>1, NothingFresh DEF FreshByUser
  <2>3. QED
    BY <2>1, <2>2, DriveStillMovesOn DEF StepKinds, Outside
<1>3. CASE FirstCycle \/ StartCycle
  <2>1. Begins /\ UNCHANGED pause
    BY <1>3, NoneIsApart DEF FirstCycle, StartCycle, Begins, TypeInv, TypeOK
  <2>2. QED
    BY <2>1, DriveStillMovesOn DEF StepKinds, Begins
<1>4. CASE \/ FetchPage \/ Scan \/ (\E a \in queue : Pop(a)) \/ QueueEmpty \/ AdvanceToken
           \/ Records
  <2>1. UNCHANGED <<server, pause>>
    BY <1>4 DEF FetchPage, Scan, Pop, QueueEmpty, AdvanceToken, Records, RecordUpload,
                RecordDownload, DropRow
  <2>2. QED
    BY <1>4, <2>1, DriveStillMovesOn DEF StepKinds
<1>5. CASE ReadLocalFile \/ WriteConflictCopy \/ FetchContent \/ WriteDownload \/ DeleteLocalFile
  BY <1>5, WorkSorted
<1>6. CASE \E id \in FileId : CreateRemoteFile(id)
  BY <1>6, CreateSorted
<1>7. CASE UpdateRemoteFile \/ DeleteRemoteFile
  BY <1>7, UpdateSorted
<1>8. CASE CallFails \/ Crash
  BY <1>8, DropSorted DEF CallFails, Crash, StepKinds
<1>9. QED
  BY <1>1, <1>2, <1>3, <1>4, <1>5, <1>6, <1>7, <1>8 DEF Next, Daemon, Faults, StopForPause, Records

-----------------------------------------------------------------------------
(***************************************************************************)
(* The phases of a cycle: what it holds in each, and the order of the      *)
(* stored token, the cursor of the pages and the token it will store.      *)
(***************************************************************************)

PhaseInv ==
  /\ phase \notin {"fetch", "scan"} => changes = {}
  /\ phase # "execute" => queue = {} /\ op = None
  /\ phase # "idle" => token # None
  /\ token # None => start # None /\ start <= token /\ token <= head
  /\ phase = "fetch" => token <= cursor /\ cursor <= head
  /\ phase \in {"scan", "execute", "advance"} => token <= newToken /\ newToken <= head

\* What FetchPage does, with the end of its page for a number.
LEMMA PageFetched ==
  ASSUME TypeInv, DriveInv, PhaseInv, FetchPage
  PROVE  /\ phase = "fetch" /\ UNCHANGED <<server, rows, token, start, queue, op>>
         /\ cursor <= cursor' /\ cursor' <= head
         /\ changes' = changes \cup {Entry(i) : i \in {j \in FileId :
                         Exists(j) /\ cursor < drive[j].rev /\ drive[j].rev <= cursor'}}
         /\ \/ phase' = "fetch" /\ UNCHANGED newToken
            \/ /\ phase' = "scan" /\ newToken' = head
               /\ \A i \in FileId : Exists(i) => drive[i].rev <= cursor'
<1> DEFINE new == {i \in FileId : drive[i] # None /\ drive[i].rev > cursor}
           page(last) == {i \in new : drive[i].rev <= drive[last].rev}
<1>1. /\ head \in Nat /\ cursor \in Nat /\ drive \in [FileId -> DriveFile \cup {None}]
      /\ None \notin DriveFile /\ cursor <= head
  BY CycleAssumption DEF TypeInv, TypeOK, PhaseInv, FetchPage
<1>2. \A i \in FileId : (drive[i] # None <=> Exists(i))
  BY <1>1 DEF Exists
<1>3. \A i \in FileId : Exists(i) => drive[i].rev \in Nat /\ drive[i].rev <= head
  BY DEF DriveInv, Exists, DriveFile
<1>4. phase = "fetch" /\ UNCHANGED <<server, rows, token, start, queue, op>>
  BY DEF FetchPage, database
<1>5. CASE new = {} /\ phase' = "scan" /\ newToken' = head /\ UNCHANGED <<cursor, changes>>
  <2>1. \A i \in FileId : Exists(i) => ~(cursor < drive[i].rev)
    BY <1>1, <1>2, <1>3, <1>5
  <2>2. \A i \in FileId : Exists(i) => drive[i].rev <= cursor
    BY <1>1, <1>3, <2>1
  <2>3. {j \in FileId : Exists(j) /\ cursor < drive[j].rev /\ drive[j].rev <= cursor'} = {}
    BY <2>1
  <2>4. changes' = changes \cup {Entry(i) : i \in {j \in FileId :
                         Exists(j) /\ cursor < drive[j].rev /\ drive[j].rev <= cursor'}}
    BY <1>5, <2>3
  <2>5. QED
    BY <1>1, <1>4, <1>5, <2>2, <2>4
<1>6. ASSUME NEW last \in new,
             changes' = changes \cup {Entry(i) : i \in page(last)},
             cursor' = drive[last].rev,
             \/ page(last) = new /\ phase' = "scan" /\ newToken' = head
             \/ page(last) # new /\ UNCHANGED <<phase, newToken>>
      PROVE  /\ cursor <= cursor' /\ cursor' <= head
             /\ changes' = changes \cup {Entry(i) : i \in {j \in FileId :
                             Exists(j) /\ cursor < drive[j].rev /\ drive[j].rev <= cursor'}}
             /\ \/ phase' = "fetch" /\ UNCHANGED newToken
                \/ /\ phase' = "scan" /\ newToken' = head
                   /\ \A i \in FileId : Exists(i) => drive[i].rev <= cursor'
  <2>1. last \in FileId /\ Exists(last) /\ drive[last].rev > cursor
    BY <1>2
  <2>2. cursor <= cursor' /\ cursor' <= head /\ cursor' \in Nat
    BY <1>1, <1>3, <1>6, <2>1
  <2>3. page(last) = {j \in FileId : Exists(j) /\ cursor < drive[j].rev /\ drive[j].rev <= cursor'}
    BY <1>1, <1>2, <1>3, <1>6
  <2>4. page(last) = new => \A i \in FileId : Exists(i) => drive[i].rev <= cursor'
    <3> SUFFICES ASSUME page(last) = new, NEW i \in FileId, Exists(i)
                 PROVE  drive[i].rev <= cursor'
      OBVIOUS
    <3>1. CASE drive[i].rev > cursor
      BY <1>2, <1>6, <3>1
    <3>2. CASE ~(drive[i].rev > cursor)
      BY <1>1, <1>3, <2>2, <3>2
    <3>3. QED
      BY <3>1, <3>2
  <2>5. QED
    BY <1>4, <1>6, <2>2, <2>3, <2>4
<1>7. QED
  BY <1>4, <1>5, <1>6 DEF FetchPage

\* The order survives every step.
LEMMA PhaseStep ==
  ASSUME TypeInv, TypeInv', DriveInv, PhaseInv, Onward, StepKinds
  PROVE  PhaseInv'
<1> USE DEF PhaseInv
<1>1. /\ head \in Nat /\ head' \in Nat /\ head <= head' /\ cursor \in Nat /\ newToken \in Nat
      /\ token # None => token \in Nat /\ start \in Nat
  BY DEF TypeInv, TypeOK, Onward
<1>2. CASE Outside
  BY <1>1, <1>2 DEF Outside, memory
<1>3. CASE Drops
  BY <1>1, <1>3 DEF Drops, Forget
<1>4. CASE Begins
  BY <1>1, <1>4, NoneIsApart DEF Begins, server
<1>5. CASE FetchPage
  <2>1. /\ phase = "fetch" /\ phase' \in {"fetch", "scan"}
        /\ UNCHANGED <<head, token, start, queue, op>>
        /\ cursor <= cursor' /\ cursor' <= head
        /\ phase' = "scan" => newToken' = head
    BY <1>5, PageFetched DEF server
  <2>2. cursor' \in Nat
    BY DEF TypeInv, TypeOK
  <2>3. QED
    BY <1>1, <2>1, <2>2
<1>6. CASE Scan
  BY <1>1, <1>6 DEF Scan, server, database
<1>7. CASE \E a \in queue : Pop(a)
  BY <1>1, <1>7 DEF Pop, server, database
<1>8. CASE QueueEmpty \/ AdvanceToken
  BY <1>1, <1>8 DEF QueueEmpty, AdvanceToken, server, database
<1>9. CASE Works
  BY <1>1, <1>9 DEF Works, Queued
<1>10. CASE Records
  BY <1>1, <1>10 DEF Records, RecordUpload, RecordDownload, DropRow, At, Queued, server
<1>11. QED
  BY <1>2, <1>3, <1>4, <1>5, <1>6, <1>7, <1>8, <1>9, <1>10 DEF StepKinds

-----------------------------------------------------------------------------
(***************************************************************************)
(* Rows: each is under the name of the file it records, and knows no later *)
(* time of it than the file's last change.                                 *)
(***************************************************************************)

RowInv ==
  \A p \in Path : rows[p] # None =>
    drive[rows[p].id].name = p /\ rows[p].driveModified <= drive[rows[p].id].rev

\* Without renames a file has its row under its own name.
LEMMA RowUnderName ==
  ASSUME TypeInv, RowInv, NEW id \in FileId, HasRow(id, rows)
  PROVE  /\ drive[id].name \in Path /\ rows[drive[id].name] # None
         /\ rows[drive[id].name].id = id
         /\ RowPath(id, rows) = drive[id].name
<1>1. \A p \in Path : rows[p] # None /\ rows[p].id = id => p = drive[id].name
  BY DEF RowInv
<1>2. PICK p \in Path : rows[p] # None /\ rows[p].id = id
  BY DEF HasRow
<1>3. RowPath(id, rows) \in Path /\ rows[RowPath(id, rows)] # None
      /\ rows[RowPath(id, rows)].id = id
  BY <1>2 DEF RowPath
<1>4. QED
  BY <1>1, <1>2, <1>3

-----------------------------------------------------------------------------
(***************************************************************************)
(* The changes a cycle has listed.  An entry shows its file at one of its  *)
(* changes after the token; when the file has changed since, its content   *)
(* did.  Every file that changed after the token is listed, up to the      *)
(* cursor while pages are fetched and up to the new token at the scan.     *)
(***************************************************************************)

Listed(c) ==
  /\ c.name = drive[c.id].name
  /\ token < c.rev /\ c.modified <= c.rev /\ c.rev <= drive[c.id].rev
  /\ c.rev = drive[c.id].rev => c = Entry(c.id)
  /\ c.rev < drive[c.id].rev /\ drive[c.id].status = "live" => c.rev < drive[c.id].modified
  /\ c.status = "removed" => drive[c.id].status = "removed"
  /\ c.status # "live" => drive[c.id].status # "live"
  /\ phase = "fetch" => c.rev <= cursor
  /\ \A p \in Path : RowAims(c.id, p) => rows[p].driveModified <= c.rev

ListsUpTo(t) ==
  \A i \in FileId : Exists(i) /\ token < drive[i].rev /\ drive[i].rev <= t => Entry(i) \in changes

ListingInv ==
  /\ \A c \in changes : Listed(c)
  /\ \A c, d \in changes : c.rev = d.rev => c = d
  /\ phase = "fetch" => ListsUpTo(cursor)
  /\ phase = "scan" => ListsUpTo(newToken)

\* An entry stays true of its file whatever is done to the file.
LEMMA ListedStays ==
  ASSUME TypeInv, TypeInv', DriveInv, PhaseInv, Onward,
         UNCHANGED <<rows, token, phase, cursor>>,
         NEW c \in changes, Listed(c)
  PROVE  Listed(c)'
<1>1. /\ c \in DriveChange /\ c.id \in FileId /\ Exists(c.id) /\ head \in Nat
  BY DEF TypeInv, TypeOK, References, DriveChange
<1>2. /\ drive'[c.id].name = drive[c.id].name
      /\ drive[c.id].status = "removed" => drive'[c.id] = drive[c.id]
      /\ drive[c.id].status # "live" => drive'[c.id].status # "live"
      /\ \/ drive'[c.id] = drive[c.id]
         \/ /\ drive'[c.id].rev = head + 1
            /\ drive'[c.id].status = "live" => drive'[c.id].modified = head + 1
  BY <1>1 DEF Onward
<1>3. /\ drive[c.id].rev \in Nat /\ drive[c.id].rev <= head
      /\ c.rev \in Nat /\ c.rev <= drive[c.id].rev
  BY <1>1 DEF DriveInv, Exists, DriveFile, DriveChange, Listed
<1>4. CASE drive'[c.id] = drive[c.id]
  BY <1>4 DEF Listed, Entry, RowAims
<1>5. CASE drive'[c.id].rev = head + 1
           /\ (drive'[c.id].status = "live" => drive'[c.id].modified = head + 1)
  <2>1. c.rev < drive'[c.id].rev /\ c.rev # drive'[c.id].rev /\ c.rev < head + 1
    BY <1>1, <1>3, <1>5
  <2>2. c.rev <= drive'[c.id].rev
    BY <1>1, <1>3, <1>5
  <2>3. QED
    BY <1>2, <1>5, <2>1, <2>2 DEF Listed, Entry, RowAims
<1>6. QED
  BY <1>2, <1>4, <1>5

\* So the listing stays true until the scan.
LEMMA ListingStays ==
  ASSUME TypeInv, TypeInv', DriveInv, PhaseInv, ListingInv, Onward,
         UNCHANGED <<rows, token, phase, cursor, changes, newToken>>
  PROVE  ListingInv'
<1>1. \A c \in changes' : Listed(c)'
  BY ListedStays DEF ListingInv
<1>2. \A c, d \in changes' : c.rev = d.rev => c = d
  BY DEF ListingInv
<1>3. ASSUME NEW t \in Nat, t <= head, ListsUpTo(t), token # None
      PROVE  ListsUpTo(t)'
  <2> SUFFICES ASSUME NEW i \in FileId, Exists(i)', token < drive'[i].rev, drive'[i].rev <= t
               PROVE  Entry(i)' \in changes
    BY DEF ListsUpTo
  <2>1. head \in Nat /\ ~(head + 1 <= t)
    BY <1>3 DEF TypeInv, TypeOK
  <2>2. Exists(i) /\ drive'[i] = drive[i]
    BY <2>1 DEF Onward, Exists
  <2>3. QED
    BY <1>3, <2>2 DEF ListsUpTo, Entry
<1>4. phase' = "fetch" => ListsUpTo(cursor)'
  BY <1>3 DEF ListingInv, PhaseInv, TypeInv, TypeOK, ListsUpTo
<1>5. phase' = "scan" => ListsUpTo(newToken)'
  BY <1>3 DEF ListingInv, PhaseInv, TypeInv, TypeOK, ListsUpTo
<1>6. QED
  BY <1>1, <1>2, <1>4, <1>5 DEF ListingInv

\* A page adds its files as they are, up to its end.
LEMMA ListingFetched ==
  ASSUME TypeInv, TypeInv', DriveInv, PhaseInv, RowInv, ListingInv, FetchPage
  PROVE  ListingInv'
<1> DEFINE page == {j \in FileId : Exists(j) /\ cursor < drive[j].rev /\ drive[j].rev <= cursor'}
<1>1. /\ phase = "fetch" /\ UNCHANGED <<drive, rows, token>>
      /\ cursor <= cursor' /\ cursor' <= head
      /\ changes' = changes \cup {Entry(i) : i \in page}
      /\ \/ phase' = "fetch"
         \/ /\ phase' = "scan" /\ newToken' = head
            /\ \A i \in FileId : Exists(i) => drive[i].rev <= cursor'
  BY PageFetched DEF server
<1>2. /\ cursor \in Nat /\ cursor' \in Nat /\ token \in Nat /\ token <= cursor
  BY <1>1 DEF PhaseInv, TypeInv, TypeOK
<1>3. \A i \in FileId : Exists(i) =>
        drive[i].rev \in Nat /\ drive[i].modified \in Nat /\ drive[i].modified <= drive[i].rev
  BY DEF DriveInv, Exists, DriveFile
<1>4. \A c \in changes : c.rev \in Nat /\ c.rev <= cursor /\ c.rev <= cursor' /\ Listed(c)
  <2> SUFFICES ASSUME NEW c \in changes
               PROVE  c.rev \in Nat /\ c.rev <= cursor /\ c.rev <= cursor' /\ Listed(c)
    OBVIOUS
  <2>1. c.rev \in Nat
    BY DEF TypeInv, TypeOK, DriveChange
  <2>2. Listed(c) /\ c.rev <= cursor
    BY <1>1 DEF ListingInv, Listed
  <2>3. QED
    BY <1>1, <1>2, <2>1, <2>2
<1>5. \A c \in changes : Listed(c)'
  BY <1>1, <1>4 DEF Listed, Entry, RowAims
<1>6. ASSUME NEW i \in page, NEW c, c = Entry(i)
      PROVE  Listed(c)'
  <2>1. /\ c.id = i /\ c.name = drive[i].name /\ c.rev = drive[i].rev
        /\ c.modified = drive[i].modified /\ c.status = drive[i].status
    BY <1>6 DEF Entry
  <2>2. Entry(i)' = c
    BY <1>1, <1>6 DEF Entry
  <2>3. token < drive[i].rev /\ ~(drive[i].rev < drive[i].rev) /\ drive[i].rev <= drive[i].rev
    BY <1>2, <1>3
  <2>4. \A p \in Path : RowAims(i, p) => rows[p].driveModified <= drive[i].rev
    BY DEF RowInv, RowAims
  <2>5. \A p \in Path : RowAims(i, p)' => rows'[p].driveModified <= drive[i].rev
    BY <1>1, <2>4 DEF RowAims
  <2>6. QED
    BY <1>1, <1>3, <2>1, <2>2, <2>3, <2>5 DEF Listed, Entry, RowAims
<1>7. ASSUME NEW c \in changes'
      PROVE  Listed(c)'
  <2>1. c \in changes \/ \E i \in page : c = Entry(i)
    BY <1>1
  <2>2. QED
    BY <1>5, <1>6, <2>1
<1>8. \A c, d \in changes' : c.rev = d.rev => c = d
  <2>1. \A i \in page : Entry(i).rev = drive[i].rev /\ drive[i].rev \in Nat /\ cursor < drive[i].rev
    BY <1>3 DEF Entry
  <2>2. \A i, j \in page : drive[i].rev = drive[j].rev => i = j
    BY DEF DriveInv
  <2>3. \A c \in changes : \A i \in page : c.rev # drive[i].rev
    BY <1>2, <1>4, <2>1
  <2>4. QED
    BY <1>1, <2>1, <2>2, <2>3 DEF ListingInv
<1>9. \A i \in FileId : Exists(i) /\ token < drive[i].rev /\ drive[i].rev <= cursor'
                        => Entry(i) \in changes'
  <2> SUFFICES ASSUME NEW i \in FileId, Exists(i), token < drive[i].rev, drive[i].rev <= cursor'
               PROVE  Entry(i) \in changes'
    OBVIOUS
  <2>1. CASE drive[i].rev <= cursor
    BY <1>1, <2>1 DEF ListingInv, ListsUpTo
  <2>2. CASE ~(drive[i].rev <= cursor)
    BY <1>1, <1>2, <1>3, <2>2
  <2>3. QED
    BY <2>1, <2>2
<1>10. phase' = "fetch" => ListsUpTo(cursor)'
  BY <1>1, <1>9 DEF ListsUpTo, Exists, Entry
<1>11. phase' = "scan" => ListsUpTo(newToken)'
  <2> SUFFICES ASSUME phase' = "scan", NEW i \in FileId, Exists(i)', token < drive[i].rev
               PROVE  Entry(i)' \in changes'
    BY <1>1 DEF ListsUpTo
  <2>1. Exists(i) /\ Entry(i)' = Entry(i)
    BY <1>1 DEF Exists, Entry
  <2>2. QED
    BY <1>1, <1>9, <2>1
<1>12. QED
  BY <1>7, <1>8, <1>10, <1>11 DEF ListingInv

\* The listing stays true under every step.
LEMMA ListingStep ==
  ASSUME TypeInv, TypeInv', DriveInv, PhaseInv, PhaseInv', RowInv, ListingInv, Onward, StepKinds
  PROVE  ListingInv'
<1>1. CASE Outside
  BY <1>1, ListingStays DEF Outside, memory
<1>2. CASE changes' = {} /\ phase' \notin {"fetch", "scan"}
  BY <1>2 DEF ListingInv
<1>3. CASE Begins
  <2>1. changes' = {} /\ phase' = "fetch" /\ cursor' = token' /\ token' \in Nat
    BY <1>3 DEF Begins, PhaseInv, TypeInv, TypeOK
  <2>2. ListsUpTo(cursor)'
    <3> SUFFICES ASSUME NEW i \in FileId, Exists(i)', token' < drive'[i].rev, drive'[i].rev <= token'
                 PROVE  FALSE
      BY <2>1 DEF ListsUpTo
    <3>1. drive'[i].rev \in Nat
      BY DEF Exists, DriveFile
    <3>2. QED
      BY <2>1, <3>1
  <2>3. QED
    BY <2>1, <2>2 DEF ListingInv
<1>4. CASE FetchPage
  BY <1>4, ListingFetched
<1>5. CASE \/ Drops \/ Scan \/ (\E a \in queue : Pop(a)) \/ QueueEmpty \/ AdvanceToken
           \/ Works \/ Records
  <2>1. changes' = {}
    BY <1>5 DEF Drops, Forget, Scan, Pop, QueueEmpty, AdvanceToken, Works, Records, RecordUpload,
       RecordDownload, DropRow, At, Queued, PhaseInv
  <2>2. phase' \notin {"fetch", "scan"}
    BY <1>5 DEF Drops, Forget, Scan, Pop, QueueEmpty, AdvanceToken, Works, Records, RecordUpload,
       RecordDownload, DropRow, At, Queued, PhaseInv
  <2>3. QED
    BY <1>2, <2>1, <2>2
<1>6. QED
  BY <1>1, <1>3, <1>4, <1>5 DEF StepKinds

-----------------------------------------------------------------------------
(* What the scan queues for a path: the action of the last change that     *)
(* yields one, or what the local side alone asks for.                      *)

\* Entries of files named p that yield an action, and the last one of its path.
Yielding(p) == {c \in changes : YieldsAction(c, rows) /\ drive[c.id].name = p}

Latest(c) ==
  /\ c \in Yielding(drive[c.id].name)
  /\ \A d \in Yielding(drive[c.id].name) : d.rev <= c.rev

\* The action built from an entry.
Carries(a, c) ==
  /\ a.path = drive[c.id].name /\ a.state = rows[a.path] /\ a.file = c
  /\ \/ a.kind = "DeleteLocal" /\ c.status = "removed" /\ HasRow(c.id, rows)
     \/ a.kind \in DownloadKinds \cup {"Conflict"} /\ c.status = "live"

\* An entry's path is the name of its file.
LEMMA ChangeOnName ==
  ASSUME TypeInv, RowInv, ListingInv, NEW c \in changes
  PROVE  /\ c \in DriveChange /\ Exists(c.id) /\ c.rev \in Nat
         /\ ChangePath(c, rows) = drive[c.id].name /\ drive[c.id].name \in Path
<1>1. c \in DriveChange /\ Exists(c.id) /\ c.rev \in Nat /\ c.id \in FileId
  BY DEF TypeInv, TypeOK, References, DriveChange
<1>2. c.name = drive[c.id].name /\ drive[c.id].name \in Path
  BY <1>1 DEF ListingInv, Listed, Exists, DriveFile
<1>3. CASE HasRow(c.id, rows)
  BY <1>1, <1>2, <1>3, RowUnderName DEF ChangePath
<1>4. CASE ~HasRow(c.id, rows)
  BY <1>1, <1>2, <1>4 DEF ChangePath
<1>5. QED
  BY <1>1, <1>2, <1>3, <1>4

\* The action of an entry carries it to that path.
LEMMA RemoteCarries ==
  ASSUME TypeInv, RowInv, ListingInv, NEW c \in changes, YieldsAction(c, rows)
  PROVE  /\ Carries(RemoteAction(c, rows), c)
         /\ RemoteAction(c, rows).kind = "UpdateDownload" => c.status = "live"
<1> DEFINE p == ChangePath(c, rows)
           a == RemoteAction(c, rows)
<1>1. p = drive[c.id].name
  BY ChangeOnName
<1>2. a.path = p /\ a.state = rows[p] /\ a.file = c /\ a.kind = RemoteKind(c, rows)
  BY DEF RemoteAction, FromChange
<1>3. CASE c.status = "removed"
  BY <1>1, <1>2, <1>3 DEF Carries, RemoteKind, YieldsAction
<1>4. CASE c.status = "live"
  BY <1>1, <1>2, <1>4 DEF Carries, RemoteKind, DownloadKinds
<1>5. QED
  BY <1>3, <1>4 DEF YieldsAction

\* Turning it into a conflict keeps what it carries.
LEMMA ResolvedCarries ==
  ASSUME TypeInv, RowInv, ListingInv, NEW c \in changes, YieldsAction(c, rows),
         NEW a, a = Resolve(RemoteAction(c, rows), ComputeLocalChanges(local, rows),
                            ComputeRemoteChanges(changes, rows))
  PROVE  Carries(a, c)
<1> DEFINE d == RemoteAction(c, rows)
           L == ComputeLocalChanges(local, rows)
           R == ComputeRemoteChanges(changes, rows)
<1>1. Carries(d, c) /\ (d.kind = "UpdateDownload" => c.status = "live")
  BY RemoteCarries
<1>2. d \in SyncAction
  BY RemoteActionsOK DEF ComputeRemoteChanges
<1>3. CASE a = d
  BY <1>1, <1>3
<1>4. ASSUME NEW u \in L, u.kind = "UpdateUpload", u.path = d.path, d.kind = "UpdateDownload",
             a = Conflict(u, d)
      PROVE  Carries(a, c)
  <2>1. u.state = rows[u.path]
    BY <1>4 DEF ComputeLocalChanges, FromLocal
  <2>2. a.kind = "Conflict" /\ a.path = d.path /\ a.file = d.file /\ a.state = u.state
    BY <1>2, <1>4 DEF Conflict, SyncAction
  <2>3. QED
    BY <1>1, <1>4, <2>1, <2>2 DEF Carries
<1>5. a = d \/ \E u \in L : /\ u.kind = "UpdateUpload" /\ u.path = d.path
                            /\ d.kind = "UpdateDownload" /\ a = Conflict(u, d)
  BY DEF Resolve, OnPath
<1>6. QED
  BY <1>3, <1>4, <1>5

\* The last remote action of a path is that of the last entry that yields one.
LEMMA ListLatest ==
  ASSUME TypeInv, RowInv, ListingInv, NEW c \in changes, YieldsAction(c, rows)
  PROVE  LastOnPath(RemoteAction(c, rows), ComputeRemoteChanges(changes, rows)) <=> Latest(c)
<1> DEFINE R == ComputeRemoteChanges(changes, rows)
           p == drive[c.id].name
<1>1. \A d \in changes : YieldsAction(d, rows) =>
        RemoteAction(d, rows).path = drive[d.id].name /\ RemoteAction(d, rows).file = d
  BY RemoteCarries DEF Carries
<1>2. ASSUME Latest(c), NEW b \in R, b.path = p
      PROVE  b.file.rev <= c.rev
  <2>1. PICK d \in changes : YieldsAction(d, rows) /\ b = RemoteAction(d, rows)
    BY DEF ComputeRemoteChanges
  <2>2. QED
    BY <1>1, <1>2, <2>1 DEF Latest, Yielding
<1>3. ASSUME LastOnPath(RemoteAction(c, rows), R), NEW d \in Yielding(p)
      PROVE  d.rev <= c.rev
  <2>1. d \in changes /\ YieldsAction(d, rows) /\ drive[d.id].name = p
    BY DEF Yielding
  <2>2. RemoteAction(d, rows) \in OnPath(R, p)
    BY <1>1, <2>1 DEF ComputeRemoteChanges, OnPath
  <2>3. QED
    BY <1>1, <1>3, <2>1, <2>2 DEF LastOnPath
<1>4. c \in Yielding(p)
  BY DEF Yielding
<1>5. LastOnPath(RemoteAction(c, rows), R) => Latest(c)
  BY <1>3, <1>4 DEF Latest
<1>6. Latest(c) => LastOnPath(RemoteAction(c, rows), R)
  BY <1>1, <1>2 DEF LastOnPath, OnPath
<1>7. QED
  BY <1>5, <1>6

\* An action of the merge carries the last entry of its path, or its path has none.
LEMMA ScannedAction ==
  ASSUME TypeInv, RowInv, ListingInv, Scan, NEW a \in queue'
  PROVE  \/ \E c \in changes : Latest(c) /\ Carries(a, c)
         \/ /\ a.kind \in UploadKinds \cup {"DeleteRemote"}
            /\ a.state = rows[a.path] /\ (a.kind = "NewUpload" => a.state = None)
            /\ Yielding(a.path) = {}
<1> DEFINE L == ComputeLocalChanges(local, rows)
           R == ComputeRemoteChanges(changes, rows)
<1>1. CASE \E d \in R : LastOnPath(d, R) /\ a = Resolve(d, L, R)
  <2>1. PICK c \in changes : /\ YieldsAction(c, rows) /\ LastOnPath(RemoteAction(c, rows), R)
                             /\ a = Resolve(RemoteAction(c, rows), L, R)
    BY <1>1 DEF ComputeRemoteChanges
  <2>2. Latest(c)
    BY <2>1, ListLatest
  <2>3. Carries(a, c)
    BY <2>1, ResolvedCarries
  <2>4. QED
    BY <2>2, <2>3
<1>2. CASE a \in L /\ OnPath(R, a.path) = {}
  <2>1. a.kind \in UploadKinds \cup {"DeleteRemote"}
    BY <1>2 DEF ComputeLocalChanges, FromLocal, UploadKinds
  <2>2. a.state = rows[a.path] /\ (a.kind = "NewUpload" => a.state = None)
    BY <1>2 DEF ComputeLocalChanges, FromLocal
  <2>3. ASSUME NEW c \in Yielding(a.path)
        PROVE  FALSE
    <3>1. RemoteAction(c, rows) \in R /\ RemoteAction(c, rows).path = a.path
      BY RemoteCarries DEF Yielding, Carries, ComputeRemoteChanges
    <3>2. QED
      BY <1>2, <3>1 DEF OnPath
  <2>4. QED
    BY <2>1, <2>2, <2>3
<1>3. QED
  BY <1>1, <1>2 DEF Scan, MergeActions

\* The last entry of a path that yields an action gets one.
LEMMA LatestScanned ==
  ASSUME TypeInv, RowInv, ListingInv, Scan, NEW c \in changes, Latest(c)
  PROVE  \E a \in queue' : Carries(a, c)
<1> DEFINE L == ComputeLocalChanges(local, rows)
           R == ComputeRemoteChanges(changes, rows)
           a == Resolve(RemoteAction(c, rows), L, R)
<1>1. YieldsAction(c, rows)
  BY DEF Latest, Yielding
<1>2. RemoteAction(c, rows) \in R /\ LastOnPath(RemoteAction(c, rows), R)
  BY <1>1, ListLatest DEF ComputeRemoteChanges
<1>3. a \in queue'
  BY <1>2 DEF Scan, MergeActions
<1>4. QED
  BY <1>1, <1>3, ResolvedCarries

\* A path with an entry that yields an action has a last one.
LEMMA SomeLatest ==
  ASSUME TypeInv, DriveInv, RowInv, ListingInv, NEW c \in changes, YieldsAction(c, rows)
  PROVE  \E d \in changes : /\ Latest(d) /\ drive[d.id].name = drive[c.id].name
                            /\ c.rev <= d.rev
<1> DEFINE Y == Yielding(drive[c.id].name)
           N == {d.rev : d \in Y}
<1>1. c \in Y
  BY DEF Yielding
<1>2. \A d \in Y : d \in changes /\ drive[d.id].name = drive[c.id].name
  BY DEF Yielding
<1>3. \A d \in changes : d.rev \in Nat /\ d.rev <= head
  <2> SUFFICES ASSUME NEW d \in changes
               PROVE  d.rev \in Nat /\ d.rev <= head
    OBVIOUS
  <2>1. d.rev \in Nat /\ Exists(d.id) /\ d.id \in FileId
    BY ChangeOnName DEF DriveChange
  <2>2. d.rev <= drive[d.id].rev /\ drive[d.id].rev <= head /\ drive[d.id].rev \in Nat /\ head \in Nat
    BY <2>1 DEF ListingInv, Listed, DriveInv, Exists, DriveFile, TypeInv, TypeOK
  <2>3. QED
    BY <2>1, <2>2
<1>4. N \in SUBSET Nat /\ N # {} /\ head \in Nat /\ \A n \in N : n <= head
  BY <1>1, <1>2, <1>3 DEF TypeInv, TypeOK
<1>5. PICK n \in N : \A m \in N : m <= n
  BY <1>4, LargestNatural
<1>6. PICK d \in Y : d.rev = n
  OBVIOUS
<1>7. \A e \in Y : e.rev <= d.rev
  BY <1>5, <1>6
<1>8. Latest(d)
  BY <1>2, <1>6, <1>7 DEF Latest
<1>9. QED
  BY <1>1, <1>2, <1>6, <1>7, <1>8

\* The merge keeps one action for each path.
LEMMA OneScannedPerPath ==
  ASSUME TypeInv, RowInv, ListingInv, Scan, NEW a \in queue', NEW b \in queue', a.path = b.path
  PROVE  a = b
<1> DEFINE L == ComputeLocalChanges(local, rows)
           R == ComputeRemoteChanges(changes, rows)
<1>1. ASSUME NEW x \in queue', ~(x \in L /\ OnPath(R, x.path) = {})
      PROVE  \E c \in changes : /\ Latest(c) /\ x = Resolve(RemoteAction(c, rows), L, R)
                                /\ x.path = drive[c.id].name
  <2>1. PICK d \in R : LastOnPath(d, R) /\ x = Resolve(d, L, R)
    BY <1>1 DEF Scan, MergeActions
  <2>2. PICK c \in changes : YieldsAction(c, rows) /\ d = RemoteAction(c, rows)
    BY DEF ComputeRemoteChanges
  <2>3. Latest(c)
    BY <2>1, <2>2, ListLatest
  <2>4. Carries(x, c)
    BY <2>1, <2>2, ResolvedCarries
  <2>5. QED
    BY <2>1, <2>2, <2>3, <2>4 DEF Carries
<1>2. \A c \in changes : Latest(c) => OnPath(R, drive[c.id].name) # {}
  <2> SUFFICES ASSUME NEW c \in changes, Latest(c)
               PROVE  OnPath(R, drive[c.id].name) # {}
    OBVIOUS
  <2>1. YieldsAction(c, rows)
    BY DEF Latest, Yielding
  <2>2. RemoteAction(c, rows) \in R /\ RemoteAction(c, rows).path = drive[c.id].name
    BY <2>1, RemoteCarries DEF Carries, ComputeRemoteChanges
  <2>3. QED
    BY <2>2 DEF OnPath
<1>3. CASE a \in L /\ OnPath(R, a.path) = {}
  <2>1. b \in L
    BY <1>1, <1>2, <1>3
  <2>2. \A x, y \in L : x.path = y.path => x = y
    BY DEF ComputeLocalChanges, FromLocal
  <2>3. QED
    BY <1>3, <2>1, <2>2
<1>4. CASE ~(a \in L /\ OnPath(R, a.path) = {})
  <2>1. PICK c \in changes : /\ Latest(c) /\ a = Resolve(RemoteAction(c, rows), L, R)
                             /\ a.path = drive[c.id].name
    BY <1>1, <1>4
  <2>2. ~(b \in L /\ OnPath(R, b.path) = {})
    BY <1>2, <2>1
  <2>3. PICK d \in changes : /\ Latest(d) /\ b = Resolve(RemoteAction(d, rows), L, R)
                             /\ b.path = drive[d.id].name
    BY <1>1, <2>2
  <2>4. c.rev <= d.rev /\ d.rev <= c.rev /\ c.rev \in Nat /\ d.rev \in Nat
    BY <2>1, <2>3, ChangeOnName DEF Latest
  <2>5. c = d
    BY <2>4 DEF ListingInv
  <2>6. QED
    BY <2>1, <2>3, <2>5
<1>5. QED
  BY <1>3, <1>4

-----------------------------------------------------------------------------
(***************************************************************************)
(* The actions of a queue, the operation, and the files of one name.  T is *)
(* a set of names that are not given twice.                                *)
(***************************************************************************)

\* The action fetches this file; a queued action or the operation does.
Fetches(a, id) == a.kind \in DownloadKinds \cup {"Conflict"} /\ a.file.id = id

Fetching(id) ==
  \/ \E a \in queue : Fetches(a, id)
  \/ op # None /\ Fetches(op.action, id)

\* What an action knows is still true: its row, that the file of a local deletion is
\* gone, and what the file of a download holds, unless it changed after the listing.
Planned(T, a) ==
  /\ a.state = rows[a.path]
  /\ a.kind = "NewUpload" => a.state = None
  /\ a.kind = "DeleteLocal" =>
       a.state # None /\ a.file.id = a.state.id /\ drive[a.state.id].status = "removed"
  /\ a.kind \in DownloadKinds \cup {"Conflict"} =>
       /\ a.path = drive[a.file.id].name /\ a.file.modified <= drive[a.file.id].rev
       /\ a.path \in T /\ drive[a.file.id].status = "live" /\ drive[a.file.id].rev <= newToken
            => a.file.md5 = drive[a.file.id].md5 /\ a.file.modified = drive[a.file.id].modified

QueueInv(T) ==
  /\ \A a \in queue : Planned(T, a)
  /\ \A a, b \in queue : a.path = b.path => a = b
  /\ op # None => Planned(T, op.action) /\ \A a \in queue : a.path # op.action.path

\* What the operation wrote to Drive came after the listing; a file it fetched was
\* removed after the listing, if at all.
OpInv ==
  op # None =>
    /\ op.stage = "sent" =>
         /\ op.action.kind \in UploadKinds
         /\ drive[op.file.id].name = op.action.path
         /\ newToken < drive[op.file.id].rev
         /\ op.file.modified <= drive[op.file.id].rev
    /\ op.stage = "dropped" =>
         /\ op.action.kind \in DeleteKinds
         /\ op.action.kind = "DeleteRemote" => newToken < drive[op.action.state.id].rev
    /\ op.stage \in {"fetched", "written"} =>
         /\ op.action.kind \in DownloadKinds \cup {"Conflict"}
         /\ drive[op.action.file.id].status = "removed" => newToken < drive[op.action.file.id].rev

\* Nothing of the cycle or the table is about this file any more.
Ghost(j) ==
  /\ ~HasRow(j, rows)
  /\ \A c \in changes : c.id = j => c.status # "live"
  /\ ~Fetching(j)
  /\ op # None /\ op.stage = "sent" => op.file.id # j

\* j has given way to i, the other file of its name: it is not live, and either a
\* ghost or removed before i got its content.
Yields(j, i) ==
  /\ drive[j].status # "live"
  /\ Ghost(j) \/ (drive[j].status = "removed" /\ drive[j].rev < drive[i].modified)

PairInv(T) ==
  \A i, j \in FileId :
    Exists(i) /\ Exists(j) /\ i # j /\ drive[i].name = drive[j].name /\ drive[i].name \in T
    => Yields(i, j) \/ Yields(j, i)

\* The row of the file's name shows its last change.
Recorded(id) ==
  LET row == rows[drive[id].name]
  IN  /\ drive[id].status = "live" =>
           row # None /\ row.id = id /\ ~RemoteChanged(drive[id], row)
      /\ drive[id].status = "removed" => ~(row # None /\ row.id = id)

\* Once executed, the action leaves the file recorded.
Settles(a, id) ==
  /\ a.path = drive[id].name
  /\ drive[id].status = "live" => Fetches(a, id)
  /\ drive[id].status = "removed" =>
       \/ a.kind = "DeleteLocal"
       \/ a.kind \in DownloadKinds \cup {"Conflict"} /\ a.file.id # id

\* A file whose last change lies between the first token and t.
Due(T, id, t) ==
  Exists(id) /\ drive[id].name \in T /\ start < drive[id].rev /\ drive[id].rev <= t

\* What is due at the stored token is recorded; what is due at the new one is
\* recorded too, or will be by an action of this cycle.
HonestUpTo(T) ==
  /\ token # None => \A id \in FileId : Due(T, id, token) => Recorded(id)
  /\ phase = "advance" => \A id \in FileId : Due(T, id, newToken) => Recorded(id)
  /\ phase = "execute" =>
       \A id \in FileId : Due(T, id, newToken) =>
         \/ Recorded(id)
         \/ \E a \in queue : Settles(a, id)
         \/ op # None /\ Settles(op.action, id)

HonestInv(T) ==
  /\ ~pause
  /\ DriveInv /\ RowInv /\ PhaseInv /\ ListingInv
  /\ QueueInv(T) /\ OpInv /\ PairInv(T) /\ HonestUpTo(T)

\* A row another file has left under the name of a live file is older than that file.
LEMMA OtherRowIsOlder ==
  ASSUME NEW T, TypeInv, DriveInv, RowInv, PairInv(T),
         NEW id \in FileId, Exists(id), drive[id].status = "live", drive[id].name \in T,
         drive[id].name \in Path,
         rows[drive[id].name] # None, rows[drive[id].name].id # id
  PROVE  rows[drive[id].name].driveModified < drive[id].modified
<1> DEFINE row == rows[drive[id].name]
<1>1. /\ row \in FileState /\ row.id \in FileId /\ Exists(row.id)
      /\ drive[row.id].name = drive[id].name /\ row.driveModified <= drive[row.id].rev
  BY DEF TypeInv, TypeOK, References, FileState, RowInv
<1>2. Yields(row.id, id)
  BY <1>1 DEF PairInv, Yields
<1>3. HasRow(row.id, rows)
  BY DEF HasRow
<1>4. drive[row.id].rev < drive[id].modified
  BY <1>2, <1>3 DEF Yields, Ghost
<1>5. row.driveModified \in Nat /\ drive[row.id].rev \in Nat /\ drive[id].modified \in Nat
  BY <1>1 DEF FileState, Exists, DriveFile
<1>6. QED
  BY <1>1, <1>4, <1>5

\* At the scan the entry of a live file yields an action unless the row is right,
\* and no other entry of its path is later.
LEMMA CurrentEntryYields ==
  ASSUME NEW T, TypeInv, DriveInv, RowInv, ListingInv, PairInv(T),
         NEW id \in FileId, Exists(id), drive[id].status = "live", drive[id].name \in T,
         Entry(id) \in changes
  PROVE  /\ ~Recorded(id) => YieldsAction(Entry(id), rows)
         /\ \A d \in Yielding(drive[id].name) : d.rev <= drive[id].rev
<1> DEFINE e == Entry(id)
           p == drive[id].name
<1>1. /\ e.id = id /\ e.status = "live" /\ e.md5 = drive[id].md5
      /\ e.modified = drive[id].modified /\ e.rev = drive[id].rev
  BY DEF Entry
<1>2. ChangePath(e, rows) = p /\ p \in Path
  BY <1>1, ChangeOnName
<1>3. ASSUME ~YieldsAction(e, rows)
      PROVE  Recorded(id)
  <2>1. rows[p] # None /\ ~RemoteChanged(e, rows[p])
    BY <1>1, <1>2, <1>3 DEF YieldsAction
  <2>2. rows[p].driveModified = drive[id].modified /\ rows[p].driveModified \in Nat
    BY <1>1, <1>2, <2>1 DEF RemoteChanged, TypeInv, TypeOK, FileState
  <2>3. rows[p].id = id
    BY <1>2, <2>1, <2>2, OtherRowIsOlder
  <2>4. QED
    BY <1>1, <2>1, <2>3 DEF Recorded, RemoteChanged
<1>4. ASSUME NEW d \in Yielding(p)
      PROVE  d.rev <= drive[id].rev
  <2>1. d \in changes /\ YieldsAction(d, rows) /\ drive[d.id].name = p
    BY DEF Yielding
  <2>2. d.id \in FileId /\ Exists(d.id) /\ d.rev \in Nat /\ d.rev <= drive[d.id].rev
    BY <2>1, ChangeOnName DEF DriveChange, ListingInv, Listed
  <2>3. CASE d.id = id
    BY <2>2, <2>3
  <2>4. CASE d.id # id
    <3>1. Yields(d.id, id)
      BY <2>1, <2>2, <2>4 DEF PairInv, Yields
    <3>2. ~Ghost(d.id)
      BY <2>1 DEF Ghost, YieldsAction
    <3>3. drive[d.id].rev < drive[id].modified /\ drive[id].modified <= drive[id].rev
      BY <3>1, <3>2 DEF Yields, DriveInv
    <3>4. drive[d.id].rev \in Nat /\ drive[id].modified \in Nat /\ drive[id].rev \in Nat
      BY <2>2 DEF Exists, DriveFile
    <3>5. QED
      BY <2>2, <3>3, <3>4
  <2>5. QED
    BY <2>3, <2>4
<1>5. QED
  BY <1>3, <1>4

\* So the last change of a live file's path shows the file as it is, unless it
\* has changed since the listing.
LEMMA LatestIsCurrent ==
  ASSUME NEW T, TypeInv, DriveInv, PhaseInv, RowInv, ListingInv, PairInv(T), phase = "scan",
         NEW c \in changes, Latest(c), drive[c.id].status = "live",
         drive[c.id].name \in T, drive[c.id].rev <= newToken
  PROVE  c = Entry(c.id)
<1> DEFINE id == c.id
           e == Entry(id)
           p == drive[id].name
<1>1. id \in FileId /\ Exists(id) /\ c.rev \in Nat /\ p \in Path /\ Listed(c)
  BY ChangeOnName DEF DriveChange, ListingInv
<1>2. CASE c.rev = drive[id].rev
  BY <1>1, <1>2 DEF Listed
<1>3. CASE c.rev # drive[id].rev
  <2>1. /\ drive[id].rev \in Nat /\ drive[id].modified \in Nat /\ token \in Nat
        /\ c.rev < drive[id].rev /\ c.rev < drive[id].modified /\ token < drive[id].rev
    BY <1>1, <1>3 DEF Exists, DriveFile, Listed, PhaseInv, TypeInv, TypeOK
  <2>2. e \in changes /\ e.rev = drive[id].rev /\ e.id = id
    BY <1>1, <2>1 DEF ListingInv, ListsUpTo, Entry
  <2>3. ~Recorded(id)
    <3> SUFFICES ASSUME rows[p] # None, rows[p].id = id, rows[p].driveModified = drive[id].modified
                 PROVE  FALSE
      BY DEF Recorded, RemoteChanged
    <3>1. rows[p].driveModified <= c.rev
      BY <1>1 DEF Listed, RowAims
    <3>2. QED
      BY <1>1, <2>1, <3>1
  <2>4. YieldsAction(e, rows)
    BY <1>1, <2>2, <2>3, CurrentEntryYields
  <2>5. e \in Yielding(p)
    BY <2>2, <2>4 DEF Yielding
  <2>6. e.rev <= c.rev
    BY <2>5 DEF Latest
  <2>7. QED
    BY <1>1, <2>1, <2>2, <2>6
<1>4. QED
  BY <1>2, <1>3

-----------------------------------------------------------------------------
(***************************************************************************)
(* Each part of HonestInv under the steps.                                 *)
(***************************************************************************)

\* Revisions only grow, beyond every token of the cycle.
LEMMA RevGrows ==
  ASSUME TypeInv, TypeInv', DriveInv, Onward, NEW i \in FileId, Exists(i)
  PROVE  /\ Exists(i)' /\ drive[i].rev \in Nat /\ drive'[i].rev \in Nat
         /\ drive[i].rev <= drive'[i].rev
         /\ drive'[i] # drive[i] => head < drive'[i].rev
         /\ \A t \in Nat : t < drive[i].rev => t < drive'[i].rev
         /\ \A t \in Nat : t <= head /\ drive'[i].rev <= t => drive'[i] = drive[i]
         /\ \A t \in Nat : t <= drive[i].rev => t <= drive'[i].rev
<1>1. /\ head \in Nat /\ drive[i].rev \in Nat /\ drive[i].rev <= head
      /\ drive'[i] \in DriveFile /\ drive'[i].rev \in Nat
      /\ drive'[i] = drive[i] \/ drive'[i].rev = head + 1
  BY DEF TypeInv, TypeOK, DriveInv, Onward, Exists, DriveFile
<1>2. QED
  BY <1>1 DEF Exists

\* Rows that are left alone stay right, as names do not change.
LEMMA RowKept ==
  ASSUME TypeInv, TypeInv', DriveInv, RowInv, Onward, UNCHANGED rows
  PROVE  RowInv'
<1> SUFFICES ASSUME NEW p \in Path, rows[p] # None
             PROVE  /\ drive'[rows[p].id].name = p
                    /\ rows[p].driveModified <= drive'[rows[p].id].rev
  BY DEF RowInv
<1>1. rows[p].id \in FileId /\ Exists(rows[p].id) /\ rows[p].driveModified \in Nat
  BY DEF TypeInv, TypeOK, References, FileState
<1>2. drive[rows[p].id].name = p /\ rows[p].driveModified <= drive[rows[p].id].rev
  BY DEF RowInv
<1>3. QED
  BY <1>1, <1>2, RevGrows DEF Onward

\* The row a step of the operation leaves.
LEMMA RowRecorded ==
  ASSUME NEW T, TypeInv, RowInv, PhaseInv, QueueInv(T), OpInv, Records
  PROVE  /\ op # None /\ op' = None /\ op \in Operation /\ op.action.path \in Path
         /\ UNCHANGED <<drive, head, token, start, Queued>>
         /\ phase = "execute" /\ Planned(T, op.action)
         /\ \A p \in Path : p # op.action.path => rows'[p] = rows[p]
         /\ LET row == rows'[op.action.path]
            IN  \/ /\ op.stage = "sent" /\ op.action.kind \in UploadKinds
                   /\ row.id = op.file.id /\ row.driveModified = op.file.modified
                \/ /\ op.stage = "written" /\ op.action.kind \in DownloadKinds \cup {"Conflict"}
                   /\ row # None /\ row.id = op.action.file.id
                   /\ row.driveMd5 = op.action.file.md5
                   /\ row.driveModified = op.action.file.modified
                \/ op.stage = "dropped" /\ op.action.kind \in DeleteKinds /\ row = None
<1>1. /\ op # None /\ op' = None /\ op \in Operation /\ op.action.path \in Path
      /\ phase = "execute" /\ rows \in [Path -> FileState \cup {None}]
      /\ UNCHANGED <<drive, head, token, start, Queued>>
  BY DEF TypeInv, TypeOK, PhaseInv, Records, RecordUpload, RecordDownload, DropRow, At, Operation,
         SyncAction, server
<1>2. Planned(T, op.action)
  BY <1>1 DEF QueueInv
<1>3. CASE RecordUpload
  BY <1>1, <1>2, <1>3 DEF RecordUpload, At
<1>4. CASE RecordDownload
  <2>1. /\ rows'[op.action.path] = [id |-> op.action.file.id,
             driveMd5 |-> op.action.file.md5, driveModified |-> op.action.file.modified,
             localMd5 |-> op.action.file.md5, localModified |-> NoTime]
        /\ \A p \in Path : p # op.action.path => rows'[p] = rows[p]
    BY <1>1, <1>4 DEF RecordDownload
  <2>2. /\ op.stage = "written" /\ op.action.kind \in DownloadKinds \cup {"Conflict"}
        /\ op.action.file \in DriveChange
    BY <1>1, <1>4 DEF RecordDownload, At, TypeInv, References, WellFormed
  <2>3. rows'[op.action.path] \in FileState
    BY <2>1, <2>2 DEF FileState, DriveChange, NoTime
  <2>4. QED
    BY <1>1, <1>2, <2>1, <2>2, <2>3, NoneIsApart
<1>5. CASE DropRow
  BY <1>1, <1>2, <1>5 DEF DropRow, At
<1>6. QED
  BY <1>3, <1>4, <1>5 DEF Records

\* The row of an operation is right.
LEMMA RowDone ==
  ASSUME NEW T, TypeInv, DriveInv, RowInv, PhaseInv, QueueInv(T), OpInv, Records
  PROVE  RowInv'
<1> SUFFICES ASSUME NEW p \in Path, rows'[p] # None
             PROVE  /\ drive'[rows'[p].id].name = p
                    /\ rows'[p].driveModified <= drive'[rows'[p].id].rev
  BY DEF RowInv
<1>1. drive' = drive
  BY RowRecorded
<1>2. CASE p # op.action.path
  BY <1>1, <1>2, RowRecorded DEF RowInv
<1>3. CASE p = op.action.path
  BY <1>1, <1>3, RowRecorded DEF OpInv, Planned
<1>4. QED
  BY <1>2, <1>3

\* Rows stay right under every step.
LEMMA RowStep ==
  ASSUME NEW T, TypeInv, TypeInv', DriveInv, RowInv, PhaseInv, QueueInv(T), OpInv, Onward,
         StepKinds
  PROVE  RowInv'
<1>1. CASE Records
  BY <1>1, RowDone
<1>2. CASE ~Records
  <2>1. UNCHANGED rows
    BY <1>2 DEF StepKinds, Outside, Drops, Begins, FetchPage, Scan, Pop, QueueEmpty, AdvanceToken,
                Works, database
  <2>2. QED
    BY <2>1, RowKept
<1>3. QED
  BY <1>1, <1>2

\* What is planned stays planned while its row is left alone.
LEMMA PlannedStays ==
  ASSUME NEW T, TypeInv, TypeInv', DriveInv, Onward,
         newToken <= head, newToken' = newToken,
         NEW a \in SyncAction, WellFormed(a), Planned(T, a), rows'[a.path] = rows[a.path]
  PROVE  Planned(T, a)'
<1>1. newToken \in Nat /\ a.path \in Path
  BY DEF TypeInv, TypeOK, SyncAction
<1>2. CASE a.kind = "DeleteLocal"
  <2>1. a.state = rows[a.path] /\ a.state # None /\ drive[a.state.id].status = "removed"
    BY <1>2 DEF Planned
  <2>2. a.state.id \in FileId /\ Exists(a.state.id)
    BY <1>1, <2>1 DEF TypeInv, TypeOK, References, FileState
  <2>3. drive'[a.state.id].status = "removed"
    BY <2>1, <2>2 DEF Onward
  <2>4. QED
    BY <1>2, <2>1, <2>3 DEF Planned, DownloadKinds
<1>3. CASE a.kind \in DownloadKinds \cup {"Conflict"}
  <2> DEFINE id == a.file.id
  <2>1. id \in FileId /\ Exists(id) /\ a.file.modified \in Nat
    BY <1>3 DEF WellFormed, DriveChange
  <2>2. drive'[id].name = drive[id].name /\ a.file.modified <= drive'[id].rev
    BY <1>3, <2>1, RevGrows DEF Onward, Planned
  <2>3. drive'[id].rev <= newToken => drive'[id] = drive[id]
    BY <1>1, <2>1, RevGrows
  <2>4. QED
    BY <1>3, <2>2, <2>3 DEF Planned, DownloadKinds
<1>4. CASE a.kind \notin DownloadKinds \cup {"Conflict", "DeleteLocal"}
  BY <1>4 DEF Planned
<1>5. QED
  BY <1>2, <1>3, <1>4

\* What the scan queues is planned.
LEMMA ScanPlanned ==
  ASSUME NEW T, TypeInv, DriveInv, PhaseInv, RowInv, ListingInv, PairInv(T), Scan,
         NEW a \in queue'
  PROVE  Planned(T, a)'
<1>1. /\ phase = "scan" /\ op' = op /\ UNCHANGED <<drive, rows, newToken>>
  BY DEF Scan, server, database
<1>2. CASE /\ a.kind \in UploadKinds \cup {"DeleteRemote"}
           /\ a.state = rows[a.path] /\ (a.kind = "NewUpload" => a.state = None)
  BY <1>1, <1>2 DEF Planned, UploadKinds, DownloadKinds
<1>3. ASSUME NEW c \in changes, Latest(c), Carries(a, c)
      PROVE  Planned(T, a)'
  <2>1. /\ c.id \in FileId /\ Exists(c.id) /\ Listed(c)
        /\ c.modified \in Nat /\ c.rev \in Nat /\ drive[c.id].rev \in Nat
    BY ChangeOnName DEF DriveChange, ListingInv, Exists, DriveFile
  <2>2. CASE a.kind = "DeleteLocal"
    <3>1. c.status = "removed" /\ HasRow(c.id, rows)
      BY <1>3, <2>2 DEF Carries, DownloadKinds
    <3>2. a.state # None /\ a.state.id = c.id
      BY <1>3, <2>1, <3>1, RowUnderName DEF Carries
    <3>3. drive[c.id].status = "removed"
      BY <2>1, <3>1 DEF Listed
    <3>4. QED
      BY <1>1, <1>3, <2>2, <3>2, <3>3 DEF Planned, Carries, DownloadKinds
  <2>3. CASE a.kind \in DownloadKinds \cup {"Conflict"}
    <3>1. c.modified <= drive[c.id].rev
      BY <2>1 DEF Listed
    <3>2. drive[c.id].name \in T /\ drive[c.id].status = "live" /\ drive[c.id].rev <= newToken
             => c.md5 = drive[c.id].md5 /\ c.modified = drive[c.id].modified
      <4>1. Entry(c.id).md5 = drive[c.id].md5 /\ Entry(c.id).modified = drive[c.id].modified
        BY DEF Entry
      <4>2. QED
        BY <1>1, <1>3, <4>1, LatestIsCurrent
    <3>3. QED
      BY <1>1, <1>3, <2>3, <3>1, <3>2 DEF Planned, Carries, DownloadKinds
  <2>4. QED
    BY <1>3, <2>2, <2>3 DEF Carries
<1>4. QED
  BY <1>2, <1>3, ScannedAction

\* Queue and operation stay as planned, with one action for each path.
LEMMA QueueStep ==
  ASSUME NEW T, TypeInv, TypeInv', DriveInv, PhaseInv, PhaseInv', RowInv, ListingInv,
         QueueInv(T), OpInv, PairInv(T), Onward, StepKinds
  PROVE  QueueInv(T)'
<1>1. CASE queue' = {} /\ op' = None
  BY <1>1 DEF QueueInv
<1>2. CASE Drops \/ Begins \/ FetchPage \/ QueueEmpty \/ AdvanceToken
  <2>1. queue' = {} /\ op' = None
    BY <1>2, PageFetched DEF Drops, Forget, Begins, QueueEmpty, AdvanceToken, PhaseInv
  <2>2. QED
    BY <1>1, <2>1
<1>3. CASE Scan
  <2>1. op' = None
    BY <1>3 DEF Scan, PhaseInv
  <2>2. QED
    BY <1>3, <2>1, ScanPlanned, OneScannedPerPath DEF QueueInv
<1>4. ASSUME newToken <= head, newToken' = newToken, queue' \subseteq queue,
             NEW a \in queue, rows'[a.path] = rows[a.path]
      PROVE  Planned(T, a)'
  <2>1. a \in SyncAction /\ WellFormed(a) /\ Planned(T, a)
    BY DEF TypeInv, TypeOK, References, QueueInv
  <2>2. QED
    BY <1>4, <2>1, PlannedStays
<1>5. phase \in {"scan", "execute", "advance"} => newToken <= head
  BY DEF PhaseInv
<1>6. (queue # {} \/ op # None) => phase = "execute"
  BY DEF PhaseInv
<1>7. ASSUME NEW a \in SyncAction, WellFormed(a), Planned(T, a), newToken <= head,
             UNCHANGED <<newToken, rows>>
      PROVE  Planned(T, a)'
  BY <1>7, PlannedStays
<1>8. CASE Outside \/ Works
  <2>1. /\ UNCHANGED <<rows, queue, newToken>>
        /\ op # None <=> op' # None
        /\ op # None => op'.action = op.action
    BY <1>8 DEF Outside, Works, Queued, memory
  <2>2. \A a \in queue : Planned(T, a)'
    BY <1>4, <1>5, <1>6, <2>1
  <2>3. CASE op # None
    <3>1. op.action \in SyncAction /\ WellFormed(op.action) /\ Planned(T, op.action)
      BY <2>3 DEF TypeInv, TypeOK, References, Operation, QueueInv
    <3>2. PICK a \in SyncAction : a = op.action
      BY <3>1
    <3>3. Planned(T, a)'
      BY <1>5, <1>6, <1>7, <2>1, <2>3, <3>1, <3>2
    <3>4. op' # None /\ op'.action = a
      BY <2>1, <2>3, <3>2
    <3>5. Planned(T, op.action)'
      BY <3>3, <3>4 DEF Planned
    <3>6. \A b \in queue' : b.path # op'.action.path
      BY <2>1, <2>3, <3>2, <3>4 DEF QueueInv
    <3>7. QED
      BY <2>1, <2>2, <3>5, <3>6 DEF QueueInv
  <2>4. CASE op = None
    BY <2>1, <2>2, <2>4 DEF QueueInv
  <2>5. QED
    BY <2>3, <2>4
<1>9. CASE \E a \in queue : Pop(a)
  <2>1. PICK a \in queue : Pop(a)
    BY <1>9
  <2>2. /\ UNCHANGED <<rows, newToken>> /\ queue' = queue \ {a}
        /\ op'.action = a
    BY <2>1 DEF Pop, database
  <2>3. \A b \in queue : Planned(T, b)'
    BY <1>4, <1>5, <1>6, <2>2
  <2>4. Planned(T, op.action)'
    BY <2>2, <2>3 DEF Planned
  <2>5. QED
    BY <2>2, <2>3, <2>4 DEF QueueInv
<1>10. CASE Records
  <2>1. op # None /\ op' = None /\ phase = "execute" /\ UNCHANGED <<queue, newToken>>
        /\ \A p \in Path : p # op.action.path => rows'[p] = rows[p]
    BY <1>10, RowRecorded DEF Queued
  <2>2. \A a \in queue : rows'[a.path] = rows[a.path]
    BY <2>1 DEF QueueInv, TypeInv, TypeOK, SyncAction
  <2>3. \A a \in queue : Planned(T, a)'
    BY <1>4, <1>5, <2>1, <2>2
  <2>4. QED
    BY <2>1, <2>3 DEF QueueInv
<1>11. QED
  BY <1>2, <1>3, <1>8, <1>9, <1>10 DEF StepKinds

\* The stages of the operation keep what they know of its file.
LEMMA OpStep ==
  ASSUME NEW T, TypeInv, TypeInv', DriveInv, PhaseInv, PhaseInv', RowInv,
         QueueInv(T), OpInv, Onward, StepKinds
  PROVE  OpInv'
<1>1. CASE op' = None
  BY <1>1 DEF OpInv
<1>2. CASE Drops \/ Begins \/ FetchPage \/ Scan \/ QueueEmpty \/ AdvanceToken \/ Records
  <2>1. op' = None
    BY <1>2, PageFetched DEF Drops, Forget, Begins, Scan, QueueEmpty, AdvanceToken, PhaseInv,
                             Records, RecordUpload, RecordDownload, DropRow
  <2>2. QED
    BY <1>1, <2>1
<1>3. CASE \E a \in queue : Pop(a)
  <2>1. op'.stage = "begin"
    BY <1>3 DEF Pop
  <2>2. QED
    BY <2>1 DEF OpInv
<1>4. CASE Outside /\ op # None
  <2>1. UNCHANGED <<op, newToken>> /\ phase = "execute" /\ newToken \in Nat /\ newToken <= head
    BY <1>4 DEF Outside, memory, PhaseInv, TypeInv, TypeOK
  <2>2. CASE op.stage = "sent"
    <3>1. /\ op.file.id \in FileId /\ Exists(op.file.id) /\ op.file.modified \in Nat
      BY <1>4, <2>2 DEF TypeInv, References, StageOK, Response
    <3>2. /\ newToken < drive'[op.file.id].rev
          /\ op.file.modified <= drive'[op.file.id].rev
      BY <1>4, <2>1, <2>2, <3>1, RevGrows DEF OpInv
    <3>3. drive'[op.file.id].name = drive[op.file.id].name
      BY <3>1 DEF Onward
    <3>4. QED
      BY <1>4, <2>1, <2>2, <3>2, <3>3 DEF OpInv
  <2>3. CASE op.stage = "dropped"
    <3>1. op.action.kind = "DeleteRemote" =>
            op.action.state.id \in FileId /\ Exists(op.action.state.id)
      BY <1>4 DEF TypeInv, References, WellFormed, FileState
    <3>2. op.action.kind = "DeleteRemote" => newToken < drive'[op.action.state.id].rev
      BY <1>4, <2>1, <2>3, <3>1, RevGrows DEF OpInv
    <3>3. QED
      BY <1>4, <2>1, <2>3, <3>2 DEF OpInv
  <2>4. CASE op.stage \in {"fetched", "written"}
    <3>1. /\ op.action.kind \in DownloadKinds \cup {"Conflict"}
          /\ op.action.file.id \in FileId /\ Exists(op.action.file.id)
      BY <1>4, <2>4 DEF OpInv, TypeInv, References, WellFormed, DriveChange
    <3>2. drive'[op.action.file.id].status = "removed" => newToken < drive'[op.action.file.id].rev
      <4>1. CASE drive'[op.action.file.id] = drive[op.action.file.id]
        BY <1>4, <2>4, <4>1 DEF OpInv
      <4>2. CASE drive'[op.action.file.id] # drive[op.action.file.id]
        <5>1. drive'[op.action.file.id].rev = head + 1 /\ head \in Nat
          BY <3>1, <4>2 DEF Onward, TypeInv, TypeOK
        <5>2. QED
          BY <2>1, <5>1
      <4>3. QED
        BY <4>1, <4>2
    <3>3. QED
      BY <1>4, <2>1, <2>4, <3>1, <3>2 DEF OpInv
  <2>5. QED
    BY <2>1, <2>2, <2>3, <2>4 DEF OpInv
<1>5. CASE Outside /\ op = None
  BY <1>1, <1>5 DEF Outside, memory
<1>6. CASE Works
  <2>1. /\ op # None /\ op'.action = op.action /\ UNCHANGED newToken
        /\ newToken \in Nat /\ newToken <= head /\ head \in Nat
        /\ op.action.path \in Path /\ Planned(T, op.action)
    BY <1>6 DEF Works, Queued, PhaseInv, TypeInv, TypeOK, QueueInv, Operation, SyncAction
  <2>2. CASE WorksAlone
    <3>1. UNCHANGED drive
      BY <2>2 DEF WorksAlone, server
    <3>2. QED
      BY <2>1, <2>2, <3>1 DEF WorksAlone, OpInv, DeleteKinds
  <2>3. CASE WritesKnown
    <3> DEFINE id == op.action.state.id
    <3>1. id \in FileId /\ drive'[id].rev = head + 1 /\ drive'[id].name = drive[id].name
      BY <2>3 DEF WritesKnown, Touches
    <3>2. CASE op.action.kind = "UpdateUpload"
      <4>1. op'.stage = "sent" /\ op'.file.id = id /\ op'.file.modified <= head + 1
        BY <2>3, <3>2 DEF WritesKnown
      <4>2. op.action.state = rows[op.action.path] /\ op.action.state # None
        BY <2>1, <3>2, NoneIsApart DEF Planned, TypeInv, References, WellFormed
      <4>3. drive[id].name = op.action.path
        BY <2>1, <4>2 DEF RowInv
      <4>4. QED
        BY <2>1, <3>1, <3>2, <4>1, <4>3 DEF OpInv, UploadKinds
    <3>3. CASE op.action.kind = "DeleteRemote"
      <4>1. op'.stage = "dropped"
        BY <2>3, <3>3 DEF WritesKnown
      <4>2. QED
        BY <2>1, <3>1, <3>3, <4>1 DEF OpInv, DeleteKinds
    <3>4. QED
      BY <2>3, <3>2, <3>3 DEF WritesKnown
  <2>4. CASE WritesNew
    <3>1. PICK id \in FileId :
            /\ drive'[id].rev = head + 1 /\ drive'[id].name = op.action.path
            /\ op.action.kind = "NewUpload" /\ op'.stage = "sent"
            /\ op'.file.id = id /\ op'.file.modified <= head + 1
      BY <2>4 DEF WritesNew, Touches
    <3>2. QED
      BY <2>1, <3>1 DEF OpInv, UploadKinds
  <2>5. QED
    BY <1>6, <2>2, <2>3, <2>4 DEF Works
<1>7. QED
  BY <1>2, <1>3, <1>4, <1>5, <1>6 DEF StepKinds

\* A ghost stays one: nothing lists, fetches or records it again.
LEMMA GhostStays ==
  ASSUME NEW T, TypeInv, TypeInv', DriveInv, PhaseInv, RowInv, ListingInv, QueueInv(T), OpInv,
         StepKinds, NEW j \in FileId, Exists(j), Ghost(j),
         drive[j].status # "live" \/ phase # "fetch"
  PROVE  Ghost(j)'
<1>1. /\ ~HasRow(j, rows) /\ \A c \in changes : c.id = j => c.status # "live"
      /\ \A a \in queue : ~Fetches(a, j)
      /\ op # None => ~Fetches(op.action, j) /\ (op.stage = "sent" => op.file.id # j)
  BY DEF Ghost, Fetching
<1>2. ASSUME ~HasRow(j, rows'), \A c \in changes' : c.id = j => c.status # "live",
             \A a \in queue' : ~Fetches(a, j),
             op' # None => ~Fetches(op'.action, j) /\ (op'.stage = "sent" => op'.file.id # j)
      PROVE  Ghost(j)'
  BY <1>2 DEF Ghost, Fetching, Fetches
<1>3. CASE Outside
  BY <1>1, <1>2, <1>3 DEF Outside, memory
<1>4. CASE Drops
  BY <1>1, <1>2, <1>4 DEF Drops, Forget
<1>5. CASE Begins
  BY <1>1, <1>2, <1>5 DEF Begins
<1>6. CASE FetchPage
  <2>1. /\ phase = "fetch" /\ UNCHANGED <<rows, queue, op>>
        /\ \E S \in SUBSET FileId : changes' = changes \cup {Entry(i) : i \in S}
    <3>1. /\ phase = "fetch" /\ UNCHANGED <<rows, queue, op>>
          /\ changes' = changes \cup {Entry(i) : i \in {k \in FileId :
                           Exists(k) /\ cursor < drive[k].rev /\ drive[k].rev <= cursor'}}
      BY <1>6, PageFetched
    <3>2. {k \in FileId : Exists(k) /\ cursor < drive[k].rev /\ drive[k].rev <= cursor'}
             \in SUBSET FileId
      OBVIOUS
    <3>3. QED
      BY <3>1, <3>2
  <2>2. \A i \in FileId : Entry(i).id = i /\ Entry(i).status = drive[i].status
    BY DEF Entry
  <2>3. \A c \in changes' : c.id = j => c.status # "live"
    BY <1>1, <2>1, <2>2
  <2>4. QED
    BY <1>1, <1>2, <2>1, <2>3
<1>7. CASE Scan
  <2>1. UNCHANGED rows /\ changes' = {} /\ op' = None
    BY <1>7 DEF Scan, database, PhaseInv
  <2>2. ASSUME NEW a \in queue', Fetches(a, j)
        PROVE  FALSE
    <3>1. a.kind \in DownloadKinds \cup {"Conflict"} /\ a.file.id = j
      BY <2>2 DEF Fetches
    <3>2. PICK c \in changes : Carries(a, c)
      BY <1>7, <3>1, ScannedAction DEF UploadKinds, DownloadKinds
    <3>3. c.id = j /\ c.status = "live"
      BY <3>1, <3>2 DEF Carries, DownloadKinds
    <3>4. QED
      BY <1>1, <3>3
  <2>3. QED
    BY <1>1, <1>2, <2>1, <2>2
<1>8. CASE \E a \in queue : Pop(a)
  <2>1. PICK a \in queue : Pop(a)
    BY <1>8
  <2>2. /\ UNCHANGED <<rows, changes>> /\ queue' \subseteq queue
        /\ op'.action = a /\ op'.stage = "begin"
    BY <2>1 DEF Pop, database
  <2>3. QED
    BY <1>1, <1>2, <2>2
<1>9. CASE QueueEmpty \/ AdvanceToken
  BY <1>1, <1>2, <1>9 DEF QueueEmpty, AdvanceToken, database
<1>10. CASE Works
  <2>1. /\ UNCHANGED <<rows, changes, queue>> /\ op # None /\ op'.action = op.action
        /\ op.action.path \in Path /\ Planned(T, op.action)
    BY <1>10 DEF Works, Queued, QueueInv, TypeInv, TypeOK, Operation, SyncAction
  <2>2. op'.stage = "sent" => op'.file.id # j
    <3>1. CASE WorksAlone
      BY <3>1 DEF WorksAlone
    <3>2. CASE WritesKnown
      <4>1. CASE op.action.kind = "UpdateUpload"
        <5>1. op.action.state = rows[op.action.path] /\ op.action.state # None
          BY <2>1, <4>1, NoneIsApart DEF Planned, TypeInv, References, WellFormed
        <5>2. op'.file.id = rows[op.action.path].id
          BY <3>2, <4>1, <5>1 DEF WritesKnown
        <5>3. QED
          BY <1>1, <2>1, <5>1, <5>2 DEF HasRow
      <4>2. CASE op.action.kind # "UpdateUpload"
        BY <3>2, <4>2 DEF WritesKnown
      <4>3. QED
        BY <4>1, <4>2
    <3>3. CASE WritesNew
      BY <3>3 DEF WritesNew
    <3>4. QED
      BY <1>10, <3>1, <3>2, <3>3 DEF Works
  <2>3. QED
    BY <1>1, <1>2, <2>1, <2>2
<1>11. CASE Records
  <2>1. /\ op # None /\ op' = None /\ UNCHANGED <<changes, queue>> /\ op.action.path \in Path
        /\ \A p \in Path : p # op.action.path => rows'[p] = rows[p]
    BY <1>11, RowRecorded DEF Queued
  <2>2. ASSUME NEW p \in Path, rows'[p] # None, rows'[p].id = j
        PROVE  FALSE
    <3>1. CASE p # op.action.path
      BY <1>1, <2>1, <2>2, <3>1 DEF HasRow
    <3>2. CASE p = op.action.path
      BY <1>1, <1>11, <2>1, <2>2, <3>2, RowRecorded DEF Fetches
    <3>3. QED
      BY <3>1, <3>2
  <2>3. ~HasRow(j, rows')
    BY <2>2 DEF HasRow
  <2>4. QED
    BY <1>1, <1>2, <2>1, <2>3
<1>12. QED
  BY <1>3, <1>4, <1>5, <1>6, <1>7, <1>8, <1>9, <1>10, <1>11 DEF StepKinds

\* A file that has given way to another of its name never comes back.
LEMMA YieldsStays ==
  ASSUME NEW T, TypeInv, TypeInv', DriveInv, PhaseInv, RowInv, ListingInv, QueueInv(T), OpInv,
         Onward, StepKinds, NEW i \in FileId, NEW j \in FileId, Exists(i), Exists(j), Yields(j, i)
  PROVE  Yields(j, i)'
<1>1. /\ drive'[j].status # "live" /\ drive[i].modified <= drive'[i].modified
      /\ drive[j].status = "removed" => drive'[j] = drive[j]
  BY DEF Yields, Onward
<1>2. CASE Ghost(j)
  BY <1>1, <1>2, GhostStays DEF Yields
<1>3. CASE drive[j].status = "removed" /\ drive[j].rev < drive[i].modified
  <2>1. drive[j].rev \in Nat /\ drive[i].modified \in Nat /\ drive'[i].modified \in Nat
    BY DEF Exists, DriveFile, Onward
  <2>2. QED
    BY <1>1, <1>3, <2>1 DEF Yields
<1>4. QED
  BY <1>2, <1>3 DEF Yields

\* When an upload makes a file, other files of its name are ghosts.
LEMMA OthersAreGhosts ==
  ASSUME NEW T, TypeInv, PhaseInv, RowInv, QueueInv(T),
         op # None, op.action.kind = "NewUpload", op.stage = "read",
         NEW j \in FileId, Exists(j), drive[j].name = op.action.path
  PROVE  Ghost(j)
<1>1. op.action.path \in Path /\ Planned(T, op.action) /\ phase = "execute" /\ changes = {}
  BY DEF TypeInv, TypeOK, Operation, SyncAction, QueueInv, PhaseInv
<1>2. rows[op.action.path] = None
  BY <1>1 DEF Planned
<1>3. ~HasRow(j, rows)
  BY <1>2, RowUnderName
<1>4. ASSUME NEW a \in queue, Fetches(a, j)
      PROVE  FALSE
  BY <1>4 DEF QueueInv, Planned, Fetches
<1>5. ~Fetches(op.action, j)
  BY DEF Fetches, DownloadKinds
<1>6. QED
  BY <1>1, <1>3, <1>4, <1>5 DEF Ghost, Fetching

\* A file is made by a user or by the operation.
LEMMA FreshFile ==
  ASSUME NEW T, TypeInv, PhaseInv, RowInv, QueueInv(T), OpInv, StepKinds,
         NEW i \in FileId, ~Exists(i), Exists(i)'
  PROVE  \/ Outside /\ FreshByUser
         \/ (Drops \/ Works) /\ FreshByUpload
<1>1. CASE UNCHANGED drive
  BY <1>1 DEF Exists
<1>2. CASE Works
  <2>1. CASE WorksAlone
    BY <1>1, <2>1 DEF WorksAlone, server
  <2>2. CASE WritesKnown
    BY <2>2 DEF WritesKnown, Touches, Exists
  <2>3. CASE WritesNew
    BY <1>2, <2>3 DEF WritesNew, Works, Touches, FreshByUpload, Exists
  <2>4. QED
    BY <1>2, <2>1, <2>2, <2>3 DEF Works
<1>3. CASE Begins \/ FetchPage \/ Scan \/ (\E a \in queue : Pop(a)) \/ QueueEmpty
           \/ AdvanceToken \/ Records
  BY <1>1, <1>3, RowRecorded DEF Begins, FetchPage, Scan, Pop, QueueEmpty, AdvanceToken, server
<1>4. QED
  BY <1>2, <1>3 DEF StepKinds, Outside, Drops

\* Of two files of one name one has given way.
LEMMA PairStep ==
  ASSUME NEW T, "duplicate" \in RemoteOps => T \cap RemotePath = {},
         TypeInv, TypeInv', DriveInv, DriveInv', PhaseInv, RowInv, ListingInv,
         QueueInv(T), OpInv, PairInv(T), Onward, StepKinds, DistinctIn(T)'
  PROVE  PairInv(T)'
<1>1. ASSUME NEW i \in FileId, NEW j \in FileId, ~Exists(i), Exists(i)', Exists(j),
             drive'[i].name = drive'[j].name, drive'[i].name \in T
      PROVE  Yields(j, i)'
  <2>1. /\ drive'[i].status = "live" /\ drive'[i].modified = head + 1
        /\ drive'[j] \in DriveFile /\ drive'[j].name = drive[j].name /\ i # j
        /\ drive[j].rev <= head /\ drive[j].rev \in Nat /\ head \in Nat
    BY <1>1 DEF Onward, Exists, DriveInv, DriveFile, TypeInv, TypeOK
  <2>2. CASE FreshByUser
    <3>1. drive[j].status = "removed"
      BY <1>1, <2>1, <2>2 DEF FreshByUser, Exists
    <3>2. drive'[j] = drive[j]
      BY <1>1, <3>1 DEF Onward
    <3>3. QED
      BY <2>1, <3>1, <3>2 DEF Yields
  <2>3. CASE FreshByUpload
    <3>1. op # None /\ op.action.kind = "NewUpload" /\ op.stage = "read"
          /\ drive[j].name = op.action.path
      BY <1>1, <2>1, <2>3 DEF FreshByUpload, Exists
    <3>2. Ghost(j) /\ phase = "execute"
      BY <1>1, <3>1, OthersAreGhosts DEF PhaseInv
    <3>3. Ghost(j)'
      BY <1>1, <3>2, GhostStays
    <3>4. drive'[j].status # "live"
      <4>1. drive'[i] # None /\ drive'[j] # None
        BY <1>1, <2>1, CycleAssumption DEF Exists
      <4>2. QED
        BY <1>1, <2>1, <4>1 DEF DistinctIn
    <3>5. QED
      BY <3>3, <3>4 DEF Yields
  <2>4. FreshByUser \/ FreshByUpload
    BY <1>1, FreshFile
  <2>5. QED
    BY <2>2, <2>3, <2>4
<1>2. ASSUME NEW i \in FileId, NEW j \in FileId, Exists(i)', Exists(j)', i # j,
             drive'[i].name = drive'[j].name, drive'[i].name \in T
      PROVE  Yields(i, j)' \/ Yields(j, i)'
  <2>1. CASE Exists(i) /\ Exists(j)
    <3>1. drive[i].name = drive[j].name /\ drive[i].name \in T
      BY <1>2, <2>1 DEF Onward
    <3>2. Yields(i, j) \/ Yields(j, i)
      BY <1>2, <2>1, <3>1 DEF PairInv
    <3>3. QED
      BY <2>1, <3>2, YieldsStays
  <2>2. CASE ~Exists(i) /\ Exists(j)
    BY <1>1, <1>2, <2>2
  <2>3. CASE Exists(i) /\ ~Exists(j)
    BY <1>1, <1>2, <2>3
  <2>4. CASE ~Exists(i) /\ ~Exists(j)
    <3>1. drive'[i].rev = head + 1 /\ drive'[j].rev = head + 1
      BY <1>2, <2>4 DEF Onward, Exists
    <3>2. QED
      BY <1>2, <3>1 DEF DriveInv
  <2>5. QED
    BY <2>1, <2>2, <2>3, <2>4
<1>3. QED
  BY <1>2 DEF PairInv

\* A due file has not been touched since, and stays recorded or settled.
LEMMA DueStays ==
  ASSUME NEW T, TypeInv, TypeInv', DriveInv, Onward, NEW t \in Nat, t <= head,
         UNCHANGED start, start \in Nat, NEW id \in FileId, Due(T, id, t)'
  PROVE  Due(T, id, t) /\ drive'[id] = drive[id] /\ t \in Nat
<1>1. head \in Nat /\ Exists(id)' /\ drive'[id].rev <= t
  BY DEF TypeInv, TypeOK, Due
<1>2. Exists(id)
  BY <1>1 DEF Onward, Exists
<1>3. drive'[id] = drive[id]
  BY <1>1, <1>2, RevGrows
<1>4. QED
  BY <1>2, <1>3 DEF Due

\* The scan settles every due file.
LEMMA ScanSettles ==
  ASSUME NEW T, TypeInv, DriveInv, PhaseInv, RowInv, ListingInv, PairInv(T), HonestUpTo(T), Scan,
         NEW id \in FileId, Due(T, id, newToken), ~Recorded(id)
  PROVE  \E a \in queue' : Settles(a, id)
<1> DEFINE e == Entry(id)
           p == drive[id].name
<1>1. /\ phase = "scan" /\ token # None /\ token \in Nat /\ newToken \in Nat
      /\ Exists(id) /\ drive[id].rev \in Nat /\ p \in T /\ drive[id].rev <= newToken
  BY DEF Scan, PhaseInv, Due, Exists, DriveFile, TypeInv, TypeOK
<1>2. ~(drive[id].rev <= token)
  BY <1>1 DEF HonestUpTo, Due
<1>3. /\ e \in changes /\ e.id = id /\ e.rev = drive[id].rev
      /\ e.status = drive[id].status
  BY <1>1, <1>2 DEF ListingInv, ListsUpTo, Entry
<1>4. p \in Path /\ ChangePath(e, rows) = p
  BY <1>3, ChangeOnName
<1>5. CASE drive[id].status = "live"
  <2>1. YieldsAction(e, rows) /\ \A d \in Yielding(p) : d.rev <= e.rev
    BY <1>1, <1>3, <1>5, CurrentEntryYields
  <2>2. Latest(e)
    BY <1>3, <2>1 DEF Latest, Yielding
  <2>3. PICK a \in queue' : Carries(a, e)
    BY <1>3, <2>2, LatestScanned
  <2>4. Settles(a, id)
    BY <1>3, <1>5, <2>3 DEF Carries, Settles, Fetches
  <2>5. QED
    BY <2>4
<1>6. CASE drive[id].status = "removed"
  <2>1. rows[p] # None /\ rows[p].id = id
    BY <1>6 DEF Recorded
  <2>2. YieldsAction(e, rows)
    BY <1>3, <1>4, <1>6, <2>1 DEF YieldsAction, HasRow
  <2>3. PICK d \in changes : Latest(d) /\ drive[d.id].name = p /\ e.rev <= d.rev
    BY <1>3, <2>2, SomeLatest
  <2>4. PICK a \in queue' : Carries(a, d)
    BY <2>3, LatestScanned
  <2>5. CASE a.kind = "DeleteLocal"
    BY <1>6, <2>3, <2>4, <2>5 DEF Carries, Settles
  <2>6. CASE a.kind \in DownloadKinds \cup {"Conflict"} /\ d.status = "live"
    <3>1. d.id \in FileId /\ d.rev \in Nat /\ d.rev <= drive[d.id].rev
      BY ChangeOnName DEF DriveChange, ListingInv, Listed
    <3>2. ASSUME d.id = id
          PROVE  FALSE
      <4>1. d.rev = e.rev
        BY <1>1, <1>3, <2>3, <3>1, <3>2
      <4>2. d = e
        BY <1>3, <4>1 DEF ListingInv
      <4>3. QED
        BY <1>3, <1>6, <2>6, <4>2
    <3>3. QED
      BY <1>6, <2>3, <2>4, <2>6, <3>2 DEF Carries, Settles
  <2>7. QED
    BY <2>4, <2>5, <2>6 DEF Carries
<1>7. CASE drive[id].status \notin {"live", "removed"}
  BY <1>7 DEF Recorded
<1>8. QED
  BY <1>5, <1>6, <1>7

\* A record settles the due file of its path.
LEMMA RecordSettles ==
  ASSUME NEW T, TypeInv, DriveInv, PhaseInv, RowInv, QueueInv(T), OpInv, PairInv(T),
         Records, NEW id \in FileId, Due(T, id, newToken), drive[id].name = op.action.path,
         Recorded(id) \/ Settles(op.action, id)
  PROVE  Recorded(id)'
<1> DEFINE p == op.action.path
           row == rows'[p]
<1>1. /\ op # None /\ p \in Path /\ p \in T /\ drive' = drive /\ Planned(T, op.action)
      /\ Exists(id) /\ drive[id].rev \in Nat /\ drive[id].modified \in Nat
      /\ drive[id].modified <= drive[id].rev
      /\ drive[id].rev <= newToken /\ newToken \in Nat
  BY RowRecorded DEF Due, Exists, DriveFile, DriveInv, TypeInv, TypeOK
<1>2. ASSUME NEW k \in FileId, Exists(k), k # id, drive[k].name = p, drive[id].status = "live",
             newToken < drive[k].rev \/ drive[k].status # "removed", ~Ghost(k)
      PROVE  FALSE
  <2>1. Yields(k, id)
    BY <1>1, <1>2 DEF PairInv, Yields
  <2>2. drive[k].status = "removed" /\ drive[k].rev < drive[id].modified
    BY <1>2, <2>1 DEF Yields
  <2>3. drive[k].rev \in Nat
    BY <1>2 DEF Exists, DriveFile
  <2>4. QED
    BY <1>1, <1>2, <2>2, <2>3
<1>3. CASE op.stage = "sent" /\ op.action.kind \in UploadKinds /\ row.id = op.file.id
  <2> DEFINE k == op.file.id
  <2>1. /\ k \in FileId /\ Exists(k) /\ drive[k].rev \in Nat /\ newToken < drive[k].rev
        /\ drive[k].name = p
    BY <1>1, <1>3 DEF TypeInv, References, StageOK, Response, OpInv, Exists, DriveFile
  <2>2. k # id
    BY <1>1, <2>1
  <2>3. ~Ghost(k)
    BY <1>1, <1>3 DEF Ghost
  <2>4. drive[id].status # "live"
    BY <1>2, <2>1, <2>2, <2>3
  <2>5. QED
    BY <1>1, <1>3, <2>2, <2>4 DEF Recorded
<1>4. CASE /\ op.stage = "written" /\ op.action.kind \in DownloadKinds \cup {"Conflict"}
           /\ row # None /\ row.id = op.action.file.id
           /\ row.driveMd5 = op.action.file.md5 /\ row.driveModified = op.action.file.modified
  <2> DEFINE k == op.action.file.id
  <2>1. /\ k \in FileId /\ Exists(k) /\ drive[k].name = p
        /\ drive[k].status = "removed" => newToken < drive[k].rev
    BY <1>1, <1>4 DEF TypeInv, References, WellFormed, DriveChange, OpInv, Planned
  <2>2. CASE k = id
    <3>1. drive[id].status # "removed"
      BY <1>1, <2>1, <2>2
    <3>2. drive[id].status = "live" =>
            row.driveMd5 = drive[id].md5 /\ row.driveModified = drive[id].modified
      BY <1>1, <1>4, <2>1, <2>2 DEF Planned
    <3>3. QED
      BY <1>1, <1>4, <2>2, <3>1, <3>2 DEF Recorded, RemoteChanged
  <2>3. CASE k # id
    <3>1. ~Ghost(k)
      BY <1>1, <1>4 DEF Ghost, Fetching, Fetches
    <3>2. drive[id].status # "live"
      BY <1>2, <2>1, <2>3, <3>1
    <3>3. QED
      BY <1>1, <1>4, <2>3, <3>2 DEF Recorded
  <2>4. QED
    BY <2>2, <2>3
<1>5. CASE op.stage = "dropped" /\ op.action.kind \in DeleteKinds /\ row = None
  <2>1. op.action.state = rows[p]
    BY <1>1 DEF Planned
  <2>2. ASSUME drive[id].status = "live"
        PROVE  FALSE
    <3>1. rows[p] # None /\ rows[p].id = id
      BY <1>5, <2>2 DEF Recorded, Settles, Fetches, DeleteKinds, DownloadKinds
    <3>2. CASE op.action.kind = "DeleteRemote"
      BY <1>1, <1>5, <2>1, <3>1, <3>2 DEF OpInv
    <3>3. CASE op.action.kind = "DeleteLocal"
      BY <1>1, <2>1, <2>2, <3>1, <3>3 DEF Planned
    <3>4. QED
      BY <1>5, <3>2, <3>3 DEF DeleteKinds
  <2>3. QED
    BY <1>1, <1>5, <2>2 DEF Recorded
<1>6. QED
  BY <1>3, <1>4, <1>5, RowRecorded

\* Steps that leave rows, tokens and plans alone leave the due files as they are.
LEMMA HonestStays ==
  ASSUME NEW T, TypeInv, TypeInv', DriveInv, PhaseInv, HonestUpTo(T), Onward,
         UNCHANGED <<rows, token, start>>,
         \/ phase' \notin {"execute", "advance"}
         \/ /\ UNCHANGED <<phase, newToken, queue>>
            /\ op # None <=> op' # None
            /\ op # None => op'.action = op.action
  PROVE  HonestUpTo(T)'
<1>1. \A id \in FileId : drive'[id] = drive[id] =>
        /\ Recorded(id) => Recorded(id)'
        /\ \A a : Settles(a, id) =>
             /\ a.path = drive'[id].name
             /\ drive'[id].status = "live" => Fetches(a, id)
             /\ drive'[id].status = "removed" =>
                  \/ a.kind = "DeleteLocal"
                  \/ a.kind \in DownloadKinds \cup {"Conflict"} /\ a.file.id # id
  BY DEF Recorded, Settles, RemoteChanged
<1>2. token # None => start \in Nat /\ token \in Nat /\ token <= head
  BY DEF PhaseInv, TypeInv, TypeOK
<1>3. token' # None => \A id \in FileId : Due(T, id, token)' => Recorded(id)'
  <2> SUFFICES ASSUME token # None, NEW id \in FileId, Due(T, id, token)'
               PROVE  Recorded(id)'
    OBVIOUS
  <2>1. Due(T, id, token) /\ drive'[id] = drive[id]
    BY <1>2, DueStays DEF Due
  <2>2. QED
    BY <1>1, <2>1 DEF HonestUpTo
<1>4. CASE phase' \notin {"execute", "advance"}
  BY <1>3, <1>4 DEF HonestUpTo
<1>5. CASE /\ UNCHANGED <<phase, newToken, queue>>
           /\ op # None <=> op' # None
           /\ op # None => op'.action = op.action
           /\ phase \in {"execute", "advance"}
  <2>1. start \in Nat /\ newToken \in Nat /\ newToken <= head
    BY <1>2, <1>5 DEF PhaseInv, TypeInv, TypeOK
  <2>2. \A id \in FileId : Due(T, id, newToken)' => Due(T, id, newToken) /\ drive'[id] = drive[id]
    BY <1>5, <2>1, DueStays DEF Due
  <2>3. phase' = "advance" => \A id \in FileId : Due(T, id, newToken)' => Recorded(id)'
    BY <1>1, <1>5, <2>2 DEF HonestUpTo
  <2>4. ASSUME phase = "execute", NEW id \in FileId, Due(T, id, newToken)'
        PROVE  \/ Recorded(id)'
               \/ \E a \in queue' : Settles(a, id)'
               \/ op' # None /\ Settles(op.action, id)'
    <3>1. Due(T, id, newToken) /\ drive'[id] = drive[id]
      BY <2>2, <2>4
    <3>2. CASE Recorded(id)
      BY <1>1, <3>1, <3>2
    <3>3. CASE \E a \in queue : Settles(a, id)
      <4>1. PICK a \in queue : Settles(a, id)
        BY <3>3
      <4>2. a \in queue' /\ Settles(a, id)'
        BY <1>1, <1>5, <3>1, <4>1 DEF Settles, Fetches
      <4>3. QED
        BY <4>2
    <3>4. CASE op # None /\ Settles(op.action, id)
      <4>1. op' # None /\ op'.action = op.action
        BY <1>5, <3>4
      <4>2. Settles(op.action, id)'
        BY <3>1, <3>4, <4>1 DEF Settles, Fetches
      <4>3. QED
        BY <4>1, <4>2
    <3>5. QED
      BY <2>4, <3>1, <3>2, <3>3, <3>4 DEF HonestUpTo
  <2>5. QED
    BY <1>3, <1>5, <2>3, <2>4 DEF HonestUpTo
<1>6. QED
  BY <1>4, <1>5

\* A row that is written settles the due file of its path and no other.
LEMMA HonestRecorded ==
  ASSUME NEW T, TypeInv, TypeInv', DriveInv, PhaseInv, RowInv, QueueInv(T), OpInv,
         PairInv(T), HonestUpTo(T), Records
  PROVE  HonestUpTo(T)'
<1>1. /\ op # None /\ op' = None /\ op.action.path \in Path /\ phase = "execute"
      /\ UNCHANGED <<drive, token, start, phase, newToken, queue>>
      /\ \A p \in Path : p # op.action.path => rows'[p] = rows[p]
  BY RowRecorded DEF Queued
<1>2. token # None /\ token \in Nat /\ newToken \in Nat /\ token <= newToken
  BY <1>1 DEF PhaseInv, TypeInv, TypeOK
<1>3. ASSUME NEW id \in FileId, Due(T, id, newToken), Recorded(id) \/ Settles(op.action, id)
      PROVE  Recorded(id)'
  <2>1. CASE drive[id].name = op.action.path
    BY <1>3, <2>1, RecordSettles
  <2>2. CASE drive[id].name # op.action.path
    <3>1. drive[id].name \in Path
      BY <1>3 DEF Due, Exists, DriveFile
    <3>2. Recorded(id)
      BY <1>3, <2>2 DEF Settles
    <3>3. QED
      BY <1>1, <2>2, <3>1, <3>2 DEF Recorded, RemoteChanged
  <2>3. QED
    BY <2>1, <2>2
<1>4. \A id \in FileId : Due(T, id, token) => Due(T, id, newToken)
  BY <1>2 DEF Due, Exists, DriveFile
<1>5. \A id \in FileId : \A t : Due(T, id, t)' =>
        Exists(id) /\ drive[id].name \in T /\ start < drive[id].rev
  BY <1>1 DEF Due, Exists
<1>6. \A id \in FileId : (Due(T, id, token)' => Due(T, id, token))
                      /\ (Due(T, id, newToken)' => Due(T, id, newToken))
  BY <1>1 DEF Due, Exists
<1>7. \A id \in FileId : Due(T, id, token)' => Recorded(id)'
  BY <1>2, <1>3, <1>4, <1>6 DEF HonestUpTo
<1>8. ASSUME NEW id \in FileId, Due(T, id, newToken)'
      PROVE  Recorded(id)' \/ \E a \in queue' : Settles(a, id)'
  <2>1. Due(T, id, newToken)
    BY <1>6, <1>8
  <2>2. CASE Recorded(id) \/ Settles(op.action, id)
    BY <1>3, <2>1, <2>2
  <2>3. CASE \E a \in queue : Settles(a, id)
    <3>1. PICK a \in queue : Settles(a, id)
      BY <2>3
    <3>2. Settles(a, id)'
      BY <1>1, <3>1 DEF Settles, Fetches
    <3>3. QED
      BY <1>1, <3>2
  <2>4. QED
    BY <1>1, <2>1, <2>2, <2>3 DEF HonestUpTo
<1>9. QED
  BY <1>1, <1>7, <1>8 DEF HonestUpTo

\* No token passes a change that is not recorded.
LEMMA HonestStep ==
  ASSUME NEW T, TypeInv, TypeInv', DriveInv, PhaseInv, PhaseInv', RowInv, ListingInv,
         QueueInv(T), OpInv, PairInv(T), HonestUpTo(T), Onward, StepKinds
  PROVE  HonestUpTo(T)'
<1>1. CASE Outside \/ Drops \/ Works \/ FetchPage
  BY <1>1, HonestStays, PageFetched
     DEF Outside, Drops, Forget, Works, Queued, memory
<1>2. CASE Begins
  <2>1. CASE UNCHANGED <<token, start>>
    BY <1>2, <2>1, HonestStays DEF Begins
  <2>2. CASE token' = head /\ start' = head
    <3>1. phase' = "fetch" /\ UNCHANGED <<drive, head>>
      BY <1>2 DEF Begins, server
    <3>2. \A id \in FileId : ~Due(T, id, token)'
      BY <2>2, <3>1 DEF Due, Exists, DriveFile, TypeInv, TypeOK
    <3>3. QED
      BY <3>1, <3>2 DEF HonestUpTo
  <2>3. QED
    BY <1>2, <2>1, <2>2 DEF Begins
<1>3. CASE Scan
  <2>1. /\ phase' = "execute" /\ op' = None
        /\ UNCHANGED <<drive, rows, token, start, newToken>>
    BY <1>3 DEF Scan, server, database, PhaseInv
  <2>2. \A id \in FileId : /\ Due(T, id, token)' => Due(T, id, token)
                           /\ Due(T, id, newToken)' => Due(T, id, newToken)
                           /\ Recorded(id) => Recorded(id)'
    BY <2>1 DEF Due, Exists, Recorded, RemoteChanged
  <2>3. ASSUME NEW id \in FileId, Due(T, id, newToken)', ~Recorded(id)
        PROVE  \E a \in queue' : Settles(a, id)'
    <3>1. PICK a \in queue' : Settles(a, id)
      BY <1>3, <2>2, <2>3, ScanSettles
    <3>2. Settles(a, id)'
      BY <2>1, <3>1 DEF Settles, Fetches
    <3>3. QED
      BY <3>2
  <2>4. QED
    BY <2>1, <2>2, <2>3 DEF HonestUpTo
<1>4. CASE \E a \in queue : Pop(a)
  <2>1. PICK a \in queue : Pop(a)
    BY <1>4
  <2>2. /\ phase' = "execute" /\ phase = "execute" /\ op = None
        /\ queue' = queue \ {a}
        /\ op' = [action |-> a, stage |-> "begin", content |-> None, server |-> None,
                  copy |-> None, file |-> None]
        /\ UNCHANGED <<drive, rows, token, start, newToken>>
    BY <2>1 DEF Pop, server, database
  <2>3. op' # None /\ op'.action = a
    <3>1. op' \in Operation
      BY <2>2 DEF TypeInv, TypeOK, Operation, Stages
    <3>2. QED
      BY <2>2, <3>1, NoneIsApart
  <2>4. \A id \in FileId : /\ Due(T, id, token)' => Due(T, id, token)
                           /\ Due(T, id, newToken)' => Due(T, id, newToken)
                           /\ Recorded(id) => Recorded(id)'
    BY <2>2 DEF Due, Exists, Recorded, RemoteChanged
  <2>5. ASSUME NEW id \in FileId, Due(T, id, newToken)', ~Recorded(id)
        PROVE  (\E b \in queue' : Settles(b, id)') \/ Settles(op.action, id)'
    <3>1. PICK b \in queue : Settles(b, id)
      BY <2>2, <2>4, <2>5 DEF HonestUpTo
    <3>2. CASE b = a
      BY <2>2, <2>3, <3>1, <3>2 DEF Settles, Fetches
    <3>3. CASE b # a
      <4>1. b \in queue' /\ Settles(b, id)'
        BY <2>2, <3>1, <3>3 DEF Settles, Fetches
      <4>2. QED
        BY <4>1
    <3>4. QED
      BY <3>2, <3>3
  <2>6. QED
    BY <2>2, <2>3, <2>4, <2>5 DEF HonestUpTo
<1>5. CASE QueueEmpty
  <2>1. /\ phase = "execute" /\ op = None /\ queue = {} /\ phase' = "advance"
        /\ UNCHANGED <<drive, rows, token, start, newToken>>
    BY <1>5 DEF QueueEmpty, server, database
  <2>2. \A id \in FileId : /\ Due(T, id, token)' => Due(T, id, token)
                           /\ Due(T, id, newToken)' => Due(T, id, newToken)
                           /\ Recorded(id) => Recorded(id)'
    BY <2>1 DEF Due, Exists, Recorded, RemoteChanged
  <2>3. QED
    BY <2>1, <2>2 DEF HonestUpTo
<1>6. CASE AdvanceToken
  <2>1. /\ phase = "advance" /\ phase' = "idle" /\ token' = newToken
        /\ UNCHANGED <<drive, rows, start>>
    BY <1>6 DEF AdvanceToken, server
  <2>2. \A id \in FileId : /\ Due(T, id, token)' => Due(T, id, newToken)
                           /\ Recorded(id) => Recorded(id)'
    BY <2>1 DEF Due, Exists, Recorded, RemoteChanged
  <2>3. QED
    BY <2>1, <2>2 DEF HonestUpTo
<1>7. CASE Records
  BY <1>7, HonestRecorded
<1>8. QED
  BY <1>1, <1>2, <1>3, <1>4, <1>5, <1>6, <1>7 DEF StepKinds

-----------------------------------------------------------------------------
(***************************************************************************)
(* All of it together.                                                     *)
(***************************************************************************)

\* A folder starts with an honest token: none.
LEMMA HonestInvInit ==
  ASSUME NEW T, Init, DistinctIn(T)
  PROVE  HonestInv(T)
<1>1. /\ changes = {} /\ queue = {} /\ op = None /\ phase = "idle" /\ token = None /\ ~pause
      /\ \A p \in Path : rows[p] = None
      /\ drive = InitialDrive /\ head = InitialHead
  BY DEF Init
<1>2. DriveInv
  BY <1>1, CycleAssumption DEF DriveInv, Exists
<1>3. RowInv /\ PhaseInv /\ ListingInv /\ QueueInv(T) /\ OpInv /\ HonestUpTo(T)
  BY <1>1 DEF RowInv, PhaseInv, ListingInv, QueueInv, OpInv, HonestUpTo
<1>4. \A j \in FileId : Ghost(j)
  BY <1>1 DEF Ghost, HasRow, Fetching
<1>5. PairInv(T)
  BY <1>4, CycleAssumption DEF PairInv, Yields, DistinctIn, Exists
<1>6. QED
  BY <1>1, <1>2, <1>3, <1>5 DEF HonestInv

\* Every step of a folder without renames and pauses keeps the invariant, if
\* names are not given twice.
LEMMA HonestInvStep ==
  ASSUME NEW T, ~UserMayPause, "rename" \notin RemoteOps,
         "duplicate" \in RemoteOps => T \cap RemotePath = {},
         TypeInv, HonestInv(T), [Next]_vars, DistinctIn(T)'
  PROVE  HonestInv(T)'
<1>1. TypeInv'
  BY TypeInvStep
<1>2. /\ ~pause /\ DriveInv /\ RowInv /\ PhaseInv /\ ListingInv
      /\ QueueInv(T) /\ OpInv /\ PairInv(T) /\ HonestUpTo(T)
  BY DEF HonestInv
<1>3. ~pause' /\ DriveInv' /\ Onward /\ StepKinds
  BY <1>1, <1>2, StepSorted
<1>4. PhaseInv'
  BY <1>1, <1>2, <1>3, PhaseStep
<1>5. RowInv'
  BY <1>1, <1>2, <1>3, RowStep
<1>6. ListingInv'
  BY <1>1, <1>2, <1>3, <1>4, ListingStep
<1>7. QueueInv(T)'
  BY <1>1, <1>2, <1>3, <1>4, QueueStep
<1>8. OpInv'
  BY <1>1, <1>2, <1>3, <1>4, OpStep
<1>9. PairInv(T)'
  BY <1>1, <1>2, <1>3, PairStep
<1>10. HonestUpTo(T)'
  BY <1>1, <1>2, <1>3, <1>4, HonestStep
<1>11. QED
  BY <1>3, <1>4, <1>5, <1>6, <1>7, <1>8, <1>9, <1>10 DEF HonestInv

\* With names that are never given twice, every stored token is honest: whatever
\* fails, crashes or is repeated, and whatever users write, edit, trash, remove and
\* create meanwhile, no change between the folder's first token and the stored one
\* has been passed over (executor.rs writes the row before run returns, and
\* update_page_token runs after it).  A folder in which files are renamed, or whose
\* cycles may be paused, does pass changes over.
THEOREM TokenHonestHolds ==
  ASSUME ~UserMayPause, RemoteOps \cap {"rename", "duplicate"} = {}
  PROVE  Spec /\ []DistinctIn(Path) => []TokenHonest
<1>1. Init /\ DistinctIn(Path) => TypeInv /\ HonestInv(Path)
  BY TypeInvInit, HonestInvInit
<1>2. TypeInv /\ HonestInv(Path) /\ [Next]_vars /\ DistinctIn(Path)' =>
        TypeInv' /\ HonestInv(Path)'
  BY TypeInvStep, HonestInvStep
<1>3. TypeInv /\ HonestInv(Path) => TokenHonest
  <2> SUFFICES ASSUME TypeInv, HonestInv(Path), token # None, NEW id \in FileId,
                      drive[id] # None, drive[id].rev \in (start + 1) .. token
               PROVE  /\ drive[id].status = "live" =>
                           HasRow(id, rows) /\ ~RemoteChanged(drive[id], rows[RowPath(id, rows)])
                      /\ drive[id].status = "removed" => ~HasRow(id, rows)
    BY DEF TokenHonest
  <2>1. /\ Exists(id) /\ drive[id].name \in Path /\ drive[id].rev \in Nat
        /\ token \in Nat /\ start \in Nat /\ RowInv /\ HonestUpTo(Path)
    BY DEF TypeInv, TypeOK, Exists, DriveFile, HonestInv, PhaseInv
  <2>2. Recorded(id)
    BY <2>1 DEF HonestUpTo, Due
  <2>3. CASE drive[id].status = "live"
    <3>1. HasRow(id, rows)
      BY <2>1, <2>2, <2>3 DEF Recorded, HasRow
    <3>2. RowPath(id, rows) = drive[id].name
      BY <2>1, <3>1, RowUnderName
    <3>3. QED
      BY <2>2, <2>3, <3>1, <3>2 DEF Recorded
  <2>4. CASE drive[id].status = "removed"
    BY <2>1, <2>2, <2>4, RowUnderName DEF Recorded
  <2>5. QED
    BY <2>3, <2>4
<1>4. QED
  BY <1>1, <1>2, <1>3, PTL DEF Spec

-----------------------------------------------------------------------------
(***************************************************************************)
(* One upload per name.  A lost answer leaves a live file without a row;   *)
(* what keeps the next cycle from making a second one is that the token    *)
(* has not passed the first, so the cycle lists it, and a listed file of   *)
(* an unknown name is downloaded, which replaces the upload in the merge.  *)
(* A stored token is past a file only when its row is there, and then its  *)
(* name is no new upload.                                                  *)
(***************************************************************************)

\* Names that only the daemon gives to Drive files.
Home == Path \ RemotePath

\* No live file has the name; the cycle knows of the file; the operation is this
\* action, and has not called Drive yet.
NoneLive(p) == \A j \in FileId : Exists(j) /\ drive[j].name = p => drive[j].status # "live"

Known(j) == HasRow(j, rows) \/ \E c \in changes : c.id = j

Begun(a) == op # None /\ op.action = a /\ op.stage \in {"begin", "read"}

\* Live files of these names are distinct, made after the folder's first token, and
\* known to a cycle before it scans; no upload is under way for the name of one.
HomeInv ==
  /\ DistinctIn(Home)
  /\ \A j \in FileId : Exists(j) /\ drive[j].name \in Home => token # None /\ start < drive[j].rev
  /\ \A j \in FileId : Exists(j) /\ drive[j].name \in Home /\ drive[j].status = "live" =>
       /\ phase = "fetch" => Known(j) \/ cursor < drive[j].rev
       /\ phase = "scan" => Known(j)
  /\ \A a \in SyncAction :
       (a \in queue \/ Begun(a)) /\ a.kind = "NewUpload" /\ a.path \in Home => NoneLive(a.path)

\* Files made in Home are made by the operation.
LEMMA FreshAtHome ==
  ASSUME NEW T, TypeInv, PhaseInv, RowInv, QueueInv(T), OpInv, StepKinds,
         NEW i \in FileId, ~Exists(i), Exists(i)', drive'[i].name \in Home
  PROVE  /\ op # None /\ op.action.kind = "NewUpload" /\ op.stage = "read"
         /\ drive'[i].name = op.action.path
         /\ phase = "execute" /\ UNCHANGED <<token, start>>
         /\ \/ phase' = "idle" /\ queue' = {} /\ op' = None
            \/ /\ UNCHANGED Queued /\ op' # None /\ op'.action = op.action
               /\ op'.stage \notin {"begin", "read"}
<1>1. (Drops \/ Works) /\ FreshByUpload
  BY FreshFile DEF FreshByUser, Exists, Home
<1>2. /\ op # None /\ op.action.kind = "NewUpload" /\ op.stage = "read"
      /\ drive'[i].name = op.action.path /\ phase = "execute"
  BY <1>1 DEF FreshByUpload, Exists, PhaseInv
<1>3. CASE Drops
  BY <1>2, <1>3 DEF Drops, Forget
<1>4. CASE Works
  <2>1. ~WorksAlone /\ ~WritesKnown
    BY <1>2 DEF WorksAlone, WritesKnown, server, Touches, Exists
  <2>2. QED
    BY <1>2, <1>4, <2>1 DEF Works, WritesNew
<1>5. QED
  BY <1>1, <1>3, <1>4

\* No upload is scanned for a name with a known live file.
LEMMA KnownNotUploaded ==
  ASSUME TypeInv, RowInv, ListingInv, Scan,
         NEW a \in queue', a.kind = "NewUpload",
         NEW j \in FileId, Exists(j), drive[j].name = a.path, drive[j].status = "live"
  PROVE  ~Known(j)
<1>1. rows[a.path] = None /\ Yielding(a.path) = {}
  BY ScannedAction DEF Carries, DownloadKinds
<1>2. ~HasRow(j, rows)
  BY <1>1, RowUnderName
<1>3. ASSUME NEW c \in changes, c.id = j
      PROVE  FALSE
  <2>1. ChangePath(c, rows) = a.path /\ c.status \in Statuses
    BY <1>3, ChangeOnName DEF DriveChange
  <2>2. c.status = "live"
    BY <1>3, <2>1 DEF ListingInv, Listed, Statuses
  <2>3. YieldsAction(c, rows)
    BY <1>1, <2>1, <2>2 DEF YieldsAction
  <2>4. QED
    BY <1>1, <1>3, <2>3 DEF Yielding
<1>4. QED
  BY <1>2, <1>3 DEF Known

\* A second live file of one name is never made.
LEMMA HomeDistinct ==
  ASSUME NEW T, TypeInv, TypeInv', DriveInv', PhaseInv, RowInv, QueueInv(T), OpInv, Onward,
         StepKinds, HomeInv
  PROVE  DistinctIn(Home)'
<1> SUFFICES ASSUME NEW i \in FileId, NEW j \in FileId, Exists(i)', Exists(j)',
                    drive'[i].status = "live", drive'[j].status = "live",
                    drive'[i].name = drive'[j].name, drive'[i].name \in Home
             PROVE  i = j
  BY DEF DistinctIn, Exists, TypeInv, TypeOK
<1>1. ASSUME NEW k \in FileId, NEW l \in FileId, ~Exists(k), Exists(k)', Exists(l),
             drive'[k].name = drive'[l].name, drive'[k].name \in Home
      PROVE  drive'[l].status # "live"
  <2>1. /\ Begun(op.action) /\ op.action \in SyncAction
        /\ op.action.kind = "NewUpload" /\ drive'[k].name = op.action.path
    BY <1>1, FreshAtHome DEF Begun, TypeInv, TypeOK, Operation
  <2>2. NoneLive(op.action.path)
    BY <1>1, <2>1 DEF HomeInv
  <2>3. QED
    BY <1>1, <2>1, <2>2 DEF NoneLive, Onward
<1>2. CASE Exists(i) /\ Exists(j)
  <2>1. /\ drive[i].name = drive'[i].name /\ drive[j].name = drive'[j].name
        /\ drive[i].status = "live" /\ drive[j].status = "live"
    BY <1>2 DEF Onward
  <2>2. drive[i] # None /\ drive[j] # None
    BY <1>2, CycleAssumption DEF Exists
  <2>3. QED
    BY <2>1, <2>2 DEF HomeInv, DistinctIn
<1>3. CASE ~Exists(i) /\ ~Exists(j)
  <2>1. drive'[i].rev = head + 1 /\ drive'[j].rev = head + 1
    BY <1>3 DEF Onward, Exists
  <2>2. QED
    BY <2>1 DEF DriveInv
<1>4. QED
  BY <1>1, <1>2, <1>3

\* The daemon makes files only after the folder has its first token.
LEMMA HomeStarted ==
  ASSUME NEW T, TypeInv, TypeInv', DriveInv, PhaseInv, RowInv, QueueInv(T), OpInv, Onward,
         StepKinds, HomeInv, NEW j \in FileId, Exists(j)', drive'[j].name \in Home
  PROVE  token' # None /\ start' < drive'[j].rev
<1>1. CASE Exists(j)
  <2>1. token # None /\ start < drive[j].rev /\ start \in Nat
    BY <1>1 DEF Onward, HomeInv, PhaseInv, TypeInv, TypeOK
  <2>2. token' # None /\ start' = start
    BY <2>1, NoneIsApart DEF TypeInv, TypeOK, StepKinds, Outside, Drops, Begins, FetchPage, Scan,
       Pop, QueueEmpty, AdvanceToken, Works, Records, RecordUpload, RecordDownload, DropRow, database
  <2>3. start < drive'[j].rev
    BY <1>1, <2>1, RevGrows
  <2>4. QED
    BY <2>2, <2>3
<1>2. CASE ~Exists(j)
  <2>1. phase = "execute" /\ UNCHANGED <<token, start>>
    BY <1>2, FreshAtHome
  <2>2. drive'[j].rev = head + 1
    BY <1>2 DEF Onward, Exists
  <2>3. /\ token # None /\ token \in Nat /\ start \in Nat /\ head \in Nat
        /\ start <= token /\ token <= head
    BY <2>1 DEF PhaseInv, TypeInv, TypeOK
  <2>4. QED
    BY <2>1, <2>2, <2>3
<1>3. QED
  BY <1>1, <1>2

\* A cycle that starts knows the files its token has passed, and lists the others.
LEMMA HomeListed ==
  ASSUME TypeInv, TypeInv', DriveInv, PhaseInv, RowInv, QueueInv(Home), OpInv, HonestUpTo(Home),
         Onward, StepKinds, HomeInv,
         NEW j \in FileId, Exists(j)', drive'[j].name \in Home, drive'[j].status = "live"
  PROVE  /\ phase' = "fetch" => Known(j)' \/ cursor' < drive'[j].rev
         /\ phase' = "scan" => Known(j)'
<1> SUFFICES ASSUME phase' \in {"fetch", "scan"}
             PROVE  Known(j)' \/ (phase' = "fetch" /\ cursor' < drive'[j].rev)
  OBVIOUS
<1>1. Exists(j)
  BY FreshAtHome DEF Queued
<1>2. /\ drive[j].name \in Home /\ drive[j].status = "live"
      /\ drive[j].rev \in Nat /\ cursor \in Nat /\ drive[j].rev <= drive'[j].rev
  BY <1>1, RevGrows DEF Onward, TypeInv, TypeOK
<1>3. CASE Outside
  <2>1. UNCHANGED <<phase, cursor, changes, rows>>
    BY <1>3 DEF Outside, memory
  <2>2. \/ phase = "fetch" /\ (Known(j) \/ cursor < drive[j].rev)
        \/ phase = "scan" /\ Known(j)
    BY <1>1, <1>2, <2>1 DEF HomeInv
  <2>3. Known(j) => Known(j)'
    BY <2>1 DEF Known
  <2>4. cursor < drive[j].rev => cursor' < drive'[j].rev
    BY <1>1, <2>1, RevGrows DEF TypeInv, TypeOK
  <2>5. QED
    BY <2>1, <2>2, <2>3, <2>4
<1>4. CASE Begins
  <2>1. token # None /\ token \in Nat /\ start < drive[j].rev
    BY <1>1, <1>2 DEF HomeInv, TypeInv, TypeOK
  <2>2. phase' = "fetch" /\ cursor' = token /\ UNCHANGED <<rows, drive>>
    BY <1>4, <2>1 DEF Begins, server
  <2>3. CASE drive[j].rev <= token
    <3>1. Recorded(j)
      BY <1>1, <1>2, <2>1, <2>3 DEF HonestUpTo, Due
    <3>2. HasRow(j, rows)
      BY <1>2, <3>1 DEF Recorded, HasRow, Home
    <3>3. QED
      BY <2>2, <3>2 DEF Known
  <2>4. QED
    BY <1>2, <2>1, <2>2, <2>3
<1>5. CASE FetchPage
  <2>1. /\ phase = "fetch" /\ UNCHANGED <<rows, drive>>
        /\ changes \subseteq changes' /\ cursor' \in Nat
        /\ cursor < drive[j].rev /\ drive[j].rev <= cursor' => Entry(j) \in changes'
        /\ phase' = "scan" => drive[j].rev <= cursor'
    BY <1>1, <1>5, PageFetched DEF server, TypeInv, TypeOK
  <2>2. CASE Known(j)
    BY <2>1, <2>2 DEF Known
  <2>3. CASE ~Known(j)
    <3>1. cursor < drive[j].rev
      BY <1>1, <1>2, <2>1, <2>3 DEF HomeInv
    <3>2. Entry(j).id = j
      BY DEF Entry
    <3>3. CASE drive[j].rev <= cursor'
      BY <2>1, <3>1, <3>2, <3>3 DEF Known
    <3>4. CASE ~(drive[j].rev <= cursor')
      BY <1>2, <2>1, <3>4
    <3>5. QED
      BY <3>3, <3>4
  <2>4. QED
    BY <2>2, <2>3
<1>6. CASE ~(Outside \/ Begins \/ FetchPage)
  BY <1>6 DEF PhaseInv, StepKinds, Drops, Forget, Scan, Pop, QueueEmpty, AdvanceToken, Works, Queued,
     Records, RecordUpload, RecordDownload, DropRow, At
<1>7. QED
  BY <1>3, <1>4, <1>5, <1>6

\* The names of new uploads, from the scan to the call.
LEMMA HomeUploads ==
  ASSUME TypeInv, TypeInv', PhaseInv, RowInv, ListingInv, QueueInv(Home), OpInv,
         Onward, StepKinds, HomeInv,
         NEW a \in SyncAction, a \in queue' \/ Begun(a)', a.kind = "NewUpload", a.path \in Home
  PROVE  NoneLive(a.path)'
<1>1. CASE Scan
  <2>1. phase = "scan" /\ UNCHANGED drive /\ a \in queue'
    BY <1>1 DEF Scan, server, PhaseInv, Begun
  <2>2. \A j \in FileId : Exists(j) /\ drive[j].name = a.path => drive[j].status # "live"
    BY <1>1, <2>1, KnownNotUploaded DEF HomeInv
  <2>3. QED
    BY <2>1, <2>2 DEF NoneLive, Exists
<1>2. CASE ~Scan
  <2>1. a \in queue \/ Begun(a)
    <3>1. CASE Works
      BY <3>1, NoneIsApart DEF Works, WorksAlone, WritesKnown, WritesNew, Queued, Begun
    <3>2. CASE Outside \/ Drops \/ Begins \/ QueueEmpty \/ AdvanceToken \/ Records
      BY <3>2 DEF Outside, memory, Drops, Forget, Begins, QueueEmpty, AdvanceToken, Records,
                  RecordUpload, RecordDownload, DropRow, Queued, Begun
    <3>3. CASE FetchPage
      BY <3>3 DEF FetchPage, Begun
    <3>4. CASE \E b \in queue : Pop(b)
      BY <3>4 DEF Pop, Begun
    <3>5. QED
      BY <1>2, <3>1, <3>2, <3>3, <3>4 DEF StepKinds
  <2>2. NoneLive(a.path)
    BY <2>1 DEF HomeInv
  <2>3. ASSUME NEW i \in FileId, ~Exists(i), Exists(i)', drive'[i].name = a.path
        PROVE  FALSE
    <3>1. /\ op # None /\ drive'[i].name = op.action.path
          /\ \/ queue' = {} /\ op' = None
             \/ UNCHANGED queue /\ op'.stage \notin {"begin", "read"}
      BY <2>3, FreshAtHome DEF Queued
    <3>2. a \in queue
      BY <3>1 DEF Begun
    <3>3. QED
      BY <2>3, <3>1, <3>2 DEF QueueInv
  <2>4. QED
    BY <2>2, <2>3 DEF NoneLive, Onward
<1>3. QED
  BY <1>1, <1>2

\* All of it under every step.
LEMMA HomeInvStep ==
  ASSUME ~UserMayPause, "rename" \notin RemoteOps, TypeInv, HonestInv(Home), HomeInv, [Next]_vars
  PROVE  HomeInv'
<1>1. TypeInv'
  BY TypeInvStep
<1>2. /\ ~pause /\ DriveInv /\ RowInv /\ PhaseInv /\ ListingInv
      /\ QueueInv(Home) /\ OpInv /\ HonestUpTo(Home)
  BY DEF HonestInv
<1>3. DriveInv' /\ Onward /\ StepKinds
  BY <1>1, <1>2, StepSorted
<1>4. DistinctIn(Home)'
  BY <1>1, <1>2, <1>3, HomeDistinct
<1>5. \A j \in FileId : Exists(j)' /\ drive'[j].name \in Home => token' # None /\ start' < drive'[j].rev
  BY <1>1, <1>2, <1>3, HomeStarted
<1>6. \A j \in FileId : Exists(j)' /\ drive'[j].name \in Home /\ drive'[j].status = "live" =>
        /\ phase' = "fetch" => Known(j)' \/ cursor' < drive'[j].rev
        /\ phase' = "scan" => Known(j)'
  BY <1>1, <1>2, <1>3, HomeListed
<1>7. \A a \in SyncAction : (a \in queue' \/ Begun(a)') /\ a.kind = "NewUpload" /\ a.path \in Home
        => NoneLive(a.path)'
  BY <1>1, <1>2, <1>3, HomeUploads
<1>8. QED
  BY <1>4, <1>5, <1>6, <1>7 DEF HomeInv, Home

\* The two invariants hold in every run: the names of Home need no hypothesis.
LEMMA HomeHolds ==
  ASSUME ~UserMayPause, "rename" \notin RemoteOps,
         \A i \in FileId : InitialDrive[i] # None => InitialDrive[i].name \in RemotePath
  PROVE  Spec => [](TypeInv /\ HonestInv(Home) /\ HomeInv)
<1>1. Init => TypeInv /\ HonestInv(Home) /\ HomeInv
  <2> SUFFICES ASSUME Init
               PROVE  TypeInv /\ HonestInv(Home) /\ HomeInv
    OBVIOUS
  <2>1. \A i \in FileId : drive[i] # None => drive[i].name \notin Home
    BY DEF Init, Home
  <2>2. \A i \in FileId : Exists(i) => drive[i].name \notin Home
    BY <2>1, CycleAssumption DEF Exists
  <2>3. DistinctIn(Home)
    BY <2>1 DEF DistinctIn
  <2>4. queue = {} /\ op = None
    BY DEF Init
  <2>5. HomeInv
    BY <2>2, <2>3, <2>4 DEF HomeInv, Begun
  <2>6. QED
    BY <2>3, <2>5, TypeInvInit, HonestInvInit
<1>2. TypeInv /\ HonestInv(Home) /\ HomeInv /\ [Next]_vars =>
        TypeInv' /\ HonestInv(Home)' /\ HomeInv'
  <2> SUFFICES ASSUME TypeInv, HonestInv(Home), HomeInv, [Next]_vars
               PROVE  TypeInv' /\ HonestInv(Home)' /\ HomeInv'
    OBVIOUS
  <2>1. HomeInv'
    BY HomeInvStep
  <2>2. DistinctIn(Home)'
    BY <2>1 DEF HomeInv
  <2>3. Home \cap RemotePath = {}
    BY DEF Home
  <2>4. QED
    BY <2>1, <2>2, <2>3, TypeInvStep, HonestInvStep
<1>3. QED
  BY <1>1, <1>2, PTL DEF Spec

\* Of the names that only the daemon gives to Drive files, no two live files of the
\* folder ever have one: not after a files.create whose answer was lost, a crash
\* before the row, a failed call, or a repeated cycle, whatever users do meanwhile
\* to the files.  (Files that were there before the folder was added are outside the
\* daemon's knowledge: none of them has such a name.)
THEOREM NoDuplicateUploadHolds ==
  ASSUME ~UserMayPause, "rename" \notin RemoteOps,
         \A i \in FileId : InitialDrive[i] # None => InitialDrive[i].name \in RemotePath
  PROVE  Spec => []NoDuplicateUpload
<1>1. Spec => [](TypeInv /\ HonestInv(Home) /\ HomeInv)
  BY HomeHolds
<1>2. HomeInv => NoDuplicateUpload
  BY DEF HomeInv, NoDuplicateUpload, Home
<1>3. QED
  BY <1>1, <1>2, PTL

\* For those names tokens are honest without any further hypothesis: between the
\* folder's first token and the stored one, every change of a file with such a name
\* is in its row.
THEOREM HomeTokenHonest ==
  ASSUME ~UserMayPause, "rename" \notin RemoteOps,
         \A i \in FileId : InitialDrive[i] # None => InitialDrive[i].name \in RemotePath
  PROVE  Spec => [](token # None => \A id \in FileId : Due(Home, id, token) => Recorded(id))
<1>1. Spec => [](TypeInv /\ HonestInv(Home) /\ HomeInv)
  BY HomeHolds
<1>2. HonestInv(Home) => (token # None => \A id \in FileId : Due(Home, id, token) => Recorded(id))
  BY DEF HonestInv, HonestUpTo
<1>3. QED
  BY <1>1, <1>2, PTL


-----------------------------------------------------------------------------
(***************************************************************************)
(* Conflicts.  The merge turns a download over an edited file into a       *)
(* conflict only when no other change of the cycle is about its path, and  *)
(* execute_one does not look at the file again.  Where neither bites, a    *)
(* download finds the content its row knows, and a conflict keeps a copy.  *)
(***************************************************************************)

\* Of the changes a cycle has listed, no two yield actions on one path.
OneChangePerPath ==
  phase = "scan" =>
    \A c, d \in changes :
      /\ YieldsAction(c, rows) /\ YieldsAction(d, rows)
      /\ ChangePath(c, rows) = ChangePath(d, rows)
      => c = d

\* The file, if there, holds what its row knows, if there.
AsRecorded(p) == rows[p] # None /\ local[p] # None => local[p].md5 = rows[p].localMd5

\* One action for each path.
PathsApart ==
  /\ phase # "execute" => queue = {} /\ op = None
  /\ \A a, b \in queue : a.path = b.path => a = b
  /\ op # None => \A a \in queue : a.path # op.action.path

\* A file that waits for a download is as recorded until it is replaced.
DownloadsKnown ==
  /\ \A a \in queue : a.kind \in DownloadKinds => AsRecorded(a.path)
  /\ op # None /\ op.action.kind \in DownloadKinds /\ op.stage # "written" =>
       AsRecorded(op.action.path)

\* The conflict's copy holds what the file does until the file is replaced.
CopyKept ==
  op # None /\ op.action.kind = "Conflict" =>
    LET p == op.action.path
    IN  /\ op.stage = "read" /\ local[p] # None => op.content = local[p].md5
        /\ op.stage \in {"copied", "fetched"} =>
             /\ op.copy \in Path /\ op.copy # p
             /\ local[p] # None => local[op.copy] # None /\ local[op.copy].md5 = local[p].md5

\* A path has been written before it has a row, so no copy is made over a row.
RowsWritten ==
  /\ \A p \in Path : rows[p] # None => writes[p] > 0
  /\ op # None /\ op.stage \in {"read", "sent", "written"} => writes[op.action.path] > 0

ConflictInv == PathsApart /\ DownloadsKnown /\ CopyKept /\ RowsWritten

\* The merge of a cycle without two changes on one path.
LEMMA AloneOnPath ==
  ASSUME TypeInv, OneChangePerPath, phase = "scan",
         NEW d \in ComputeRemoteChanges(changes, rows)
  PROVE  OnPath(ComputeRemoteChanges(changes, rows), d.path) = {d}
<1>1. \A c \in changes : RemoteAction(c, rows).path = ChangePath(c, rows)
  BY DEF RemoteAction, FromChange
<1>2. QED
  BY <1>1 DEF OneChangePerPath, ComputeRemoteChanges, OnPath

\* Resolving keeps the path, and a download that stays one.
LEMMA ResolvedOnPath ==
  ASSUME TypeInv, NEW d \in ComputeRemoteChanges(changes, rows),
         NEW a, a = Resolve(d, ComputeLocalChanges(local, rows), ComputeRemoteChanges(changes, rows))
  PROVE  a.path = d.path /\ (a.kind \in DownloadKinds => a = d)
<1>1. d \in SyncAction
  BY RemoteActionsOK
<1>2. CASE a = d
  BY <1>2
<1>3. CASE \E u : a = Conflict(u, d)
  <2>1. a.path = d.path /\ a.kind = "Conflict"
    BY <1>1, <1>3 DEF Conflict, SyncAction
  <2>2. QED
    BY <2>1 DEF DownloadKinds
<1>4. QED
  BY <1>2, <1>3 DEF Resolve

\* So the merge keeps one action for each path.
LEMMA MergedApart ==
  ASSUME TypeInv, OneChangePerPath, Scan, NEW a \in queue', NEW b \in queue', a.path = b.path
  PROVE  a = b
<1> DEFINE L == ComputeLocalChanges(local, rows)
           R == ComputeRemoteChanges(changes, rows)
<1>1. \A x \in queue' : \/ x \in L /\ OnPath(R, x.path) = {}
                        \/ \E d \in R : x = Resolve(d, L, R) /\ x.path = d.path
  BY ResolvedOnPath DEF Scan, MergeActions
<1>2. \A x, y \in L : x.path = y.path => x = y
  BY DEF ComputeLocalChanges, FromLocal
<1>3. \A d, e \in R : d.path = e.path => d = e
  BY AloneOnPath DEF Scan, OnPath
<1>4. \A d \in R : OnPath(R, d.path) # {}
  BY DEF OnPath
<1>5. QED
  BY <1>1, <1>2, <1>3, <1>4

\* A download the merge leaves is over a file as its row knows it.
LEMMA MergedKnown ==
  ASSUME TypeInv, OneChangePerPath, Scan, NEW a \in queue', a.kind \in DownloadKinds
  PROVE  AsRecorded(a.path)
<1> DEFINE L == ComputeLocalChanges(local, rows)
           R == ComputeRemoteChanges(changes, rows)
<1>1. PICK d \in R : a = Resolve(d, L, R)
  <2>1. \A u \in L : u.kind \notin DownloadKinds
    BY DEF ComputeLocalChanges, FromLocal, DownloadKinds
  <2>2. QED
    BY <2>1 DEF Scan, MergeActions
<1>2. a = d /\ OnPath(R, a.path) = {a}
  BY <1>1, ResolvedOnPath, AloneOnPath DEF Scan
<1>3. a.path \in Path
  BY <1>2, RemoteActionsOK DEF SyncAction
<1>4. ASSUME rows[a.path] # None, local[a.path] # None, LocalChanged(local[a.path], rows[a.path])
      PROVE  FALSE
  <2>1. PICK c \in changes : YieldsAction(c, rows) /\ a = RemoteAction(c, rows)
    BY <1>2 DEF ComputeRemoteChanges
  <2>2. a.path = ChangePath(c, rows) /\ a.kind = RemoteKind(c, rows)
    BY <2>1 DEF RemoteAction, FromChange
  <2>3. a.kind = "UpdateDownload"
    BY <1>4, <2>2 DEF RemoteKind, DownloadKinds
  <2> DEFINE u == FromLocal("UpdateUpload", a.path, rows[a.path], local[a.path].md5,
                            local[a.path].mtime)
  <2>4. u \in L /\ u.path = a.path /\ u.kind = "UpdateUpload"
    BY <1>3, <1>4 DEF ComputeLocalChanges, FromLocal
  <2>5. \E v : a = Conflict(v, d)
    BY <1>1, <1>2, <2>3, <2>4 DEF Resolve, OnPath
  <2>6. a.kind = "Conflict"
    BY <1>2, <2>5, RemoteActionsOK DEF Conflict, SyncAction
  <2>7. QED
    BY <2>6 DEF DownloadKinds
<1>5. QED
  BY <1>4 DEF AsRecorded, LocalChanged

\* Steps that end the cycle, or are taken between cycles.
LEMMA NothingUnderWay ==
  ASSUME TypeInv, TypeInv', FilesAge, RowsWritten, UNCHANGED rows, queue' = {}, op' = None
  PROVE  ConflictInv'
<1>1. \A p \in Path : rows'[p] # None => writes'[p] > 0
  BY DEF TypeInv, TypeOK, FilesAge, RowsWritten
<1>2. QED
  BY <1>1 DEF ConflictInv, PathsApart, DownloadsKnown, CopyKept, RowsWritten

\* The operation goes on without touching a local file.
LEMMA FilesLeftAlone ==
  ASSUME TypeInv, TypeInv', ConflictInv, UNCHANGED <<files, rows, queue, phase>>,
         op # None, op' # None, op'.action = op.action, op.stage # "written",
         op'.action.kind = "Conflict" =>
           \/ op'.stage = "read" /\ op'.content = local[op.action.path].md5
           \/ op.stage = "copied" /\ op'.stage = "fetched" /\ op'.copy = op.copy,
         op'.stage \in {"read", "sent", "written"} => writes[op.action.path] > 0
  PROVE  ConflictInv'
<1> USE DEF ConflictInv, files
<1>1. PathsApart'
  BY DEF PathsApart
<1>2. DownloadsKnown'
  BY DEF DownloadsKnown, AsRecorded
<1>3. CopyKept'
  BY DEF CopyKept
<1>4. RowsWritten'
  BY DEF RowsWritten
<1>5. QED
  BY <1>1, <1>2, <1>3, <1>4

\* Users leave what a cycle knows alone.
LEMMA ConflictUsers ==
  ASSUME "execute" \notin EditPhases, TypeInv, TypeInv', FilesAge, ConflictInv,
         Users \/ SetFolderPaused \/ UNCHANGED vars
  PROVE  ConflictInv'
<1> USE DEF database, memory, files, vars, control
<1>1. UNCHANGED <<rows, memory>>
  BY DEF Users, UserWrites, UserDeletes, RemoteCreates, RemoteEdits, RemoteRenames, RemoteTrashes,
         RemoteRemoves, PauseFlag, ResumeFlag, SetFolderPaused
<1>2. CASE phase = "execute"
  <2>1. UNCHANGED <<local, writes>>
    BY <1>2 DEF Users, UserWrites, UserDeletes, RemoteCreates, RemoteEdits, RemoteRenames,
           RemoteTrashes, RemoteRemoves, PauseFlag, ResumeFlag, SetFolderPaused
  <2>2. QED
    BY <1>1, <2>1 DEF ConflictInv, PathsApart, DownloadsKnown, CopyKept, RowsWritten, AsRecorded
<1>3. CASE phase # "execute"
  <2>1. queue' = {} /\ op' = None
    BY <1>1, <1>3 DEF ConflictInv, PathsApart
  <2>2. QED
    BY <1>1, <2>1, NothingUnderWay DEF ConflictInv
<1>4. QED
  BY <1>2, <1>3

\* The cycle around its operations.
LEMMA ConflictCycle ==
  ASSUME TypeInv, TypeInv', FilesAge, OneChangePerPath, ConflictInv,
         \/ FirstCycle \/ StartCycle \/ FetchPage \/ Scan
         \/ (\E a \in queue : Pop(a)) \/ StopForPause \/ QueueEmpty \/ AdvanceToken
         \/ Fail \/ Faults
  PROVE  ConflictInv'
<1> USE DEF database, files
<1>1. CASE \/ FirstCycle \/ StartCycle \/ FetchPage \/ StopForPause \/ QueueEmpty \/ AdvanceToken
           \/ Fail \/ Faults
  <2>1. UNCHANGED rows /\ queue' = {} /\ op' = None
    BY <1>1 DEF ConflictInv, PathsApart, FirstCycle, StartCycle, FetchPage, StopForPause, QueueEmpty,
                AdvanceToken, Fail, Faults, CallFails, Crash, Forget
  <2>2. QED
    BY <2>1, NothingUnderWay DEF ConflictInv
<1>2. CASE Scan
  <2>1. UNCHANGED <<local, writes, rows>> /\ op' = None /\ phase' = "execute"
    BY <1>2 DEF Scan, ConflictInv, PathsApart
  <2>2. PathsApart'
    BY <1>2, <2>1, MergedApart DEF PathsApart
  <2>3. \A a \in queue' : a.kind \in DownloadKinds => AsRecorded(a.path)'
    BY <1>2, <2>1, MergedKnown DEF AsRecorded
  <2>4. QED
    BY <2>1, <2>2, <2>3 DEF ConflictInv, DownloadsKnown, CopyKept, RowsWritten
<1>3. ASSUME NEW a \in queue, Pop(a)
      PROVE  ConflictInv'
  <2>1. /\ UNCHANGED <<local, writes, rows>> /\ phase' = "execute" /\ queue' = queue \ {a}
        /\ op'.action = a /\ op'.stage = "begin"
    BY <1>3 DEF Pop
  <2>2. PathsApart' /\ DownloadsKnown'
    BY <2>1 DEF ConflictInv, PathsApart, DownloadsKnown, AsRecorded
  <2>3. QED
    BY <2>1, <2>2 DEF ConflictInv, CopyKept, RowsWritten
<1>4. QED
  BY <1>1, <1>2, <1>3

\* The stages of the operation that leave local files alone.
LEMMA ConflictStages ==
  ASSUME TypeInv, TypeInv', FilesAge, MtimesBounded, OneChangePerPath, ConflictInv,
         \/ ReadLocalFile \/ FetchContent \/ UpdateRemoteFile \/ DeleteRemoteFile
         \/ \E id \in FileId : CreateRemoteFile(id)
  PROVE  ConflictInv'
<1> DEFINE p == op.action.path
<1>1. /\ op # None /\ op \in Operation /\ p \in Path /\ UNCHANGED <<files, rows>>
      /\ op.stage \in {"begin", "read", "copied"}
  BY DEF ReadLocalFile, FetchContent, UpdateRemoteFile, DeleteRemoteFile, CreateRemoteFile, At, Fail,
         database, TypeInv, TypeOK, Operation, SyncAction
<1>2. CASE queue' = {} /\ op' = None
  BY <1>1, <1>2, NothingUnderWay DEF ConflictInv
<1>3. CASE ReadLocalFile /\ ~Fail
  <2>1. /\ local[p] # None /\ op' = [op EXCEPT !.stage = "read", !.content = local[p].md5]
        /\ UNCHANGED Queued
    BY <1>3 DEF ReadLocalFile
  <2>2. /\ op'.action = op.action /\ op'.stage = "read" /\ op'.content = local[p].md5
        /\ op' \in Operation
    BY <1>1, <2>1, NextStage DEF TypeInv, TypeOK, LocalFileMeta, Operation, Stages
  <2>3. writes[p] > 0
    BY <1>1, <2>1 DEF MtimesBounded, TypeInv, TypeOK
  <2>4. QED
    BY <1>1, <2>1, <2>2, <2>3, NoneIsApart, FilesLeftAlone DEF Queued
<1>4. ASSUME NEW op1 \in Operation, AnsweredOrLost(op1), op1.action = op.action,
             op1.stage = "dropped" \/ (op1.stage = "sent" /\ op.stage = "read"),
             op.action.kind # "Conflict"
      PROVE  ConflictInv'
  <2>1. CASE op' = op1 /\ UNCHANGED Queued
    <3>1. op1.stage = "sent" => writes[p] > 0
      BY <1>1, <1>4 DEF ConflictInv, RowsWritten
    <3>2. QED
      BY <1>1, <1>4, <2>1, <3>1, NoneIsApart, FilesLeftAlone DEF Queued
  <2>2. QED
    BY <1>2, <1>4, <2>1 DEF AnsweredOrLost, Forget
<1>5. CASE FetchContent /\ ~Fail
  <2>1. /\ op' = [op EXCEPT !.stage = "fetched", !.server = drive[op.action.file.id].md5]
        /\ UNCHANGED Queued
        /\ op.action.kind = "Conflict" => op.stage = "copied"
        /\ op.action.kind \in DownloadKinds \cup {"Conflict"}
    BY <1>5 DEF FetchContent, At, DownloadKinds
  <2>2. op'.action = op.action /\ op'.stage = "fetched" /\ op'.copy = op.copy
    BY <1>1, <2>1 DEF Operation
  <2>3. op' # None
    <3>1. drive[op.action.file.id].md5 \in Content
      BY <1>1, <2>1 DEF TypeInv, References, WellFormed, Exists, DriveFile
    <3>2. op' \in Operation
      BY <1>1, <2>1, <3>1, NextStage DEF Stages
    <3>3. QED
      BY <3>2, NoneIsApart
  <2>4. QED
    BY <1>1, <2>1, <2>2, <2>3, FilesLeftAlone DEF Queued
<1>6. ASSUME NEW id \in FileId, At("read", UploadKinds),
             AnsweredOrLost([op EXCEPT !.stage = "sent", !.file = UploadAnswer(id, p, op.content)])
      PROVE  ConflictInv'
  <2> DEFINE answer == UploadAnswer(id, p, op.content)
             op1 == [op EXCEPT !.stage = "sent", !.file = answer]
  <2>1. answer \in Response
    BY <1>1, <1>6 DEF UploadAnswer, Response, NoTime, At, TypeInv, TypeOK, References, StageOK
  <2>2. op1 \in Operation /\ op1.action = op.action /\ op1.stage = "sent"
    <3>1. op1 \in Operation
      BY <1>1, <2>1, OperationOK DEF Stages
    <3>2. QED
      BY <1>1, <3>1 DEF Operation
  <2>3. AnsweredOrLost(op1) /\ op.stage = "read" /\ op.action.kind # "Conflict"
    BY <1>6 DEF At, UploadKinds
  <2> HIDE DEF op1
  <2>4. QED
    BY <1>4, <2>2, <2>3
<1>7. ASSUME NEW id \in FileId, CreateRemoteFile(id)
      PROVE  ConflictInv'
  BY <1>6, <1>7 DEF CreateRemoteFile, At, UploadKinds
<1>8. CASE UpdateRemoteFile /\ ~Fail
  <2>1. op.action.state.id \in FileId
    BY <1>8 DEF UpdateRemoteFile, At, TypeInv, References, WellFormed, FileState
  <2>2. QED
    BY <1>6, <1>8, <2>1 DEF UpdateRemoteFile, At, UploadKinds
<1>9. CASE DeleteRemoteFile /\ ~Fail
  <2> DEFINE op1 == [op EXCEPT !.stage = "dropped"]
  <2>1. op1 \in Operation /\ op1.action = op.action /\ op1.stage = "dropped"
    <3>1. op1 \in Operation
      BY <1>1, OperationOK DEF Stages
    <3>2. QED
      BY <1>1, <3>1 DEF Operation
  <2>2. AnsweredOrLost(op1) /\ op.action.kind # "Conflict"
    BY <1>9 DEF DeleteRemoteFile, At
  <2> HIDE DEF op1
  <2>3. QED
    BY <1>4, <2>1, <2>2
<1>10. CASE Fail
  BY <1>10, ConflictCycle
<1>11. QED
  BY <1>3, <1>5, <1>7, <1>8, <1>9, <1>10

\* The stages that write or remove a local file.
LEMMA ConflictWrites ==
  ASSUME TypeInv, TypeInv', FilesAge, OneChangePerPath, ConflictInv,
         WriteConflictCopy \/ WriteDownload \/ DeleteLocalFile
  PROVE  ConflictInv'
<1> DEFINE p == op.action.path
<1>1. /\ op # None /\ op \in Operation /\ p \in Path
      /\ local \in [Path -> LocalFileMeta \cup {None}] /\ writes \in [Path -> Nat]
      /\ UNCHANGED rows
  BY DEF WriteConflictCopy, WriteDownload, DeleteLocalFile, At, Fail, database,
         TypeInv, TypeOK, Operation, SyncAction
<1>2. \A q \in Path : writes'[q] >= writes[q] /\ writes'[q] \in Nat
  BY DEF FilesAge, TypeInv, TypeOK
<1>3. ASSUME UNCHANGED Queued, op' # None, op'.action = op.action,
             NEW q \in Path, \A r \in Path : r # q => local'[r] = local[r],
             q = p \/ rows[q] = None,
             op.action.kind \in DownloadKinds => op'.stage = "written",
             op'.stage = "written" => writes'[p] > 0,
             op'.stage \notin {"read", "sent"},
             op.action.kind = "Conflict" /\ op'.stage # "written" => CopyKept'
      PROVE  ConflictInv'
  <2>1. PathsApart'
    BY <1>1, <1>3 DEF ConflictInv, PathsApart, Queued
  <2>2. DownloadsKnown'
    <3>1. ASSUME NEW a \in queue, a.kind \in DownloadKinds
          PROVE  AsRecorded(a.path)'
      <4>1. a.path \in Path /\ a.path # p /\ AsRecorded(a.path)
        BY <1>1, <3>1 DEF ConflictInv, PathsApart, DownloadsKnown, TypeInv, TypeOK, SyncAction
      <4>2. QED
        BY <1>1, <1>3, <4>1 DEF AsRecorded
    <3>2. QED
      BY <1>3, <3>1 DEF DownloadsKnown, Queued
  <2>3. CopyKept'
    BY <1>3 DEF CopyKept
  <2>4. RowsWritten'
    BY <1>1, <1>2, <1>3 DEF ConflictInv, RowsWritten, TypeInv, TypeOK
  <2>5. QED
    BY <2>1, <2>2, <2>3, <2>4 DEF ConflictInv
<1>4. CASE WriteConflictCopy
  <2>1. PICK q \in Path : /\ FreshCopy(q) /\ WriteFile(q, op.content)
                          /\ op' = [op EXCEPT !.stage = "copied", !.copy = q]
    BY <1>4 DEF WriteConflictCopy
  <2>2. /\ op.stage = "read" /\ op.action.kind = "Conflict" /\ op.content \in Content
        /\ UNCHANGED Queued
    BY <1>4 DEF WriteConflictCopy, At, TypeInv, References, StageOK
  <2>3. /\ op'.action = op.action /\ op'.stage = "copied" /\ op'.copy = q /\ op' # None
    BY <1>1, <2>1, NextStage, NoneIsApart DEF Operation, Stages
  <2>4. q # p /\ rows[q] = None
    BY <1>1, <2>1, <2>2 DEF FreshCopy, ConflictInv, RowsWritten
  <2>5. /\ local'[q] # None /\ local'[q].md5 = op.content
        /\ \A r \in Path : r # q => local'[r] = local[r]
    <3>1. local' = [local EXCEPT ![q] = [md5 |-> op.content, mtime |-> writes[q] + 1]]
      BY <2>1 DEF WriteFile
    <3>2. local'[q] = [md5 |-> op.content, mtime |-> writes[q] + 1]
      BY <1>1, <3>1
    <3>3. local'[q] \in LocalFileMeta
      BY <1>1, <2>2, <3>2 DEF LocalFileMeta
    <3>4. QED
      BY <1>1, <3>1, <3>2, <3>3, NoneIsApart
  <2>6. CopyKept'
    BY <1>1, <2>1, <2>2, <2>3, <2>4, <2>5 DEF ConflictInv, CopyKept
  <2>7. QED
    BY <1>3, <2>2, <2>3, <2>4, <2>5, <2>6 DEF DownloadKinds
<1>5. CASE WriteDownload
  <2>1. /\ WriteFile(p, op.server) /\ UNCHANGED Queued /\ op' = [op EXCEPT !.stage = "written"]
    BY <1>5 DEF WriteDownload
  <2>2. op'.action = op.action /\ op'.stage = "written" /\ op' # None
    BY <1>1, <2>1, NextStage, NoneIsApart DEF Stages
  <2>3. writes'[p] > 0 /\ \A r \in Path : r # p => local'[r] = local[r]
    BY <1>1, <2>1 DEF WriteFile
  <2>4. QED
    BY <1>1, <1>3, <2>1, <2>2, <2>3
<1>6. CASE DeleteLocalFile /\ ~Fail
  <2>1. /\ local' = [local EXCEPT ![p] = None] /\ op' = [op EXCEPT !.stage = "dropped"]
        /\ UNCHANGED Queued /\ op.action.kind = "DeleteLocal"
    BY <1>6 DEF DeleteLocalFile, At
  <2>2. op'.action = op.action /\ op'.stage = "dropped" /\ op' # None
    BY <1>1, <2>1, NextStage, NoneIsApart DEF Stages
  <2>3. \A r \in Path : r # p => local'[r] = local[r]
    BY <1>1, <2>1
  <2>4. QED
    BY <1>1, <1>3, <2>1, <2>2, <2>3 DEF DownloadKinds
<1>7. CASE Fail
  BY <1>7, ConflictCycle
<1>8. QED
  BY <1>4, <1>5, <1>6, <1>7

\* The row of an operation.
LEMMA ConflictRecords ==
  ASSUME TypeInv, TypeInv', ConflictInv, Records
  PROVE  ConflictInv'
<1> DEFINE p == op.action.path
<1>1. /\ op # None /\ op' = None /\ p \in Path /\ UNCHANGED <<files, Queued>>
      /\ \A q \in Path : q # p => rows'[q] = rows[q]
      /\ rows'[p] # None => op.stage \in {"sent", "written"}
  BY DEF Records, RecordUpload, RecordDownload, DropRow, At, TypeInv, TypeOK, Operation, SyncAction
<1>2. PathsApart'
  BY <1>1 DEF ConflictInv, PathsApart, Queued
<1>3. ASSUME NEW a \in queue, a.kind \in DownloadKinds
      PROVE  AsRecorded(a.path)'
  <2>1. a.path \in Path /\ a.path # p /\ AsRecorded(a.path)
    BY <1>1, <1>3 DEF ConflictInv, PathsApart, DownloadsKnown, TypeInv, TypeOK, SyncAction
  <2>2. QED
    BY <1>1, <2>1 DEF AsRecorded, files
<1>4. \A q \in Path : rows'[q] # None => writes'[q] > 0
  BY <1>1 DEF ConflictInv, RowsWritten, files
<1>5. QED
  BY <1>1, <1>2, <1>3, <1>4 DEF ConflictInv, DownloadsKnown, CopyKept, RowsWritten, Queued

\* All of it under every step.
LEMMA ConflictInvStep ==
  ASSUME "execute" \notin EditPhases, TypeInv, StampInv, ConflictInv, OneChangePerPath, [Next]_vars
  PROVE  ConflictInv'
<1>1. TypeInv' /\ FilesAge /\ MtimesBounded
  BY TypeInvStep, StepAges DEF StampInv
<1>2. CASE Users \/ SetFolderPaused \/ UNCHANGED vars
  BY <1>1, <1>2, ConflictUsers
<1>3. CASE \/ FirstCycle \/ StartCycle \/ FetchPage \/ Scan
           \/ (\E a \in queue : Pop(a)) \/ StopForPause \/ QueueEmpty \/ AdvanceToken
           \/ Faults
  BY <1>1, <1>3, ConflictCycle
<1>4. CASE \/ ReadLocalFile \/ FetchContent \/ UpdateRemoteFile \/ DeleteRemoteFile
           \/ \E id \in FileId : CreateRemoteFile(id)
  BY <1>1, <1>4, ConflictStages
<1>5. CASE WriteConflictCopy \/ WriteDownload \/ DeleteLocalFile
  BY <1>1, <1>5, ConflictWrites
<1>6. CASE Records
  BY <1>1, <1>6, ConflictRecords
<1>7. QED
  BY <1>2, <1>3, <1>4, <1>5, <1>6 DEF Next, Daemon, Records

\* A step that replaces a file that is there finds it as recorded or copied.
LEMMA ReplacedIsKept ==
  ASSUME TypeInv, TypeInv', MtimesBounded, ConflictInv, Daemon, NEW p \in Path, NEW c \in Content,
         rows[p] # None, local'[p] # None
  PROVE  ~Destroys(p, c)
<1> SUFFICES ASSUME local[p] # None, local[p].md5 = c, local'[p] # local[p],
                    rows[p].localMd5 # c, ~KeptLocally(c)'
             PROVE  FALSE
  BY DEF Destroys
<1>1. local \in [Path -> LocalFileMeta \cup {None}] /\ writes \in [Path -> Nat]
  BY DEF TypeInv, TypeOK
<1>2. CASE WriteConflictCopy
  <2>1. PICK q \in Path : FreshCopy(q) /\ WriteFile(q, op.content)
    BY <1>2 DEF WriteConflictCopy
  <2>2. local[q] = None
    BY <1>1, <2>1 DEF FreshCopy, MtimesBounded
  <2>3. QED
    BY <1>1, <2>1, <2>2 DEF WriteFile
<1>3. CASE WriteDownload
  <2>1. /\ op # None /\ op.stage = "fetched" /\ op.action.kind \in DownloadKinds \cup {"Conflict"}
        /\ WriteFile(op.action.path, op.server)
    BY <1>3 DEF WriteDownload, At
  <2>2. p = op.action.path /\ \A q \in Path : q # p => local'[q] = local[q]
    BY <1>1, <2>1 DEF WriteFile
  <2>3. CASE op.action.kind \in DownloadKinds
    BY <2>1, <2>2, <2>3 DEF ConflictInv, DownloadsKnown, AsRecorded
  <2>4. CASE op.action.kind = "Conflict"
    <3>1. op.copy \in Path /\ op.copy # p /\ local[op.copy] # None /\ local[op.copy].md5 = c
      BY <2>1, <2>2, <2>4 DEF ConflictInv, CopyKept
    <3>2. QED
      BY <2>2, <3>1 DEF KeptLocally
  <2>5. QED
    BY <2>1, <2>3, <2>4
<1>4. CASE DeleteLocalFile
  BY <1>1, <1>4 DEF DeleteLocalFile, Fail, files
<1>5. CASE ~(WriteConflictCopy \/ WriteDownload \/ DeleteLocalFile)
  BY <1>5 DEF Daemon, SetFolderPaused, FirstCycle, StartCycle, FetchPage, Scan, Pop, StopForPause,
     QueueEmpty, AdvanceToken, ReadLocalFile, CreateRemoteFile, UpdateRemoteFile, RecordUpload,
     FetchContent, RecordDownload, DeleteRemoteFile, DropRow, Fail, files
<1>6. QED
  BY <1>2, <1>3, <1>4, <1>5

\* While local users are quiet between the scan and the end of a cycle, and no two
\* listed changes are about one path, no download over a file with a row destroys
\* its content: it is what the row knows, or a conflict copy holds it (executor.rs
\* writes the copy before it fetches).  Users may edit in every other phase, both
\* sides may change anything else, and cycles may fail, crash and be paused.
THEOREM ConflictPolicyHolds ==
  ASSUME "execute" \notin EditPhases
  PROVE  Spec /\ []OneChangePerPath => ConflictPolicy
<1>1. Init => DivergenceInv /\ ConflictInv
  BY DivergenceInvInit DEF Init, ConflictInv, PathsApart, DownloadsKnown, CopyKept, RowsWritten
<1>2. DivergenceInv /\ ConflictInv /\ OneChangePerPath /\ [Next]_vars =>
        DivergenceInv' /\ ConflictInv'
  BY DivergenceInvStep, ConflictInvStep DEF DivergenceInv
<1>3. DivergenceInv /\ ConflictInv /\ [Next]_vars =>
        [Daemon => \A p \in Path, c \in Content :
                     rows[p] # None /\ local'[p] # None => ~Destroys(p, c)]_vars
  BY TypeInvStep, ReplacedIsKept DEF DivergenceInv, StampInv
<1>4. QED
  BY <1>1, <1>2, <1>3, PTL DEF Spec, ConflictPolicy

-----------------------------------------------------------------------------
(***************************************************************************)
(* Traffic.  A difference between a file, its row and Drive's copy makes   *)
(* the engine write to Drive at most so often: once for a local side that  *)
(* looks changed, and once for a change of Drive's side, because the       *)
(* engine uploads what it has just downloaded.  Debt is what the present   *)
(* state still owes.  Users and faults add to it, every write of the       *)
(* daemon takes from it, and no other step adds to it.                     *)
(***************************************************************************)

\* The next scan takes the file of p for a new, changed or deleted one.
LocalAhead(p) ==
  \/ local[p] = None /\ rows[p] # None
  \/ local[p] # None /\ rows[p] = None
  \/ local[p] # None /\ rows[p] # None /\ LocalChanged(local[p], rows[p])

\* The file is not what the scan before this upload saw.
Moved(a) ==
  \/ local[a.path] = None
  \/ local[a.path].md5 # a.md5
  \/ local[a.path].mtime # a.mtime

\* Live files named p that changed after the stored token.
Late(p) ==
  {i \in FileId : /\ Exists(i) /\ drive[i].status = "live" /\ drive[i].name = p
                  /\ token # None /\ token < drive[i].rev}

\* One write is owed for ...
LocalDebt(p) == IF LocalAhead(p) THEN 1 ELSE 0
FileDebt(p) == IF local[p] # None THEN 1 ELSE 0
MovedDebt(a) == IF Moved(a) THEN 1 ELSE 0
LateDebt(p) == IF Late(p) # {} THEN 1 ELSE 0
OtherDebt(p, id) == IF \E i \in Late(p) : i # id THEN 1 ELSE 0

\* ... a late file that the row of its name does not show ...
RowDebt(p) ==
  IF \E i \in Late(p) : rows[p] = None \/ rows[p].id # i \/ RemoteChanged(drive[i], rows[p])
  THEN 1 ELSE 0

\* ... or would not show if it were written from this entry or answer.
NewerDebt(p, f) ==
  IF \E i \in Late(p) : i # f.id \/ drive[i].md5 # f.md5 \/ drive[i].modified # f.modified
  THEN 1 ELSE 0

\* What a path owes that the cycle does not have in hand.
Unsettled(p) == LocalDebt(p) + RowDebt(p)

Larger(m, n) == IF m <= n THEN n ELSE m

\* What is owed when this action is executed, or dropped before it has an effect.
ActionCost(a) ==
  CASE a.kind \in UploadKinds -> 1 + MovedDebt(a) + RowDebt(a.path)
    [] a.kind \in DownloadKinds -> Larger(Unsettled(a.path), 1 + NewerDebt(a.path, a.file))
    [] a.kind = "Conflict" -> 2 + NewerDebt(a.path, a.file)
    [] a.kind = "DeleteRemote" ->
         Larger(Unsettled(a.path), 1 + FileDebt(a.path) + OtherDebt(a.path, a.state.id))
    [] a.kind = "DeleteLocal" -> Larger(Unsettled(a.path), LateDebt(a.path))

\* What is left of that at each stage of the operation.
OpCost(o) ==
  CASE o.stage \in {"begin", "read"} -> ActionCost(o.action)
    [] o.stage = "sent" -> MovedDebt(o.action) + NewerDebt(o.action.path, o.file)
    [] o.stage \in {"copied", "fetched", "written"} ->
         1 + NewerDebt(o.action.path, o.action.file)
    [] o.stage = "dropped" -> FileDebt(o.action.path) + LateDebt(o.action.path)

\* Listed changes that may yield a download over p, and what they let it owe.
Incoming(p) ==
  {c \in changes : /\ c.status = "live" /\ c.name = p
                   /\ rows[p] = None \/ rows[p].id # c.id \/ RemoteChanged(c, rows[p])}

ListedDebt(p) == IF \E c \in Incoming(p) : NewerDebt(p, c) = 1 THEN 1 ELSE 0

RestCost(p) ==
  IF Incoming(p) = {} THEN Unsettled(p) ELSE 1 + LocalDebt(p) + ListedDebt(p)

InHand(p) == {o \in {op} : o # None /\ o.action.path = p}

\* The path owes n writes.
Costs(p, n) ==
  \/ \E o \in InHand(p) : n = OpCost(o)
  \/ InHand(p) = {} /\ \E a \in OnPath(queue, p) : n = ActionCost(a)
  \/ InHand(p) = {} /\ OnPath(queue, p) = {} /\ n = RestCost(p)

Debt == {d \in Path \X (1..3) : \E n \in 0..3 : Costs(d[1], n) /\ d[2] <= n}

\* The daemon's writes and what is owed are paid for: one by each user's change (and
\* one more by a remote user's, which is a write itself), two by each fault.
Paid ==
  head + Cardinality(Debt) <=
    InitialHead + steps["local"] + 2 * steps["remote"] + 2 * steps["fault"]

TrafficInv == IsFiniteSet(Debt) /\ Paid

-----------------------------------------------------------------------------
(* How a step changes what is owed. *)

NoMore(p) == \A m \in 0..3 : Costs(p, m)' => \E n \in 0..3 : Costs(p, n) /\ m <= n
MoreBy(p, k) == \E n \in 0..3 : Costs(p, n) /\ \A m \in 0..3 : Costs(p, m)' => m <= n + k
OneLess(p) == \E n \in 1..3 : Costs(p, n) /\ \A m \in 0..3 : Costs(p, m)' => m + 1 <= n

\* What is owed on a path that owes no more was owed before.
LEMMA OwedBefore ==
  ASSUME NEW d \in Debt', NoMore(d[1])
  PROVE  d \in Debt
<1>1. /\ d \in Path \X (1..3) /\ d[2] \in 1..3
      /\ \E m \in 0..3 : Costs(d[1], m)' /\ d[2] <= m
  BY DEF Debt
<1>2. PICK m \in 0..3 : Costs(d[1], m)' /\ d[2] <= m
  BY <1>1
<1>3. PICK n \in 0..3 : Costs(d[1], n) /\ m <= n
  BY <1>2 DEF NoMore
<1>4. d[2] <= n
  BY <1>1, <1>2, <1>3
<1>5. QED
  BY <1>1, <1>3, <1>4 DEF Debt

\* A path that owes k more owes at most k new things.
LEMMA OwedAfterMore ==
  ASSUME NEW p \in Path, NEW k \in {1, 2}, MoreBy(p, k)
  PROVE  \E x, y : \A d \in Debt' : d[1] = p => d \in Debt \/ d = x \/ (k = 2 /\ d = y)
<1>1. PICK n \in 0..3 : Costs(p, n) /\ \A m \in 0..3 : Costs(p, m)' => m <= n + k
  BY DEF MoreBy
<1>2. ASSUME NEW d \in Debt', d[1] = p
      PROVE  d \in Debt \/ d = <<p, n + 1>> \/ (k = 2 /\ d = <<p, n + 2>>)
  <2>1. /\ d \in Path \X (1..3) /\ d[2] \in 1..3 /\ d = <<p, d[2]>>
        /\ \E m \in 0..3 : Costs(p, m)' /\ d[2] <= m
    BY <1>2 DEF Debt
  <2>2. PICK m \in 0..3 : Costs(p, m)' /\ d[2] <= m
    BY <2>1
  <2>3. d[2] <= n \/ d[2] = n + 1 \/ (k = 2 /\ d[2] = n + 2)
    BY <1>1, <2>1, <2>2
  <2>4. d[2] <= n => d \in Debt
    BY <1>1, <1>2, <2>1 DEF Debt
  <2>5. QED
    BY <2>1, <2>3, <2>4
<1>3. QED
  BY <1>2

\* A path that owes less no longer owes one of its things.
LEMMA OwedAfterLess ==
  ASSUME NEW p \in Path, OneLess(p)
  PROVE  \E x \in Debt : x[1] = p /\ \A d \in Debt' : d[1] = p => d \in Debt /\ d # x
<1>1. PICK n \in 1..3 : Costs(p, n) /\ \A m \in 0..3 : Costs(p, m)' => m + 1 <= n
  BY DEF OneLess
<1>2. <<p, n>> \in Debt
  BY <1>1 DEF Debt
<1>3. ASSUME NEW d \in Debt', d[1] = p
      PROVE  d \in Debt /\ d # <<p, n>>
  <2>1. /\ d \in Path \X (1..3) /\ d[2] \in 1..3 /\ d = <<p, d[2]>>
        /\ \E m \in 0..3 : Costs(p, m)' /\ d[2] <= m
    BY <1>3 DEF Debt
  <2>2. PICK m \in 0..3 : Costs(p, m)' /\ d[2] <= m
    BY <2>1
  <2>3. d[2] <= n /\ d[2] # n
    BY <1>1, <2>1, <2>2
  <2>4. QED
    BY <1>1, <1>3, <2>1, <2>3 DEF Debt
<1>4. QED
  BY <1>2, <1>3

\* One element more makes a finite set larger by one at most.
LEMMA OneAdded ==
  ASSUME NEW S, IsFiniteSet(S), NEW x
  PROVE  /\ IsFiniteSet(S \cup {x}) /\ Cardinality(S \cup {x}) \in Nat /\ Cardinality(S) \in Nat
         /\ Cardinality(S \cup {x}) <= Cardinality(S) + 1
<1>1. /\ IsFiniteSet(S \cup {x})
      /\ Cardinality(S \cup {x}) = IF x \in S THEN Cardinality(S) ELSE Cardinality(S) + 1
  BY FS_AddElement
<1>2. Cardinality(S) \in Nat
  BY FS_CardinalityType
<1>3. Cardinality(S \cup {x}) = Cardinality(S) \/ Cardinality(S \cup {x}) = Cardinality(S) + 1
  BY <1>1
<1>4. QED
  BY <1>1, <1>2, <1>3

\* A step that adds nothing.
LEMMA NothingOwed ==
  ASSUME IsFiniteSet(Debt), \A q \in Path : NoMore(q)
  PROVE  IsFiniteSet(Debt') /\ Cardinality(Debt') <= Cardinality(Debt)
<1>1. \A d \in Debt' : d[1] \in Path
  BY DEF Debt
<1>2. Debt' \subseteq Debt
  BY <1>1, OwedBefore
<1>3. QED
  BY <1>2, FS_Subset

\* A step that adds to one path.
LEMMA MoreOwed ==
  ASSUME IsFiniteSet(Debt), NEW p \in Path, \A q \in Path : q # p => NoMore(q),
         NEW k \in {1, 2}, MoreBy(p, k)
  PROVE  IsFiniteSet(Debt') /\ Cardinality(Debt') <= Cardinality(Debt) + k
<1>1. \A d \in Debt' : d[1] \in Path
  BY DEF Debt
<1>2. PICK x, y : \A d \in Debt' : d[1] = p => d \in Debt \/ d = x \/ (k = 2 /\ d = y)
  BY OwedAfterMore
<1> DEFINE D == Debt \cup {x}
           E == D \cup {y}
<1>3. \A d \in Debt' : d \in Debt \/ d = x \/ (k = 2 /\ d = y)
  BY <1>1, <1>2, OwedBefore
<1>4. /\ IsFiniteSet(D) /\ Cardinality(D) <= Cardinality(Debt) + 1
      /\ Cardinality(Debt) \in Nat /\ Cardinality(D) \in Nat
  BY OneAdded
<1>5. /\ IsFiniteSet(E) /\ Cardinality(E) <= Cardinality(Debt) + 2
      /\ Cardinality(E) \in Nat
  <2> HIDE DEF D
  <2>1. /\ IsFiniteSet(E) /\ Cardinality(E) <= Cardinality(D) + 1
        /\ Cardinality(E) \in Nat
    BY <1>4, OneAdded
  <2>2. QED
    BY <1>4, <2>1
<1>6. CASE k = 1
  <2>1. Debt' \subseteq D
    BY <1>3, <1>6
  <2> HIDE DEF D
  <2>2. IsFiniteSet(Debt') /\ Cardinality(Debt') <= Cardinality(D)
    BY <1>4, <2>1, FS_Subset
  <2>3. Cardinality(Debt') \in Nat
    BY <2>2, FS_CardinalityType
  <2>4. QED
    BY <1>4, <1>6, <2>2, <2>3
<1>7. CASE k = 2
  <2>1. Debt' \subseteq E
    BY <1>3, <1>7
  <2> HIDE DEF E
  <2>2. IsFiniteSet(Debt') /\ Cardinality(Debt') <= Cardinality(E)
    BY <1>5, <2>1, FS_Subset
  <2>3. Cardinality(Debt') \in Nat
    BY <2>2, FS_CardinalityType
  <2>4. QED
    BY <1>4, <1>5, <1>7, <2>2, <2>3
<1>8. QED
  BY <1>6, <1>7

\* A step that takes from one path.
LEMMA LessOwed ==
  ASSUME IsFiniteSet(Debt), NEW p \in Path, OneLess(p), \A q \in Path : q # p => NoMore(q)
  PROVE  IsFiniteSet(Debt') /\ Cardinality(Debt') + 1 <= Cardinality(Debt)
<1>1. \A d \in Debt' : d[1] \in Path
  BY DEF Debt
<1>2. PICK x \in Debt : x[1] = p /\ \A d \in Debt' : d[1] = p => d \in Debt /\ d # x
  BY OwedAfterLess
<1> DEFINE D == Debt \ {x}
<1>3. Debt' \subseteq D
  BY <1>1, <1>2, OwedBefore
<1>4. /\ IsFiniteSet(D) /\ Cardinality(D) = Cardinality(Debt) - 1
      /\ Cardinality(Debt) \in Nat /\ Cardinality(D) \in Nat
  BY <1>2, FS_RemoveElement, FS_CardinalityType
<1> HIDE DEF D
<1>5. IsFiniteSet(Debt') /\ Cardinality(Debt') <= Cardinality(D)
  BY <1>3, <1>4, FS_Subset
<1>6. Cardinality(Debt') \in Nat
  BY <1>5, FS_CardinalityType
<1>7. QED
  BY <1>4, <1>5, <1>6

\* A step that takes from one path and adds to another.
LEMMA OwedElsewhere ==
  ASSUME IsFiniteSet(Debt), NEW p \in Path, OneLess(p), NEW r \in Path, MoreBy(r, 1), r # p,
         \A q \in Path : q # p /\ q # r => NoMore(q)
  PROVE  IsFiniteSet(Debt') /\ Cardinality(Debt') <= Cardinality(Debt)
<1>1. \A d \in Debt' : d[1] \in Path
  BY DEF Debt
<1>2. PICK x \in Debt : x[1] = p /\ \A d \in Debt' : d[1] = p => d \in Debt /\ d # x
  BY OwedAfterLess
<1>3. PICK y : \A d \in Debt' : d[1] = r => d \in Debt \/ d = y
  <2>1. \E y, z : \A d \in Debt' : d[1] = r => d \in Debt \/ d = y \/ (1 = 2 /\ d = z)
    BY OwedAfterMore
  <2>2. QED
    BY <2>1
<1> DEFINE D == Debt \ {x}
           E == D \cup {y}
<1>4. Debt' \subseteq E
  BY <1>1, <1>2, <1>3, OwedBefore
<1>5. /\ IsFiniteSet(D) /\ Cardinality(D) = Cardinality(Debt) - 1
      /\ Cardinality(Debt) \in Nat /\ Cardinality(D) \in Nat
  BY <1>2, FS_RemoveElement, FS_CardinalityType
<1>6. IsFiniteSet(E) /\ Cardinality(E) <= Cardinality(Debt) /\ Cardinality(E) \in Nat
  <2> HIDE DEF D
  <2>1. /\ IsFiniteSet(E) /\ Cardinality(E) <= Cardinality(D) + 1 /\ Cardinality(E) \in Nat
    BY <1>5, OneAdded
  <2>2. QED
    BY <1>5, <2>1
<1> HIDE DEF E
<1>7. IsFiniteSet(Debt') /\ Cardinality(Debt') <= Cardinality(E)
  BY <1>4, <1>6, FS_Subset
<1>8. Cardinality(Debt') \in Nat
  BY <1>7, FS_CardinalityType
<1>9. QED
  BY <1>5, <1>6, <1>7, <1>8

-----------------------------------------------------------------------------
(* What a step has to do with one path: its local side, Drive's side, and the *)
(* cycle's memory.                                                            *)

LocalSame(p) ==
  /\ LocalDebt(p)' = LocalDebt(p) /\ FileDebt(p)' = FileDebt(p)
  /\ \A a : a.path = p => MovedDebt(a)' = MovedDebt(a)

DriveSame(p) ==
  /\ RowDebt(p)' = RowDebt(p) /\ LateDebt(p)' = LateDebt(p)
  /\ \A f : NewerDebt(p, f)' = NewerDebt(p, f)
  /\ \A id : OtherDebt(p, id)' = OtherDebt(p, id)

MemorySame(p) ==
  /\ InHand(p)' = InHand(p) /\ OnPath(queue, p)' = OnPath(queue, p)
  /\ Incoming(p)' = Incoming(p)

\* Each part of a debt is one write or none.
LEMMA Bits ==
  ASSUME NEW p
  PROVE  /\ LocalDebt(p) \in 0..1 /\ LocalDebt(p)' \in 0..1
         /\ FileDebt(p) \in 0..1 /\ FileDebt(p)' \in 0..1
         /\ RowDebt(p) \in 0..1 /\ RowDebt(p)' \in 0..1
         /\ LateDebt(p) \in 0..1 /\ LateDebt(p)' \in 0..1
         /\ ListedDebt(p) \in 0..1 /\ ListedDebt(p)' \in 0..1
         /\ \A a : MovedDebt(a) \in 0..1 /\ MovedDebt(a)' \in 0..1
         /\ \A f : NewerDebt(p, f) \in 0..1 /\ NewerDebt(p, f)' \in 0..1
         /\ \A id : OtherDebt(p, id) \in 0..1 /\ OtherDebt(p, id)' \in 0..1
<1>1. /\ LocalDebt(p) \in 0..1 /\ LocalDebt(p)' \in 0..1
      /\ FileDebt(p) \in 0..1 /\ FileDebt(p)' \in 0..1
  BY DEF LocalDebt, FileDebt
<1>2. RowDebt(p) \in 0..1 /\ RowDebt(p)' \in 0..1
  BY DEF RowDebt
<1>3. LateDebt(p) \in 0..1 /\ LateDebt(p)' \in 0..1
  BY DEF LateDebt
<1>4. ListedDebt(p) \in 0..1 /\ ListedDebt(p)' \in 0..1
  BY DEF ListedDebt
<1>5. ASSUME NEW a
      PROVE  MovedDebt(a) \in 0..1 /\ MovedDebt(a)' \in 0..1
  BY DEF MovedDebt
<1>6. ASSUME NEW f
      PROVE  NewerDebt(p, f) \in 0..1 /\ NewerDebt(p, f)' \in 0..1
  BY DEF NewerDebt
<1>7. ASSUME NEW id
      PROVE  OtherDebt(p, id) \in 0..1 /\ OtherDebt(p, id)' \in 0..1
  BY DEF OtherDebt
<1>8. QED
  BY <1>1, <1>2, <1>3, <1>4, <1>5, <1>6, <1>7

\* A step that leaves the path's file and row alone.
LEMMA LocalKept ==
  ASSUME NEW p, local'[p] = local[p], rows'[p] = rows[p]
  PROVE  LocalSame(p)
<1>1. LocalDebt(p)' = LocalDebt(p) /\ FileDebt(p)' = FileDebt(p)
  BY DEF LocalDebt, LocalAhead, FileDebt, LocalChanged
<1>2. \A a : a.path = p => MovedDebt(a)' = MovedDebt(a)
  BY DEF MovedDebt, Moved
<1>3. QED
  BY <1>1, <1>2 DEF LocalSame

\* A step that leaves the token, the path's row and the Drive files of its name alone.
LEMMA LateKept ==
  ASSUME NEW p, token' = token,
         \A i \in FileId : \/ drive'[i] = drive[i]
                           \/ /\ Exists(i) => drive[i].name # p
                              /\ Exists(i)' => drive'[i].name # p
  PROVE  Late(p)' = Late(p) /\ \A i \in Late(p) : drive'[i] = drive[i]
BY DEF Late, Exists

\* So what Drive's side of the path owes stays.
LEMMA DriveKept ==
  ASSUME NEW p, token' = token, rows'[p] = rows[p],
         \A i \in FileId : \/ drive'[i] = drive[i]
                           \/ /\ Exists(i) => drive[i].name # p
                              /\ Exists(i)' => drive'[i].name # p
  PROVE  DriveSame(p)
<1>1. Late(p)' = Late(p) /\ \A i \in Late(p) : drive'[i] = drive[i]
  BY LateKept
<1> HIDE DEF Late
<1>2. RowDebt(p)' = RowDebt(p)
  BY <1>1 DEF RowDebt, RemoteChanged
<1>3. LateDebt(p)' = LateDebt(p)
  BY <1>1 DEF LateDebt
<1>4. ASSUME NEW f PROVE NewerDebt(p, f)' = NewerDebt(p, f)
  BY <1>1 DEF NewerDebt
<1>5. ASSUME NEW id PROVE OtherDebt(p, id)' = OtherDebt(p, id)
  BY <1>1 DEF OtherDebt
<1>6. QED
  BY <1>2, <1>3, <1>4, <1>5 DEF DriveSame

\* What an action owes, and what one side of its path can add to it.
LEMMA ActionCostBounds ==
  ASSUME NEW a, a.kind \in Kinds
  PROVE  /\ ActionCost(a) \in 0..3 /\ ActionCost(a)' \in 0..3
         /\ Unsettled(a.path) <= ActionCost(a)
         /\ LocalSame(a.path) \/ DriveSame(a.path) => ActionCost(a)' <= ActionCost(a) + 1
         /\ LocalSame(a.path) /\ DriveSame(a.path) => ActionCost(a)' = ActionCost(a)
<1> USE Bits DEF ActionCost, Larger, Unsettled, LocalSame, DriveSame
<1>1. CASE a.kind \in UploadKinds
  BY <1>1 DEF UploadKinds, DownloadKinds
<1>2. CASE a.kind \in DownloadKinds
  BY <1>2 DEF UploadKinds, DownloadKinds
<1>3. CASE a.kind = "Conflict"
  BY <1>3 DEF UploadKinds, DownloadKinds
<1>4. CASE a.kind = "DeleteRemote"
  BY <1>4 DEF UploadKinds, DownloadKinds
<1>5. CASE a.kind = "DeleteLocal"
  BY <1>5 DEF UploadKinds, DownloadKinds
<1>6. QED
  BY <1>1, <1>2, <1>3, <1>4, <1>5 DEF Kinds, DeleteKinds

\* The same for the operation; what it has done may leave two writes more unsettled.
LEMMA OpCostBounds ==
  ASSUME NEW o, o.action.kind \in Kinds, o.stage \in Stages
  PROVE  /\ OpCost(o) \in 0..3 /\ OpCost(o)' \in 0..3
         /\ Unsettled(o.action.path) <= OpCost(o) + 2
         /\ o.stage \in {"begin", "read"} => Unsettled(o.action.path) <= OpCost(o)
         /\ LocalSame(o.action.path) \/ DriveSame(o.action.path) => OpCost(o)' <= OpCost(o) + 1
         /\ LocalSame(o.action.path) /\ DriveSame(o.action.path) => OpCost(o)' = OpCost(o)
<1> DEFINE a == o.action
           p == a.path
<1>1. /\ LocalDebt(p) \in 0..1 /\ FileDebt(p) \in 0..1 /\ FileDebt(p)' \in 0..1
      /\ RowDebt(p) \in 0..1 /\ LateDebt(p) \in 0..1 /\ LateDebt(p)' \in 0..1
      /\ MovedDebt(a) \in 0..1 /\ MovedDebt(a)' \in 0..1
      /\ \A f : NewerDebt(p, f) \in 0..1 /\ NewerDebt(p, f)' \in 0..1
  BY Bits
<1>2. CASE o.stage \in {"begin", "read"}
  <2>1. OpCost(o) = ActionCost(a) /\ OpCost(o)' = ActionCost(a)'
    BY <1>2 DEF OpCost
  <2>2. Unsettled(p) \in Nat
    BY <1>1 DEF Unsettled
  <2>3. QED
    BY <2>1, <2>2, ActionCostBounds
<1>3. CASE o.stage = "sent"
  BY <1>1, <1>3 DEF OpCost, Unsettled, LocalSame, DriveSame
<1>4. CASE o.stage \in {"copied", "fetched", "written"}
  BY <1>1, <1>4 DEF OpCost, Unsettled, LocalSame, DriveSame
<1>5. CASE o.stage = "dropped"
  BY <1>1, <1>5 DEF OpCost, Unsettled, LocalSame, DriveSame
<1>6. QED
  BY <1>2, <1>3, <1>4, <1>5 DEF Stages

\* The same for a path that is neither queued nor in hand.
LEMMA RestCostBounds ==
  ASSUME NEW p
  PROVE  /\ RestCost(p) \in 0..3 /\ RestCost(p)' \in 0..3
         /\ Unsettled(p) <= RestCost(p)
         /\ Incoming(p)' = Incoming(p) /\ (LocalSame(p) \/ DriveSame(p)) =>
              RestCost(p)' <= RestCost(p) + 1
         /\ Incoming(p)' = Incoming(p) /\ LocalSame(p) /\ DriveSame(p) =>
              RestCost(p)' = RestCost(p)
<1>1. /\ LocalDebt(p) \in 0..1 /\ LocalDebt(p)' \in 0..1
      /\ RowDebt(p) \in 0..1 /\ RowDebt(p)' \in 0..1
      /\ ListedDebt(p) \in 0..1 /\ ListedDebt(p)' \in 0..1
  BY Bits
<1>2. Incoming(p)' = Incoming(p) /\ DriveSame(p) => ListedDebt(p)' = ListedDebt(p)
  BY DEF ListedDebt, DriveSame
<1>3. QED
  BY <1>1, <1>2 DEF RestCost, Unsettled, LocalSame, DriveSame

-----------------------------------------------------------------------------
(* What a path owes, by what the cycle has in hand of it. *)

\* The path of the operation owes what the operation does,
LEMMA OwedInHand ==
  ASSUME NEW o, o # None, NEW p, o.action.path = p
  PROVE  /\ op = o => \A m : Costs(p, m) <=> m = OpCost(o)
         /\ op' = o => \A m : Costs(p, m)' <=> m = OpCost(o)'
<1>1. ASSUME op = o
      PROVE  \A m : Costs(p, m) <=> m = OpCost(o)
  <2>1. InHand(p) = {o}
    BY <1>1 DEF InHand
  <2>2. QED
    BY <2>1 DEF Costs
<1>2. ASSUME op' = o
      PROVE  \A m : Costs(p, m)' <=> m = OpCost(o)'
  <2>1. InHand(p)' = {o}
    BY <1>2 DEF InHand
  <2>2. QED
    BY <2>1 DEF Costs
<1>3. QED
  BY <1>1, <1>2

\* a queued path what its action does,
LEMMA OwedInQueue ==
  ASSUME NEW p, NEW a
  PROVE  /\ InHand(p) = {} /\ OnPath(queue, p) = {a} => \A m : Costs(p, m) <=> m = ActionCost(a)
         /\ InHand(p)' = {} /\ OnPath(queue, p)' = {a} =>
              \A m : Costs(p, m)' <=> m = ActionCost(a)'
<1>1. ASSUME InHand(p) = {}, OnPath(queue, p) = {a}
      PROVE  \A m : Costs(p, m) <=> m = ActionCost(a)
  BY <1>1 DEF Costs
<1>2. ASSUME InHand(p)' = {}, OnPath(queue, p)' = {a}
      PROVE  \A m : Costs(p, m)' <=> m = ActionCost(a)'
  BY <1>2 DEF Costs
<1>3. QED
  BY <1>1, <1>2

\* and any other what is unsettled or listed.
LEMMA OwedAtRest ==
  ASSUME NEW p
  PROVE  /\ InHand(p) = {} /\ OnPath(queue, p) = {} => \A m : Costs(p, m) <=> m = RestCost(p)
         /\ InHand(p)' = {} /\ OnPath(queue, p)' = {} =>
              \A m : Costs(p, m)' <=> m = RestCost(p)'
<1>1. ASSUME InHand(p) = {}, OnPath(queue, p) = {}
      PROVE  \A m : Costs(p, m) <=> m = RestCost(p)
  BY <1>1 DEF Costs
<1>2. ASSUME InHand(p)' = {}, OnPath(queue, p)' = {}
      PROVE  \A m : Costs(p, m)' <=> m = RestCost(p)'
  BY <1>2 DEF Costs
<1>3. QED
  BY <1>1, <1>2

InQueue(p) == \E a \in queue : a.path = p /\ a.kind \in Kinds /\ OnPath(queue, p) = {a}

\* One of the three holds.
LEMMA OwedSomewhere ==
  ASSUME TypeInv, QueueInv({}), NEW p \in Path
  PROVE  \/ /\ op # None /\ op.action.path = p /\ op.action.kind \in Kinds /\ op.stage \in Stages
            /\ InHand(p) = {op}
         \/ InHand(p) = {} /\ InQueue(p)
         \/ InHand(p) = {} /\ OnPath(queue, p) = {}
<1>1. CASE op # None /\ op.action.path = p
  BY <1>1 DEF InHand, TypeInv, TypeOK, Operation, SyncAction
<1>2. CASE ~(op # None /\ op.action.path = p)
  <2>1. InHand(p) = {}
    BY <1>2 DEF InHand
  <2>2. ASSUME NEW a \in OnPath(queue, p)
        PROVE  a.path = p /\ a.kind \in Kinds /\ OnPath(queue, p) = {a}
    BY <2>2 DEF OnPath, QueueInv, TypeInv, TypeOK, SyncAction
  <2>3. QED
    BY <2>1, <2>2 DEF OnPath, InQueue
<1>3. QED
  BY <1>1, <1>2

\* A step that does nothing to a path adds nothing to it; one that touches one side of
\* it adds one write at most.
LEMMA PathSame ==
  ASSUME TypeInv, QueueInv({}), NEW p \in Path, MemorySame(p), LocalSame(p), DriveSame(p)
  PROVE  NoMore(p)
<1> SUFFICES ASSUME NEW m \in 0..3, Costs(p, m)'
             PROVE  Costs(p, m)
  BY DEF NoMore
<1>1. CASE /\ op # None /\ op.action.path = p /\ op.action.kind \in Kinds /\ op.stage \in Stages
           /\ InHand(p) = {op}
  <2>1. PICK o : o = op
    OBVIOUS
  <2>2. m = OpCost(o)'
    BY <1>1, <2>1 DEF Costs, MemorySame
  <2>3. OpCost(o)' = OpCost(o)
    BY <1>1, <2>1, OpCostBounds
  <2>4. QED
    BY <1>1, <2>1, <2>2, <2>3, OwedInHand
<1>2. CASE InHand(p) = {} /\ InQueue(p)
  <2>1. PICK a \in queue : a.path = p /\ a.kind \in Kinds /\ OnPath(queue, p) = {a}
    BY <1>2 DEF InQueue
  <2>2. ActionCost(a)' = ActionCost(a)
    BY <2>1, ActionCostBounds
  <2>3. m = ActionCost(a)'
    BY <1>2, <2>1 DEF Costs, MemorySame
  <2>4. QED
    BY <1>2, <2>1, <2>2, <2>3, OwedInQueue
<1>3. CASE InHand(p) = {} /\ OnPath(queue, p) = {}
  <2>1. RestCost(p)' = RestCost(p)
    BY RestCostBounds DEF MemorySame
  <2>2. m = RestCost(p)'
    BY <1>3 DEF Costs, MemorySame
  <2>3. QED
    BY <1>3, <2>1, <2>2, OwedAtRest
<1>4. QED
  BY <1>1, <1>2, <1>3, OwedSomewhere

\* One side touched.
LEMMA PathTouched ==
  ASSUME TypeInv, QueueInv({}), NEW p \in Path, MemorySame(p), LocalSame(p) \/ DriveSame(p)
  PROVE  MoreBy(p, 1)
<1>1. CASE /\ op # None /\ op.action.path = p /\ op.action.kind \in Kinds /\ op.stage \in Stages
           /\ InHand(p) = {op}
  <2>1. PICK o : o = op
    OBVIOUS
  <2>2. OpCost(o) \in 0..3 /\ OpCost(o)' <= OpCost(o) + 1
    BY <1>1, <2>1, OpCostBounds
  <2>3. Costs(p, OpCost(o)) /\ \A m \in 0..3 : Costs(p, m)' => m = OpCost(o)'
    BY <1>1, <2>1, OwedInHand DEF Costs, MemorySame
  <2>4. QED
    BY <2>2, <2>3 DEF MoreBy
<1>2. CASE InHand(p) = {} /\ InQueue(p)
  <2>1. PICK a \in queue : a.path = p /\ a.kind \in Kinds /\ OnPath(queue, p) = {a}
    BY <1>2 DEF InQueue
  <2>2. ActionCost(a) \in 0..3 /\ ActionCost(a)' <= ActionCost(a) + 1
    BY <2>1, ActionCostBounds
  <2>3. Costs(p, ActionCost(a)) /\ \A m \in 0..3 : Costs(p, m)' => m = ActionCost(a)'
    BY <1>2, <2>1, OwedInQueue DEF MemorySame
  <2>4. QED
    BY <2>2, <2>3 DEF MoreBy
<1>3. CASE InHand(p) = {} /\ OnPath(queue, p) = {}
  <2>1. RestCost(p) \in 0..3 /\ RestCost(p)' <= RestCost(p) + 1
    BY RestCostBounds DEF MemorySame
  <2>2. Costs(p, RestCost(p)) /\ \A m \in 0..3 : Costs(p, m)' => m = RestCost(p)'
    BY <1>3, OwedAtRest DEF MemorySame
  <2>3. QED
    BY <2>1, <2>2 DEF MoreBy
<1>4. QED
  BY <1>1, <1>2, <1>3, OwedSomewhere

\* A path the cycle has nothing of owes what is unsettled.
LEMMA OwedUnheld ==
  ASSUME NEW p
  PROVE  /\ changes = {} /\ queue = {} /\ op = None => \A m : Costs(p, m) <=> m = Unsettled(p)
         /\ changes' = {} /\ queue' = {} /\ op' = None =>
              \A m : Costs(p, m)' <=> m = Unsettled(p)'
<1>1. ASSUME changes = {}, queue = {}, op = None
      PROVE  \A m : Costs(p, m) <=> m = Unsettled(p)
  <2>1. InHand(p) = {} /\ OnPath(queue, p) = {} /\ Incoming(p) = {}
    BY <1>1 DEF InHand, OnPath, Incoming
  <2>2. QED
    BY <2>1, OwedAtRest DEF RestCost
<1>2. ASSUME changes' = {}, queue' = {}, op' = None
      PROVE  \A m : Costs(p, m)' <=> m = Unsettled(p)'
  <2>1. InHand(p)' = {} /\ OnPath(queue, p)' = {} /\ Incoming(p)' = {}
    BY <1>2 DEF InHand, OnPath, Incoming
  <2>2. RestCost(p)' = Unsettled(p)'
    BY <2>1 DEF RestCost
  <2>3. QED
    BY <2>1, <2>2, OwedAtRest
<1>3. QED
  BY <1>1, <1>2

\* Dropping what the cycle has of a path costs nothing, unless its operation had an
\* effect already: then two writes at most.
LEMMA PathDropped ==
  ASSUME TypeInv, QueueInv({}), NEW p \in Path, LocalSame(p), DriveSame(p),
         changes' = {}, queue' = {}, op' = None
  PROVE  /\ MoreBy(p, 2)
         /\ op = None \/ op.action.path # p \/ op.stage \in {"begin", "read"} => NoMore(p)
<1>1. \A m : Costs(p, m)' => m = Unsettled(p)
  BY OwedUnheld DEF Unsettled, LocalSame, DriveSame
<1>2. Unsettled(p) \in 0..2
  BY Bits DEF Unsettled
<1>3. CASE /\ op # None /\ op.action.path = p /\ op.action.kind \in Kinds /\ op.stage \in Stages
           /\ InHand(p) = {op}
  <2>1. PICK o : o = op
    OBVIOUS
  <2>2. /\ OpCost(o) \in 0..3 /\ Unsettled(p) <= OpCost(o) + 2
        /\ op.stage \in {"begin", "read"} => Unsettled(p) <= OpCost(o)
    BY <1>3, <2>1, OpCostBounds
  <2>3. Costs(p, OpCost(o))
    BY <1>3, <2>1, OwedInHand
  <2>4. QED
    BY <1>1, <1>3, <2>2, <2>3 DEF MoreBy, NoMore
<1>4. ASSUME NEW n \in 0..3, Costs(p, n), Unsettled(p) <= n
      PROVE  MoreBy(p, 2) /\ NoMore(p)
  <2>1. \A m \in 0..3 : Costs(p, m)' => m <= n /\ m <= n + 2
    BY <1>1, <1>2, <1>4
  <2>2. QED
    BY <1>4, <2>1 DEF MoreBy, NoMore
<1>5. CASE InHand(p) = {} /\ InQueue(p)
  <2>1. PICK a \in queue : a.path = p /\ a.kind \in Kinds /\ OnPath(queue, p) = {a}
    BY <1>5 DEF InQueue
  <2>2. ActionCost(a) \in 0..3 /\ Unsettled(p) <= ActionCost(a)
    BY <2>1, ActionCostBounds
  <2>3. QED
    BY <1>4, <1>5, <2>1, <2>2, OwedInQueue
<1>6. CASE InHand(p) = {} /\ OnPath(queue, p) = {}
  BY <1>4, <1>6, OwedAtRest, RestCostBounds
<1>7. QED
  BY <1>3, <1>5, <1>6, OwedSomewhere

-----------------------------------------------------------------------------
(* The steps. *)

\* The cycle remembers what it did of a path whose row stays.
LEMMA MemoryKept ==
  ASSUME NEW p, UNCHANGED <<op, queue, changes>>, rows'[p] = rows[p]
  PROVE  MemorySame(p)
<1>1. InHand(p)' = InHand(p) /\ OnPath(queue, p)' = OnPath(queue, p)
  BY DEF InHand, OnPath
<1>2. Incoming(p)' = Incoming(p)
  BY DEF Incoming, RemoteChanged
<1>3. QED
  BY <1>1, <1>2 DEF MemorySame

\* Numbers of the sum.
LEMMA SumTyped ==
  TypeInv => /\ head \in Nat /\ InitialHead \in Nat
             /\ steps["local"] \in Nat /\ steps["remote"] \in Nat /\ steps["fault"] \in Nat
             /\ DOMAIN steps = {"local", "remote", "fault"}
BY CycleAssumption DEF TypeInv, TypeOK

\* A step that writes nothing on Drive and adds nothing.
LEMMA FreeStep ==
  ASSUME TypeInv, TrafficInv, UNCHANGED <<head, steps>>,
         IsFiniteSet(Debt'), Cardinality(Debt') <= Cardinality(Debt)
  PROVE  TrafficInv'
<1>1. Cardinality(Debt) \in Nat /\ Cardinality(Debt') \in Nat
  BY FS_CardinalityType DEF TrafficInv
<1>2. QED
  BY <1>1, SumTyped DEF TrafficInv, Paid

\* A write of the daemon pays for itself.
LEMMA PayingStep ==
  ASSUME TypeInv, TrafficInv, head' = head + 1, UNCHANGED steps,
         IsFiniteSet(Debt'), Cardinality(Debt') + 1 <= Cardinality(Debt)
  PROVE  TrafficInv'
<1>1. Cardinality(Debt) \in Nat /\ Cardinality(Debt') \in Nat
  BY FS_CardinalityType DEF TrafficInv
<1>2. QED
  BY <1>1, SumTyped DEF TrafficInv, Paid

\* A fault pays for two writes: a write it lost the answer of, and what it adds.
LEMMA FaultyStep ==
  ASSUME TypeInv, TrafficInv, Spend("fault"), NEW k \in {1, 2},
         head' = head \/ (head' = head + 1 /\ k = 1),
         IsFiniteSet(Debt'), Cardinality(Debt') <= Cardinality(Debt) + k
  PROVE  TrafficInv'
<1>1. Cardinality(Debt) \in Nat /\ Cardinality(Debt') \in Nat
  BY FS_CardinalityType DEF TrafficInv
<1>2. /\ steps'["fault"] = steps["fault"] + 1
      /\ steps'["local"] = steps["local"] /\ steps'["remote"] = steps["remote"]
  BY SumTyped DEF Spend
<1>3. QED
  BY <1>1, <1>2, SumTyped DEF TrafficInv, Paid

\* A user's change adds one write to its path.
LEMMA LocalUserTraffic ==
  ASSUME TypeInv, QueueInv({}), TrafficInv, NEW p \in Path, Spend("local"),
         \A q \in Path : q # p => local'[q] = local[q],
         UNCHANGED <<server, rows, token, op, queue, changes>>
  PROVE  TrafficInv'
<1>1. \A q \in Path : MemorySame(q) /\ DriveSame(q)
  BY MemoryKept, DriveKept DEF server
<1>2. \A q \in Path : q # p => NoMore(q)
  BY <1>1, LocalKept, PathSame
<1>3. MoreBy(p, 1)
  BY <1>1, PathTouched
<1>4. IsFiniteSet(Debt') /\ Cardinality(Debt') <= Cardinality(Debt) + 1
  BY <1>2, <1>3, MoreOwed DEF TrafficInv
<1>5. /\ steps'["local"] = steps["local"] + 1
      /\ steps'["fault"] = steps["fault"] /\ steps'["remote"] = steps["remote"]
  BY SumTyped DEF Spend
<1>6. Cardinality(Debt) \in Nat /\ Cardinality(Debt') \in Nat
  BY <1>4, FS_CardinalityType DEF TrafficInv
<1>7. QED
  BY <1>4, <1>5, <1>6, SumTyped DEF TrafficInv, Paid, server

\* A remote user's change adds one, and is itself the write it pays for.
LEMMA RemoteUserTraffic ==
  ASSUME TypeInv, QueueInv({}), TrafficInv, NEW p \in Path, Spend("remote"), head' = head + 1,
         NEW id \in FileId, \A i \in FileId : i # id => drive'[i] = drive[i],
         Exists(id) => drive[id].name = p,
         Exists(id)' => drive'[id].name = p,
         UNCHANGED <<local, rows, token, op, queue, changes>>
  PROVE  TrafficInv'
<1>1. \A q \in Path : MemorySame(q) /\ LocalSame(q)
  BY MemoryKept, LocalKept
<1>2. ASSUME NEW q \in Path, q # p
      PROVE  NoMore(q)
  <2>1. \A i \in FileId : \/ drive'[i] = drive[i]
                          \/ /\ Exists(i) => drive[i].name # q
                             /\ Exists(i)' => drive'[i].name # q
    BY <1>2
  <2>2. DriveSame(q)
    BY <2>1, DriveKept
  <2>3. QED
    BY <1>1, <2>2, PathSame
<1>3. MoreBy(p, 1)
  BY <1>1, PathTouched
<1>4. IsFiniteSet(Debt') /\ Cardinality(Debt') <= Cardinality(Debt) + 1
  BY <1>2, <1>3, MoreOwed DEF TrafficInv
<1>5. /\ steps'["remote"] = steps["remote"] + 1
      /\ steps'["fault"] = steps["fault"] /\ steps'["local"] = steps["local"]
  BY SumTyped DEF Spend
<1>6. Cardinality(Debt) \in Nat /\ Cardinality(Debt') \in Nat
  BY <1>4, FS_CardinalityType DEF TrafficInv
<1>7. QED
  BY <1>4, <1>5, <1>6, SumTyped DEF TrafficInv, Paid

\* A step that leaves files, table and queue alone.
LEMMA QuietTraffic ==
  ASSUME TypeInv, QueueInv({}), TrafficInv,
         UNCHANGED <<local, server, rows, token, op, queue, changes, steps>>
  PROVE  TrafficInv'
<1>1. \A q \in Path : MemorySame(q) /\ LocalSame(q) /\ DriveSame(q)
  BY MemoryKept, LocalKept, DriveKept DEF server
<1>2. QED
  BY <1>1, PathSame, NothingOwed, FreeStep DEF TrafficInv, server

\* Every step of a user is one of these, or quiet.
LEMMA TrafficUsers ==
  ASSUME TypeInv, QueueInv({}), TrafficInv, "rename" \notin RemoteOps,
         Users \/ SetFolderPaused \/ UNCHANGED vars
  PROVE  TrafficInv'
<1>1. local \in [Path -> LocalFileMeta \cup {None}] /\ drive \in [FileId -> DriveFile \cup {None}]
      /\ UserPath \subseteq Path /\ RemotePath \subseteq Path /\ None \notin DriveFile
  BY CycleAssumption DEF TypeInv, TypeOK
<1> USE DEF files, server, database, memory
<1>2. ASSUME NEW p \in UserPath, NEW c \in Content, UserWrites(p, c)
      PROVE  TrafficInv'
  <2>1. \A q \in Path : q # p => local'[q] = local[q]
    BY <1>1, <1>2 DEF UserWrites, WriteFile
  <2>2. QED
    BY <1>1, <1>2, <2>1, LocalUserTraffic DEF UserWrites
<1>3. ASSUME NEW p \in UserPath, UserDeletes(p)
      PROVE  TrafficInv'
  <2>1. \A q \in Path : q # p => local'[q] = local[q]
    BY <1>1, <1>3 DEF UserDeletes
  <2>2. QED
    BY <1>1, <1>3, <2>1, LocalUserTraffic DEF UserDeletes
<1>4. ASSUME NEW p \in RemotePath, NEW c \in Content, NEW id \in FileId, RemoteCreates(p, c, id)
      PROVE  TrafficInv'
  <2>1. ~Exists(id) /\ PutFile(id, NewFile(p, c)) /\ Spend("remote")
    BY <1>1, <1>4 DEF RemoteCreates, NextId, Exists
  <2>2. drive'[id].name = p /\ head' = head + 1 /\ \A i \in FileId : i # id => drive'[i] = drive[i]
    BY <1>1, <2>1 DEF PutFile, NewFile
  <2>3. QED
    BY <1>1, <1>4, <2>1, <2>2, RemoteUserTraffic DEF RemoteCreates
<1>5. ASSUME NEW id \in FileId, NEW f, drive[id] # None, f.name = drive[id].name,
             PutFile(id, f), Spend("remote"), UNCHANGED <<files, database, memory>>
      PROVE  TrafficInv'
  <2>1. drive[id].name \in Path
    BY <1>1, <1>5 DEF DriveFile
  <2>2. drive'[id] = f /\ head' = head + 1 /\ \A i \in FileId : i # id => drive'[i] = drive[i]
    BY <1>1, <1>5 DEF PutFile
  <2>3. QED
    BY <1>5, <2>1, <2>2, RemoteUserTraffic
<1>6. ASSUME NEW id \in FileId, drive[id] # None
      PROVE  /\ \A c \in Content : Rewritten(id, c).name = drive[id].name
             /\ \A st : Marked(id, st).name = drive[id].name
  <2>1. drive[id] \in DriveFile
    BY <1>1, <1>6
  <2>2. QED
    BY <2>1 DEF Rewritten, Marked, DriveFile
<1>7. ASSUME NEW id \in FileId, NEW c \in Content, RemoteEdits(id, c)
      PROVE  TrafficInv'
  BY <1>5, <1>6, <1>7 DEF RemoteEdits
<1>8. ASSUME NEW id \in FileId, RemoteTrashes(id) \/ RemoteRemoves(id)
      PROVE  TrafficInv'
  BY <1>5, <1>6, <1>8 DEF RemoteTrashes, RemoteRemoves
<1>9. CASE PauseFlag \/ ResumeFlag \/ SetFolderPaused \/ UNCHANGED vars
  BY <1>9, QuietTraffic DEF PauseFlag, ResumeFlag, SetFolderPaused, vars
<1>10. QED
  BY <1>2, <1>3, <1>4, <1>7, <1>8, <1>9 DEF Users, RemoteRenames

\* A cycle that is forgotten.
LEMMA DroppedTraffic ==
  ASSUME TypeInv, QueueInv({}), TrafficInv, UNCHANGED <<local, server, rows, token>>, Forget,
         \/ Spend("fault")
         \/ UNCHANGED steps /\ (op = None \/ op.stage \in {"begin", "read"})
  PROVE  TrafficInv'
<1>1. \A q \in Path : LocalSame(q) /\ DriveSame(q)
  BY LocalKept, DriveKept DEF server
<1>2. \A q \in Path : /\ MoreBy(q, 2)
                      /\ op = None \/ op.action.path # q \/ op.stage \in {"begin", "read"} =>
                           NoMore(q)
  BY <1>1, PathDropped DEF Forget
<1>3. CASE op = None \/ op.stage \in {"begin", "read"}
  <2>1. IsFiniteSet(Debt') /\ Cardinality(Debt') <= Cardinality(Debt)
    BY <1>2, <1>3, NothingOwed DEF TrafficInv
  <2>2. CASE UNCHANGED steps
    BY <2>1, <2>2, FreeStep DEF server
  <2>3. CASE Spend("fault")
    <3>1. Cardinality(Debt) \in Nat /\ Cardinality(Debt') \in Nat
      BY <2>1, FS_CardinalityType DEF TrafficInv
    <3>2. Cardinality(Debt') <= Cardinality(Debt) + 2
      BY <2>1, <3>1
    <3>3. QED
      BY <2>1, <2>3, <3>2, FaultyStep DEF server
  <2>4. QED
    BY <2>2, <2>3
<1>4. CASE op # None /\ op.stage \notin {"begin", "read"}
  <2>1. op.action.path \in Path
    BY <1>4 DEF TypeInv, TypeOK, Operation, SyncAction
  <2>2. IsFiniteSet(Debt') /\ Cardinality(Debt') <= Cardinality(Debt) + 2
    BY <1>2, <2>1, MoreOwed DEF TrafficInv
  <2>3. QED
    BY <1>4, <2>2, FaultyStep DEF server
<1>5. QED
  BY <1>3, <1>4

\* FirstCycle: nothing is after the token it stores.
LEMMA FirstCycleTraffic ==
  ASSUME TypeInv, DriveInv, PhaseInv, QueueInv({}), TrafficInv, FirstCycle
  PROVE  TrafficInv'
<1>1. /\ changes = {} /\ queue = {} /\ op = None
      /\ UNCHANGED <<files, server, rows, changes, queue, op, steps>> /\ token' = head
  BY DEF FirstCycle, PhaseInv
<1>2. ASSUME NEW q \in Path
      PROVE  NoMore(q)
  <2>1. Late(q)' = {}
    <3>1. \A i \in FileId : Exists(i)' => ~(token' < drive'[i].rev)
      BY <1>1 DEF DriveInv, Exists, DriveFile, server, TypeInv, TypeOK
    <3>2. QED
      BY <3>1 DEF Late
  <2>2. RowDebt(q)' = 0
    BY <2>1 DEF RowDebt
  <2>3. LocalDebt(q)' = LocalDebt(q)
    BY <1>1, LocalKept DEF LocalSame, files
  <2>4. Unsettled(q)' <= Unsettled(q) /\ Unsettled(q) \in 0..3
    BY <2>2, <2>3, Bits DEF Unsettled
  <2>5. \A m : (Costs(q, m) <=> m = Unsettled(q)) /\ (Costs(q, m)' <=> m = Unsettled(q)')
    BY <1>1, OwedUnheld
  <2>6. QED
    BY <2>4, <2>5 DEF NoMore
<1>3. QED
  BY <1>1, <1>2, NothingOwed, FreeStep DEF TrafficInv, server

\* AdvanceToken: what was late after the old token and is so after the new one.
LEMMA AdvanceTraffic ==
  ASSUME TypeInv, PhaseInv, QueueInv({}), TrafficInv, AdvanceToken
  PROVE  TrafficInv'
<1>1. /\ changes = {} /\ queue = {} /\ op = None /\ token # None /\ token <= newToken
      /\ UNCHANGED <<files, server, rows, changes, queue, op, steps>> /\ token' = newToken
  BY DEF AdvanceToken, PhaseInv
<1>2. token \in Nat /\ newToken \in Nat
  BY <1>1 DEF TypeInv, TypeOK
<1>3. ASSUME NEW q \in Path
      PROVE  NoMore(q)
  <2>1. Late(q)' \subseteq Late(q)
    <3>1. \A i \in FileId : Exists(i) /\ newToken < drive[i].rev => token < drive[i].rev
      BY <1>1, <1>2 DEF Exists, DriveFile
    <3>2. QED
      BY <1>1, <3>1 DEF Late, Exists, server
  <2>2. RowDebt(q)' <= RowDebt(q)
    BY <1>1, <2>1 DEF RowDebt, RemoteChanged, server
  <2>3. LocalDebt(q)' = LocalDebt(q)
    BY <1>1, LocalKept DEF LocalSame, files
  <2>4. Unsettled(q)' <= Unsettled(q) /\ Unsettled(q) \in 0..3
    BY <2>2, <2>3, Bits DEF Unsettled
  <2>5. \A m : (Costs(q, m) <=> m = Unsettled(q)) /\ (Costs(q, m)' <=> m = Unsettled(q)')
    BY <1>1, OwedUnheld
  <2>6. QED
    BY <2>4, <2>5 DEF NoMore
<1>4. QED
  BY <1>1, <1>3, NothingOwed, FreeStep DEF TrafficInv, server

\* Pop: the action goes from the queue into hand.
LEMMA PopTraffic ==
  ASSUME TypeInv, TypeInv', QueueInv({}), TrafficInv, NEW a \in queue, Pop(a)
  PROVE  TrafficInv'
<1>1. /\ UNCHANGED <<local, server, rows, token, changes, steps>>
      /\ op = None /\ queue' = queue \ {a} /\ a \in SyncAction
      /\ op' = [action |-> a, stage |-> "begin", content |-> None, server |-> None,
                copy |-> None, file |-> None]
  BY DEF Pop, files, database, TypeInv, TypeOK
<1>2. PICK o : o = op'
  OBVIOUS
<1>3. o # None /\ o.action = a /\ o.stage = "begin" /\ a.path \in Path /\ a.kind \in Kinds
  <2>1. o \in Operation
    BY <1>1, <1>2 DEF TypeInv, TypeOK, Operation, Stages
  <2>2. QED
    BY <1>1, <1>2, <2>1, NoneIsApart DEF SyncAction
<1>4. \A q \in Path : LocalSame(q) /\ DriveSame(q)
  BY <1>1, LocalKept, DriveKept DEF server
<1>5. ASSUME NEW q \in Path, q # a.path
      PROVE  NoMore(q)
  <2>1. InHand(q)' = InHand(q) /\ OnPath(queue, q)' = OnPath(queue, q)
    BY <1>1, <1>2, <1>3, <1>5 DEF InHand, OnPath
  <2>2. Incoming(q)' = Incoming(q)
    BY <1>1 DEF Incoming, RemoteChanged
  <2>3. QED
    BY <1>4, <2>1, <2>2, PathSame DEF MemorySame
<1>6. NoMore(a.path)
  <2>1. InHand(a.path) = {} /\ OnPath(queue, a.path) = {a}
    BY <1>1 DEF InHand, OnPath, QueueInv
  <2>2. ActionCost(a)' = ActionCost(a) /\ ActionCost(a) \in 0..3
    BY <1>3, <1>4, ActionCostBounds
  <2>3. OpCost(o)' = ActionCost(a)'
    BY <1>3 DEF OpCost
  <2>4. \A m : Costs(a.path, m)' => m = OpCost(o)'
    BY <1>2, <1>3, OwedInHand
  <2>5. \A m : Costs(a.path, m) <=> m = ActionCost(a)
    BY <2>1, OwedInQueue
  <2>6. QED
    BY <2>2, <2>3, <2>4, <2>5 DEF NoMore
<1>7. QED
  BY <1>1, <1>5, <1>6, NothingOwed, FreeStep DEF TrafficInv, server

\* FetchPage: a listed file is late, and it is the only late one of its name.
LEMMA FetchTraffic ==
  ASSUME TypeInv, DriveInv, PhaseInv, QueueInv({}), DistinctIn(Path), TrafficInv, FetchPage
  PROVE  TrafficInv'
<1>1. /\ phase = "fetch" /\ queue = {} /\ op = None /\ token # None /\ token <= cursor
      /\ UNCHANGED <<files, server, rows, token, queue, op, steps>>
      /\ changes' = changes \cup {Entry(i) : i \in {j \in FileId :
                         Exists(j) /\ cursor < drive[j].rev /\ drive[j].rev <= cursor'}}
  BY PageFetched DEF FetchPage, PhaseInv
<1>2. token \in Nat /\ cursor \in Nat /\ None \notin DriveFile
  BY <1>1, CycleAssumption DEF TypeInv, TypeOK
<1>3. \A q \in Path : LocalSame(q) /\ DriveSame(q)
  BY <1>1, LocalKept, DriveKept DEF server, files
<1>4. ASSUME NEW q \in Path
      PROVE  NoMore(q)
  <2>1. ASSUME NEW c \in Incoming(q)', c \notin Incoming(q)
        PROVE  /\ \E i \in Late(q) :
                     rows[q] = None \/ rows[q].id # i \/ RemoteChanged(drive[i], rows[q])
               /\ ~\E i \in Late(q) :
                     i # c.id \/ drive[i].md5 # c.md5 \/ drive[i].modified # c.modified
    <3>1. /\ c \in changes' /\ c.status = "live" /\ c.name = q
          /\ rows[q] = None \/ rows[q].id # c.id \/ RemoteChanged(c, rows[q])
      BY <1>1, <2>1 DEF Incoming, RemoteChanged
    <3>2. c \notin changes
      BY <2>1, <3>1 DEF Incoming
    <3>3. PICK i \in FileId : /\ Exists(i) /\ cursor < drive[i].rev /\ c = Entry(i)
      BY <1>1, <3>1, <3>2
    <3>4. /\ c.id = i /\ drive[i].name = q /\ drive[i].status = "live" /\ drive[i].md5 = c.md5
          /\ drive[i].modified = c.modified
      BY <3>1, <3>3 DEF Entry
    <3>5. i \in Late(q)
      BY <1>1, <1>2, <3>3, <3>4 DEF Late, Exists, DriveFile
    <3>6. rows[q] = None \/ rows[q].id # i \/ RemoteChanged(drive[i], rows[q])
      BY <3>1, <3>4 DEF RemoteChanged
    <3>7. \A j \in Late(q) : j = i
      BY <1>2, <3>3, <3>4 DEF Late, Exists, DistinctIn
    <3>8. QED
      BY <3>4, <3>5, <3>6, <3>7
  <2>2. Incoming(q) \subseteq Incoming(q)'
    BY <1>1 DEF Incoming, RemoteChanged
  <2>3. \A f : NewerDebt(q, f)' = NewerDebt(q, f)
    BY <1>3 DEF DriveSame
  <2>4. \A c \in Incoming(q)' : c \notin Incoming(q) => NewerDebt(q, c) = 0 /\ RowDebt(q) = 1
    BY <2>1 DEF NewerDebt, RowDebt
  <2>5. ListedDebt(q)' = ListedDebt(q)
    BY <2>2, <2>3, <2>4 DEF ListedDebt
  <2>6. /\ LocalDebt(q)' = LocalDebt(q) /\ LocalDebt(q) \in 0..1
        /\ RowDebt(q)' = RowDebt(q) /\ RowDebt(q) \in 0..1
        /\ ListedDebt(q) \in 0..1
    BY <1>3, Bits DEF LocalSame, DriveSame
  <2>7. RestCost(q)' <= RestCost(q) /\ RestCost(q) \in 0..3
    <3>1. CASE Incoming(q)' = {}
      <4>1. RestCost(q)' = Unsettled(q)' /\ Incoming(q) = {}
        BY <2>2, <3>1 DEF RestCost
      <4>2. QED
        BY <2>6, <4>1 DEF RestCost, Unsettled
    <3>2. CASE Incoming(q) # {}
      BY <2>2, <2>5, <2>6, <3>2 DEF RestCost
    <3>3. CASE Incoming(q) = {} /\ Incoming(q)' # {}
      <4>1. RowDebt(q) = 1
        BY <2>4, <3>3
      <4>2. ListedDebt(q) = 0
        BY <3>3 DEF ListedDebt
      <4>3. RestCost(q)' = 1 + LocalDebt(q)' + ListedDebt(q)'
        BY <3>3 DEF RestCost
      <4>4. RestCost(q) = LocalDebt(q) + RowDebt(q)
        BY <3>3 DEF RestCost, Unsettled
      <4>5. QED
        BY <2>5, <2>6, <4>1, <4>2, <4>3, <4>4
    <3>4. QED
      BY <3>1, <3>2, <3>3
  <2>8. /\ InHand(q) = {} /\ OnPath(queue, q) = {}
        /\ InHand(q)' = {} /\ OnPath(queue, q)' = {}
    BY <1>1 DEF InHand, OnPath
  <2>9. \A m : (Costs(q, m) <=> m = RestCost(q)) /\ (Costs(q, m)' <=> m = RestCost(q)')
    BY <2>8, OwedAtRest
  <2>10. QED
    BY <2>7, <2>9 DEF NoMore
<1>5. QED
  BY <1>1, <1>4, NothingOwed, FreeStep DEF TrafficInv, server

\* Scan: what the local side of a queued action says of its file.
LEMMA ScannedLocal ==
  ASSUME TypeInv, Scan, NEW a \in queue'
  PROVE  /\ a.path \in Path /\ a.kind \in Kinds
         /\ a.kind \in UploadKinds \cup {"DeleteRemote", "Conflict"} => LocalAhead(a.path)
         /\ a.kind \in UploadKinds => ~Moved(a)
         /\ a.kind = "DeleteRemote" =>
              local[a.path] = None /\ rows[a.path] # None /\ a.state = rows[a.path]
<1> DEFINE L == ComputeLocalChanges(local, rows)
           R == ComputeRemoteChanges(changes, rows)
<1>1. a.path \in Path /\ a.kind \in Kinds
  BY MergedActionsOK DEF Scan, SyncAction
<1>2. ASSUME NEW u \in L
      PROVE  /\ LocalAhead(u.path)
             /\ u.kind \in UploadKinds => ~Moved(u)
             /\ u.kind = "DeleteRemote" =>
                  local[u.path] = None /\ rows[u.path] # None /\ u.state = rows[u.path]
  BY DEF ComputeLocalChanges, FromLocal, LocalAhead, Moved, UploadKinds
<1>3. CASE a \in L
  BY <1>1, <1>2, <1>3
<1>4. CASE \E d \in R : a = Resolve(d, L, R)
  <2>1. PICK d \in R : a = Resolve(d, L, R)
    BY <1>4
  <2>2. d \in SyncAction /\ d.kind \in {"DeleteLocal", "UpdateDownload", "NewDownload"}
    <3>1. d \in SyncAction
      BY RemoteActionsOK
    <3>2. QED
      BY <3>1 DEF ComputeRemoteChanges, RemoteAction, FromChange, RemoteKind
  <2>3. CASE a = d
    BY <1>1, <2>2, <2>3 DEF UploadKinds
  <2>4. ASSUME NEW u \in L, u.path = d.path, a = Conflict(u, d)
        PROVE  a.kind = "Conflict" /\ LocalAhead(a.path)
    <3>1. a.kind = "Conflict" /\ a.path = d.path
      BY <2>2, <2>4 DEF Conflict, SyncAction
    <3>2. QED
      BY <1>2, <2>4, <3>1
  <2>5. a = d \/ \E u \in L : u.path = d.path /\ a = Conflict(u, d)
    BY <2>1 DEF Resolve, OnPath
  <2>6. QED
    BY <1>1, <2>3, <2>4, <2>5 DEF UploadKinds
<1>5. QED
  BY <1>3, <1>4 DEF Scan, MergeActions

\* The actions of a scan owe no more than the listing did.
LEMMA ScannedCost ==
  ASSUME TypeInv, RowInv, ListingInv, Scan, NEW a \in queue'
  PROVE  ActionCost(a) <= RestCost(a.path)
<1> DEFINE p == a.path
<1>1. /\ LocalDebt(p) \in 0..1 /\ RowDebt(p) \in 0..1 /\ FileDebt(p) \in 0..1
      /\ ListedDebt(p) \in 0..1 /\ LateDebt(p) \in 0..1 /\ MovedDebt(a) \in 0..1
      /\ \A f : NewerDebt(p, f) \in 0..1
      /\ \A id : OtherDebt(p, id) \in 0..1
      /\ Unsettled(p) <= RestCost(p) /\ RestCost(p) \in 0..3
  BY Bits, RestCostBounds
<1>2. p \in Path
  BY ScannedLocal
<1>3. CASE a.kind \in UploadKinds
  <2>1. LocalDebt(p) = 1 /\ MovedDebt(a) = 0
    BY <1>3, ScannedLocal DEF LocalDebt, MovedDebt
  <2>2. ActionCost(a) = Unsettled(p)
    <3>1. ActionCost(a) = 1 + MovedDebt(a) + RowDebt(p)
      BY <1>3 DEF ActionCost, UploadKinds, DownloadKinds
    <3>2. QED
      BY <1>1, <2>1, <3>1 DEF Unsettled
  <2>3. QED
    BY <1>1, <2>2
<1>4. CASE a.kind = "DeleteRemote"
  <2>1. LocalDebt(p) = 1 /\ FileDebt(p) = 0 /\ rows[p] # None /\ a.state = rows[p]
    BY <1>4, ScannedLocal DEF LocalDebt, FileDebt
  <2>2. OtherDebt(p, a.state.id) <= RowDebt(p)
    BY <2>1 DEF OtherDebt, RowDebt
  <2>3. ActionCost(a) = Unsettled(p)
    <3>1. ActionCost(a) = Larger(Unsettled(p), 1 + FileDebt(p) + OtherDebt(p, a.state.id))
      BY <1>4 DEF ActionCost, UploadKinds, DownloadKinds
    <3>2. QED
      BY <1>1, <2>1, <2>2, <3>1 DEF Larger, Unsettled
  <2>4. QED
    BY <1>1, <2>3
<1>5. ASSUME NEW c \in changes, Latest(c), Carries(a, c)
      PROVE  ActionCost(a) <= RestCost(p)
  <2>1. /\ YieldsAction(c, rows) /\ p = drive[c.id].name /\ a.file = c
        /\ ChangePath(c, rows) = p /\ c.name = p /\ Listed(c) /\ Exists(c.id) /\ c.id \in FileId
    BY <1>5, ChangeOnName DEF Latest, Yielding, Carries, ListingInv, Listed, DriveChange
  <2>2. CASE a.kind = "DeleteLocal"
    <3>1. HasRow(c.id, rows) /\ drive[c.id].status = "removed"
      BY <1>5, <2>1, <2>2 DEF Carries, Listed, DownloadKinds
    <3>2. rows[p] # None /\ rows[p].id = c.id
      BY <2>1, <3>1, RowUnderName
    <3>3. \A i \in Late(p) : i # c.id
      BY <3>1 DEF Late
    <3>4. LateDebt(p) <= RowDebt(p)
      BY <3>2, <3>3 DEF LateDebt, RowDebt
    <3>5. ActionCost(a) = Larger(Unsettled(p), LateDebt(p))
      BY <2>2 DEF ActionCost, UploadKinds, DownloadKinds
    <3>6. ActionCost(a) = Unsettled(p)
      BY <1>1, <3>4, <3>5 DEF Larger, Unsettled
    <3>7. QED
      BY <1>1, <3>6
  <2>3. CASE a.kind \in DownloadKinds \cup {"Conflict"}
    <3>1. c \in Incoming(p)
      BY <1>5, <2>1, <2>3 DEF Carries, Incoming, YieldsAction, DownloadKinds
    <3>2. /\ NewerDebt(p, c) <= ListedDebt(p)
          /\ RestCost(p) = 1 + LocalDebt(p) + ListedDebt(p)
      BY <1>1, <3>1 DEF ListedDebt, RestCost
    <3>3. CASE a.kind \in DownloadKinds
      <4>1. ActionCost(a) = Larger(Unsettled(p), 1 + NewerDebt(p, c))
        BY <2>1, <3>3 DEF ActionCost, UploadKinds, DownloadKinds
      <4>2. QED
        BY <1>1, <3>2, <4>1 DEF Larger
    <3>4. CASE a.kind = "Conflict"
      <4>1. LocalDebt(p) = 1
        BY <3>4, ScannedLocal DEF LocalDebt
      <4>2. ActionCost(a) = 2 + NewerDebt(p, c)
        BY <2>1, <3>4 DEF ActionCost, UploadKinds, DownloadKinds
      <4>3. QED
        BY <1>1, <3>2, <4>1, <4>2
    <3>5. QED
      BY <2>3, <3>3, <3>4
  <2>4. QED
    BY <1>5, <2>2, <2>3 DEF Carries
<1>6. QED
  BY <1>3, <1>4, <1>5, ScannedAction

\* Scan: each path owes what its action does, or what is unsettled.
LEMMA ScanTraffic ==
  ASSUME TypeInv, PhaseInv, RowInv, ListingInv, QueueInv({}), QueueInv({})', TrafficInv, Scan
  PROVE  TrafficInv'
<1>1. /\ UNCHANGED <<files, server, rows, token, steps, op>> /\ op = None /\ queue = {}
      /\ changes' = {}
  BY DEF Scan, PhaseInv, database
<1>2. \A q \in Path : LocalSame(q) /\ DriveSame(q)
  BY <1>1, LocalKept, DriveKept DEF server, files
<1>3. ASSUME NEW q \in Path
      PROVE  NoMore(q)
  <2>1. InHand(q) = {} /\ OnPath(queue, q) = {} /\ InHand(q)' = {} /\ Incoming(q)' = {}
    BY <1>1 DEF InHand, OnPath, Incoming
  <2>2. \A m : Costs(q, m) <=> m = RestCost(q)
    BY <2>1, OwedAtRest
  <2>3. RestCost(q) \in 0..3 /\ Unsettled(q) <= RestCost(q) /\ Unsettled(q) \in 0..2
    BY RestCostBounds, Bits DEF Unsettled
  <2>4. CASE OnPath(queue, q)' = {}
    <3>1. RestCost(q)' = Unsettled(q)
      <4>1. RestCost(q)' = Unsettled(q)'
        BY <2>1 DEF RestCost
      <4>2. QED
        BY <1>2, <4>1 DEF Unsettled, LocalSame, DriveSame
    <3>2. \A m : Costs(q, m)' <=> m = RestCost(q)'
      BY <2>1, <2>4, OwedAtRest
    <3>3. QED
      BY <2>2, <2>3, <3>1, <3>2 DEF NoMore
  <2>5. CASE OnPath(queue, q)' # {}
    <3>1. PICK a \in queue' : a.path = q
      BY <2>5 DEF OnPath
    <3>2. OnPath(queue, q)' = {a}
      BY <3>1 DEF OnPath, QueueInv
    <3>3. ActionCost(a)' = ActionCost(a) /\ ActionCost(a) \in 0..3
      BY <1>2, <3>1, ScannedLocal, ActionCostBounds
    <3>4. ActionCost(a) <= RestCost(q)
      BY <3>1, ScannedCost
    <3>5. \A m : Costs(q, m)' <=> m = ActionCost(a)'
      BY <2>1, <3>2, OwedInQueue
    <3>6. QED
      BY <2>2, <2>3, <3>3, <3>4, <3>5 DEF NoMore
  <2>6. QED
    BY <2>4, <2>5
<1>4. QED
  BY <1>1, <1>3, NothingOwed, FreeStep DEF TrafficInv, server

-----------------------------------------------------------------------------
(* The operation: its steps are free, pay for a write, lose its answer, or end it. *)

\* What holds while an operation is under way, and what its path owes.
LEMMA Operating ==
  ASSUME TypeInv, PhaseInv, QueueInv({}), op # None
  PROVE  /\ op \in Operation /\ op.action \in SyncAction /\ op.action.path \in Path
         /\ op.action.kind \in Kinds /\ op.stage \in Stages
         /\ WellFormed(op.action) /\ StageOK /\ Planned({}, op.action)
         /\ changes = {} /\ OnPath(queue, op.action.path) = {}
         /\ \A m : Costs(op.action.path, m) <=> m = OpCost(op)
         /\ OpCost(op) \in 0..3
         /\ op.stage \in {"begin", "read"} => OpCost(op) = ActionCost(op.action)
<1>1. /\ op \in Operation /\ op.action \in SyncAction /\ op.action.path \in Path
      /\ op.action.kind \in Kinds /\ op.stage \in Stages
      /\ WellFormed(op.action) /\ StageOK
  BY DEF TypeInv, TypeOK, References, Operation, SyncAction
<1>2. Planned({}, op.action) /\ changes = {} /\ OnPath(queue, op.action.path) = {}
  BY DEF QueueInv, PhaseInv, OnPath
<1>3. PICK o : o = op
  OBVIOUS
<1>4. (\A m : Costs(op.action.path, m) <=> m = OpCost(o)) /\ OpCost(o) \in 0..3
  BY <1>1, <1>3, OwedInHand, OpCostBounds
<1>5. op.stage \in {"begin", "read"} => OpCost(op) = ActionCost(op.action)
  BY DEF OpCost
<1>6. QED
  BY <1>1, <1>2, <1>3, <1>4, <1>5

\* The other paths, when their files, rows and Drive files are left alone.
LEMMA OthersKept ==
  ASSUME TypeInv, PhaseInv, QueueInv({}), op # None, op' = None \/ op'.action = op.action,
         UNCHANGED <<queue, changes, token>>, NEW q \in Path, q # op.action.path,
         local'[q] = local[q], rows'[q] = rows[q],
         \A i \in FileId : \/ drive'[i] = drive[i]
                           \/ /\ Exists(i) => drive[i].name = op.action.path
                              /\ Exists(i)' => drive'[i].name = op.action.path
  PROVE  NoMore(q)
<1>1. InHand(q)' = InHand(q) /\ OnPath(queue, q)' = OnPath(queue, q)
  BY DEF InHand, OnPath
<1>2. Incoming(q)' = Incoming(q)
  BY DEF Incoming, RemoteChanged
<1>3. LocalSame(q)
  BY LocalKept
<1>4. \A i \in FileId : \/ drive'[i] = drive[i]
                        \/ /\ Exists(i) => drive[i].name # q
                           /\ Exists(i)' => drive'[i].name # q
  OBVIOUS
<1>5. DriveSame(q)
  BY <1>4, DriveKept
<1>6. QED
  BY <1>1, <1>2, <1>3, <1>5, PathSame DEF MemorySame

\* What the operation's own path owes after a step, and after the last one.
LEMMA OwedNext ==
  ASSUME TypeInv', op # None, NEW p, p = op.action.path, NEW o, o # None, op' = o,
         o.action = op.action
  PROVE  /\ \A m : Costs(p, m)' <=> m = OpCost(o)'
         /\ OpCost(o)' \in 0..3
<1>1. o \in Operation /\ o.action.path = p
  BY DEF TypeInv, TypeOK
<1>2. o.action.kind \in Kinds /\ o.stage \in Stages
  BY <1>1 DEF Operation, SyncAction
<1>3. QED
  BY <1>1, <1>2, OwedInHand, OpCostBounds

\* After the last one.
LEMMA OwedLast ==
  ASSUME TypeInv, PhaseInv, QueueInv({}), op # None, NEW p, p = op.action.path,
         op' = None, UNCHANGED <<queue, changes>>
  PROVE  \A m : Costs(p, m)' <=> m = Unsettled(p)'
<1>1. changes = {} /\ OnPath(queue, p) = {}
  BY Operating
<1>2. InHand(p)' = {} /\ OnPath(queue, p)' = {} /\ Incoming(p)' = {}
  BY <1>1 DEF InHand, OnPath, Incoming
<1>3. RestCost(p)' = Unsettled(p)'
  BY <1>2 DEF RestCost
<1>4. QED
  BY <1>2, <1>3, OwedAtRest

\* A step that writes nothing to Drive.
LEMMA OperationGoesOn ==
  ASSUME TypeInv, TypeInv', PhaseInv, QueueInv({}), TrafficInv, op # None,
         NEW p, p = op.action.path, NEW o, o # None, op' = o, o.action = op.action,
         UNCHANGED <<server, rows, token, queue, changes, steps>>,
         \A q \in Path : q # p => local'[q] = local[q],
         OpCost(o)' <= OpCost(op)
  PROVE  TrafficInv'
<1>1. /\ p \in Path /\ OpCost(op) \in 0..3
      /\ \A m : Costs(p, m) <=> m = OpCost(op)
  BY Operating
<1>2. NoMore(p)
  BY <1>1, OwedNext DEF NoMore
<1>3. \A q \in Path : q # p => NoMore(q)
  BY OthersKept DEF server
<1>4. QED
  BY <1>2, <1>3, NothingOwed, FreeStep DEF TrafficInv, server

\* A write to Drive, answered.
LEMMA OperationPays ==
  ASSUME TypeInv, TypeInv', PhaseInv, QueueInv({}), TrafficInv, op # None,
         NEW p, p = op.action.path, NEW o, o # None, op' = o, o.action = op.action,
         UNCHANGED <<local, rows, token, queue, changes, steps>>, head' = head + 1,
         \A i \in FileId : \/ drive'[i] = drive[i]
                           \/ /\ Exists(i) => drive[i].name = p
                              /\ Exists(i)' => drive'[i].name = p,
         OpCost(o)' + 1 <= OpCost(op)
  PROVE  TrafficInv'
<1>1. /\ p \in Path /\ OpCost(op) \in 0..3
      /\ \A m : Costs(p, m) <=> m = OpCost(op)
  BY Operating
<1>2. OneLess(p)
  <2>1. OpCost(op) \in 1..3 /\ \A m \in 0..3 : Costs(p, m)' => m + 1 <= OpCost(op)
    BY <1>1, OwedNext
  <2>2. QED
    BY <1>1, <2>1 DEF OneLess
<1>3. \A q \in Path : q # p => NoMore(q)
  BY OthersKept
<1>4. QED
  BY <1>1, <1>2, <1>3, LessOwed, PayingStep DEF TrafficInv

\* A write to Drive whose answer is lost.
LEMMA OperationLost ==
  ASSUME TypeInv, PhaseInv, QueueInv({}), TrafficInv, op # None,
         NEW p, p = op.action.path, Forget, Spend("fault"),
         UNCHANGED <<local, rows, token>>, head' = head + 1,
         \A i \in FileId : \/ drive'[i] = drive[i]
                           \/ /\ Exists(i) => drive[i].name = p
                              /\ Exists(i)' => drive'[i].name = p,
         1 <= OpCost(op)
  PROVE  TrafficInv'
<1>1. /\ p \in Path /\ OpCost(op) \in 0..3
      /\ \A m : Costs(p, m) <=> m = OpCost(op)
  BY Operating
<1>2. MoreBy(p, 1)
  <2>1. \A m : Costs(p, m)' <=> m = Unsettled(p)'
    BY OwedUnheld DEF Forget
  <2>2. Unsettled(p)' <= 2 /\ 2 <= OpCost(op) + 1
    BY <1>1, Bits DEF Unsettled
  <2>3. \A m \in 0..3 : Costs(p, m)' => m <= OpCost(op) + 1
    BY <1>1, <2>1, <2>2
  <2>4. QED
    BY <1>1, <2>3 DEF MoreBy
<1>3. ASSUME NEW q \in Path, q # p
      PROVE  NoMore(q)
  <2>1. \A i \in FileId : \/ drive'[i] = drive[i]
                          \/ /\ Exists(i) => drive[i].name # q
                             /\ Exists(i)' => drive'[i].name # q
    BY <1>3
  <2>2. LocalSame(q) /\ DriveSame(q)
    BY <2>1, LocalKept, DriveKept
  <2>3. QED
    BY <1>3, <2>2, PathDropped DEF Forget
<1>4. IsFiniteSet(Debt') /\ Cardinality(Debt') <= Cardinality(Debt) + 1
  BY <1>1, <1>2, <1>3, MoreOwed DEF TrafficInv
<1>5. QED
  BY <1>4, FaultyStep

\* The operation fails, and owed what is unsettled.
LEMMA OperationFails ==
  ASSUME TypeInv, PhaseInv, QueueInv({}), TrafficInv, op # None,
         NEW p, p = op.action.path, Forget, UNCHANGED <<local, server, rows, token, steps>>,
         Unsettled(p) <= OpCost(op)
  PROVE  TrafficInv'
<1>1. /\ p \in Path /\ OpCost(op) \in 0..3
      /\ \A m : Costs(p, m) <=> m = OpCost(op)
  BY Operating
<1>2. \A q \in Path : LocalSame(q) /\ DriveSame(q)
  BY LocalKept, DriveKept DEF server
<1>3. NoMore(p)
  <2>1. \A m : Costs(p, m)' <=> m = Unsettled(p)'
    BY OwedUnheld DEF Forget
  <2>2. Unsettled(p)' = Unsettled(p)
    BY <1>1, <1>2 DEF Unsettled, LocalSame, DriveSame
  <2>3. QED
    BY <1>1, <2>1, <2>2 DEF NoMore
<1>4. \A q \in Path : q # p => NoMore(q)
  BY <1>2, PathDropped DEF Forget
<1>5. QED
  BY <1>3, <1>4, NothingOwed, FreeStep DEF TrafficInv, server

\* The last step, which writes the row.
LEMMA OperationEnds ==
  ASSUME TypeInv, PhaseInv, QueueInv({}), TrafficInv, op # None,
         NEW p, p = op.action.path, op' = None,
         UNCHANGED <<local, server, token, queue, changes, steps>>,
         \A q \in Path : q # p => rows'[q] = rows[q],
         Unsettled(p)' <= OpCost(op)
  PROVE  TrafficInv'
<1>1. /\ p \in Path /\ OpCost(op) \in 0..3
      /\ \A m : Costs(p, m) <=> m = OpCost(op)
  BY Operating
<1>2. NoMore(p)
  BY <1>1, OwedLast DEF NoMore
<1>3. \A q \in Path : q # p => NoMore(q)
  BY OthersKept DEF server
<1>4. QED
  BY <1>2, <1>3, NothingOwed, FreeStep DEF TrafficInv, server

\* ReadLocalFile and FetchContent: nothing is written, or the operation fails.
LEMMA ReadTraffic ==
  ASSUME TypeInv, TypeInv', PhaseInv, QueueInv({}), TrafficInv, ReadLocalFile \/ FetchContent
  PROVE  TrafficInv'
<1> DEFINE a == op.action
<1>0. PICK p : p = op.action.path
  OBVIOUS
<1>1. op # None /\ op.stage \in {"begin", "read", "copied"}
  BY DEF ReadLocalFile, FetchContent, At
<1>2. /\ op \in Operation /\ a \in SyncAction /\ p \in Path /\ a.kind \in Kinds
      /\ op.stage \in {"begin", "read"} => OpCost(op) = ActionCost(a)
  BY <1>0, <1>1, Operating
<1>3. /\ MovedDebt(a) \in 0..1 /\ LateDebt(p) \in 0..1 /\ LocalDebt(p) \in 0..1
      /\ RowDebt(p) \in 0..1 /\ \A f : NewerDebt(p, f) \in 0..1
  BY Bits
<1>4. CASE Fail
  <2>1. CASE op.stage \in {"begin", "read"}
    BY <1>4, <2>1, DroppedTraffic DEF Fail, files, database
  <2>2. CASE op.stage = "copied"
    <3>1. drive[a.file.id].status = "removed"
      <4>1. op' = None /\ a.kind = "Conflict" /\ FetchContent
        BY <1>4, <2>2 DEF ReadLocalFile, FetchContent, At, Fail, Forget, DownloadKinds
      <4>2. \A c \in Content : [op EXCEPT !.stage = "fetched", !.server = c] # None
        <5>1. "fetched" \in Stages
          BY DEF Stages
        <5>2. \A c \in Content : [op EXCEPT !.stage = "fetched", !.server = c] \in Operation
          BY <1>1, <5>1, OperationOK
        <5>3. QED
          BY <5>2, NoneIsApart
      <4>3. drive[a.file.id].md5 \in Content
        BY <1>1, <4>1, Operating DEF WellFormed, Exists, DriveFile
      <4>4. QED
        BY <4>1, <4>2, <4>3 DEF FetchContent
    <3>2. RowDebt(p) <= NewerDebt(p, a.file)
      <4>1. \A i \in Late(p) : i # a.file.id
        BY <3>1 DEF Late
      <4>2. QED
        BY <4>1 DEF RowDebt, NewerDebt
    <3>3. OpCost(op) = 1 + NewerDebt(p, a.file)
      BY <1>0, <2>2 DEF OpCost
    <3>4. Unsettled(p) <= OpCost(op)
      BY <1>3, <3>2, <3>3 DEF Unsettled
    <3>5. QED
      BY <1>0, <1>1, <1>4, <3>4, OperationFails DEF Fail, files, database
  <2>3. QED
    BY <1>1, <2>1, <2>2
<1>5. CASE ~Fail
  <2>1. PICK o : o = op'
    OBVIOUS
  <2>2. /\ UNCHANGED <<local, server, rows, token, Queued, steps>>
        /\ o # None /\ o.action = a
        /\ \/ op.stage = "begin" /\ o.stage = "read"
           \/ /\ o.stage = "fetched"
              /\ \/ op.stage = "begin" /\ a.kind \in DownloadKinds
                 \/ op.stage = "copied"
    <3>1. CASE ReadLocalFile
      <4>1. /\ UNCHANGED <<local, server, rows, token, Queued, steps>> /\ op.stage = "begin"
            /\ op' = [op EXCEPT !.stage = "read", !.content = local[p].md5]
            /\ local[p] # None
        BY <1>0, <1>5, <3>1 DEF ReadLocalFile, At, files, database
      <4>2. local[p].md5 \in Content
        BY <1>2, <4>1 DEF TypeInv, TypeOK, LocalFileMeta
      <4>3. op' \in Operation
        BY <1>1, <4>1, <4>2, OperationOK DEF Stages
      <4>4. QED
        BY <1>2, <2>1, <4>1, <4>3, NoneIsApart DEF Operation
    <3>2. CASE FetchContent
      <4>1. /\ UNCHANGED <<local, server, rows, token, Queued, steps>>
            /\ op' = [op EXCEPT !.stage = "fetched", !.server = drive[a.file.id].md5]
            /\ \/ op.stage = "begin" /\ a.kind \in DownloadKinds
               \/ op.stage = "copied" /\ a.kind = "Conflict"
        BY <1>5, <3>2 DEF FetchContent, At, files, database
      <4>2. drive[a.file.id].md5 \in Content
        BY <1>1, <4>1, Operating DEF WellFormed, Exists, DriveFile
      <4>3. op' \in Operation
        BY <1>1, <4>1, <4>2, OperationOK DEF Stages
      <4>4. QED
        BY <1>2, <2>1, <4>1, <4>3, NoneIsApart DEF Operation
    <3>3. QED
      BY <3>1, <3>2
  <2>3. LocalSame(p) /\ DriveSame(p)
    BY <2>2, LocalKept, DriveKept DEF server
  <2>4. OpCost(o)' <= OpCost(op)
    <3>1. CASE op.stage = "begin" /\ o.stage = "read"
      <4>1. OpCost(o)' = ActionCost(o.action)'
        BY <3>1 DEF OpCost
      <4>2. PICK b : b = a
        OBVIOUS
      <4>3. ActionCost(b)' = ActionCost(b) /\ ActionCost(b) \in 0..3
        BY <1>0, <1>2, <2>3, <4>2, ActionCostBounds
      <4>4. QED
        BY <1>2, <2>2, <3>1, <4>1, <4>2, <4>3
    <3>2. CASE o.stage = "fetched"
      <4>1. PICK f : f = a.file
        OBVIOUS
      <4>2. OpCost(o)' = 1 + NewerDebt(p, f)'
        BY <1>0, <2>2, <3>2, <4>1 DEF OpCost
      <4>3. NewerDebt(p, f)' = NewerDebt(p, f)
        BY <2>3 DEF DriveSame
      <4>4. 1 + NewerDebt(p, a.file) <= OpCost(op)
        <5>1. CASE op.stage = "copied"
          BY <1>0, <1>3, <5>1 DEF OpCost
        <5>2. CASE op.stage = "begin" /\ a.kind \in DownloadKinds
          <6>1. OpCost(op) = Larger(Unsettled(p), 1 + NewerDebt(p, a.file))
            BY <1>0, <1>2, <5>2 DEF ActionCost, UploadKinds, DownloadKinds
          <6>2. QED
            BY <1>3, <6>1 DEF Larger, Unsettled
        <5>3. QED
          BY <2>2, <3>2, <5>1, <5>2
      <4>5. QED
        BY <4>1, <4>2, <4>3, <4>4
    <3>3. QED
      BY <2>2, <3>1, <3>2
  <2>5. QED
    BY <1>0, <1>1, <2>1, <2>2, <2>4, OperationGoesOn DEF Queued
<1>6. QED
  BY <1>4, <1>5

\* WriteDownload: the file changes under an operation that owes no local write.
LEMMA WriteTraffic ==
  ASSUME TypeInv, TypeInv', PhaseInv, QueueInv({}), TrafficInv, WriteDownload
  PROVE  TrafficInv'
<1> DEFINE a == op.action
<1>0. PICK p, o, f : p = op.action.path /\ o = op' /\ f = op.action.file
  OBVIOUS
<1>1. /\ op # None /\ op.stage = "fetched" /\ op.server \in Content
      /\ op' = [op EXCEPT !.stage = "written"] /\ WriteFile(p, op.server)
      /\ UNCHANGED <<server, rows, token, Queued, steps>>
  BY <1>0 DEF WriteDownload, At, TypeInv, References, StageOK, database
<1>2. /\ op \in Operation /\ p \in Path /\ local \in [Path -> LocalFileMeta \cup {None}]
  BY <1>0, <1>1, Operating DEF TypeInv, TypeOK
<1>3. o \in Operation /\ o # None /\ o.action = a /\ o.stage = "written"
  <2>1. o \in Operation
    BY <1>0, <1>1, OperationOK DEF Stages
  <2>2. QED
    BY <1>0, <1>1, <1>2, <2>1, NoneIsApart DEF Operation
<1>4. \A q \in Path : q # p => local'[q] = local[q]
  BY <1>1, <1>2 DEF WriteFile
<1>5. OpCost(o)' <= OpCost(op)
  <2>1. OpCost(o)' = 1 + NewerDebt(p, f)' /\ OpCost(op) = 1 + NewerDebt(p, f)
    BY <1>0, <1>1, <1>3 DEF OpCost
  <2>2. NewerDebt(p, f)' = NewerDebt(p, f) /\ NewerDebt(p, f) \in 0..1
    <3>1. Late(p)' = Late(p)
      BY <1>1 DEF Late, Exists, server
    <3>2. QED
      BY <1>1, <3>1 DEF NewerDebt, server
  <2>3. QED
    BY <2>1, <2>2
<1>6. QED
  BY <1>0, <1>1, <1>3, <1>4, <1>5, OperationGoesOn DEF Queued

\* WriteConflictCopy: a conflict owes one write for its copy, which the copy then owes.
LEMMA CopyTraffic ==
  ASSUME TypeInv, TypeInv', PhaseInv, QueueInv({}), TrafficInv, WriteConflictCopy
  PROVE  TrafficInv'
<1> DEFINE a == op.action
<1>0. PICK p, o, f : p = op.action.path /\ o = op' /\ f = op.action.file
  OBVIOUS
<1>1. PICK r \in Path :
        /\ op # None /\ op.stage = "read" /\ op.content \in Content /\ a.kind = "Conflict"
        /\ op' = [op EXCEPT !.stage = "copied", !.copy = r] /\ WriteFile(r, op.content)
        /\ UNCHANGED <<server, rows, token, Queued, steps>>
  BY DEF WriteConflictCopy, At, TypeInv, References, StageOK, database
<1>2. /\ op \in Operation /\ p \in Path /\ local \in [Path -> LocalFileMeta \cup {None}]
      /\ OpCost(op) = ActionCost(a) /\ OpCost(op) \in 0..3
      /\ \A m : Costs(p, m) <=> m = OpCost(op)
  BY <1>0, <1>1, Operating DEF TypeInv, TypeOK
<1>3. o \in Operation /\ o # None /\ o.action = a /\ o.stage = "copied"
  <2>1. o \in Operation
    BY <1>0, <1>1, OperationOK DEF Stages
  <2>2. QED
    BY <1>0, <1>1, <1>2, <2>1, NoneIsApart DEF Operation
<1>4. \A q \in Path : q # r => local'[q] = local[q]
  BY <1>1, <1>2 DEF WriteFile
<1>5. OneLess(p)
  <2>1. OpCost(op) = 2 + NewerDebt(p, f)
    BY <1>0, <1>1, <1>2 DEF ActionCost, UploadKinds, DownloadKinds
  <2>2. OpCost(o)' = 1 + NewerDebt(p, f)'
    BY <1>0, <1>3 DEF OpCost
  <2>3. NewerDebt(p, f)' = NewerDebt(p, f) /\ NewerDebt(p, f) \in 0..1
    <3>1. Late(p)' = Late(p)
      BY <1>1 DEF Late, Exists, server
    <3>2. QED
      BY <1>1, <3>1 DEF NewerDebt, server
  <2>4. \A m : Costs(p, m)' <=> m = OpCost(o)'
    BY <1>0, <1>1, <1>3, OwedNext
  <2>5. OpCost(op) \in 1..3 /\ \A m \in 0..3 : Costs(p, m)' => m + 1 <= OpCost(op)
    BY <1>2, <2>1, <2>2, <2>3, <2>4
  <2>6. QED
    BY <1>2, <2>5 DEF OneLess
<1>6. \A q \in Path : q # p /\ q # r => NoMore(q)
  BY <1>0, <1>1, <1>3, <1>4, OthersKept DEF server, Queued
<1>7. CASE r = p
  <2>1. IsFiniteSet(Debt') /\ Cardinality(Debt') + 1 <= Cardinality(Debt)
    BY <1>2, <1>5, <1>6, <1>7, LessOwed DEF TrafficInv
  <2>2. Cardinality(Debt') <= Cardinality(Debt)
    BY <2>1, FS_CardinalityType DEF TrafficInv
  <2>3. QED
    BY <1>1, <2>1, <2>2, FreeStep DEF server
<1>8. CASE r # p
  <2>1. MemorySame(r) /\ DriveSame(r)
    <3>1. InHand(r)' = InHand(r)
      BY <1>0, <1>3, <1>8 DEF InHand
    <3>2. OnPath(queue, r)' = OnPath(queue, r) /\ Incoming(r)' = Incoming(r)
      BY <1>1 DEF OnPath, Incoming, RemoteChanged, Queued
    <3>3. DriveSame(r)
      BY <1>1, DriveKept DEF server
    <3>4. QED
      BY <3>1, <3>2, <3>3 DEF MemorySame
  <2>2. MoreBy(r, 1)
    BY <2>1, PathTouched
  <2>3. IsFiniteSet(Debt') /\ Cardinality(Debt') <= Cardinality(Debt)
    BY <1>2, <1>5, <1>6, <1>8, <2>2, OwedElsewhere DEF TrafficInv
  <2>4. QED
    BY <1>1, <2>3, FreeStep DEF server
<1>9. QED
  BY <1>7, <1>8

\* DeleteLocalFile: what is left is for the row to drop.
LEMMA RemoveTraffic ==
  ASSUME TypeInv, TypeInv', PhaseInv, QueueInv({}), TrafficInv, DeleteLocalFile
  PROVE  TrafficInv'
<1> DEFINE a == op.action
<1>0. PICK p, o : p = op.action.path /\ o = op'
  OBVIOUS
<1>1. op # None /\ op.stage = "begin" /\ a.kind = "DeleteLocal"
  BY DEF DeleteLocalFile, At
<1>2. /\ op \in Operation /\ p \in Path /\ local \in [Path -> LocalFileMeta \cup {None}]
      /\ OpCost(op) = ActionCost(a)
  BY <1>0, <1>1, Operating DEF TypeInv, TypeOK
<1>3. CASE Fail
  BY <1>1, <1>3, DroppedTraffic DEF Fail, files, database
<1>4. CASE ~Fail
  <2>1. /\ local' = [local EXCEPT ![p] = None] /\ op' = [op EXCEPT !.stage = "dropped"]
        /\ UNCHANGED <<server, rows, token, Queued, steps>>
    BY <1>0, <1>4 DEF DeleteLocalFile, database
  <2>2. o \in Operation /\ o # None /\ o.action = a /\ o.stage = "dropped"
    <3>1. o \in Operation
      BY <1>0, <1>1, <2>1, OperationOK DEF Stages
    <3>2. QED
      BY <1>0, <1>2, <2>1, <3>1, NoneIsApart DEF Operation
  <2>3. \A q \in Path : q # p => local'[q] = local[q]
    BY <1>2, <2>1
  <2>4. OpCost(o)' <= OpCost(op)
    <3>1. OpCost(o)' = FileDebt(p)' + LateDebt(p)'
      BY <1>0, <2>2 DEF OpCost
    <3>2. FileDebt(p)' = 0
      BY <1>2, <2>1 DEF FileDebt
    <3>3. LateDebt(p)' = LateDebt(p)
      BY <2>1 DEF LateDebt, Late, Exists, server
    <3>4. OpCost(op) = Larger(Unsettled(p), LateDebt(p))
      BY <1>0, <1>1, <1>2 DEF ActionCost, UploadKinds, DownloadKinds
    <3>5. LateDebt(p) \in 0..1 /\ LocalDebt(p) \in 0..1 /\ RowDebt(p) \in 0..1
      BY Bits
    <3>6. QED
      BY <3>1, <3>2, <3>3, <3>4, <3>5 DEF Larger, Unsettled
  <2>5. QED
    BY <1>0, <1>1, <2>1, <2>2, <2>3, <2>4, OperationGoesOn DEF Queued
<1>5. QED
  BY <1>3, <1>4

\* The rows: RecordDownload leaves one that looks changed locally, RecordUpload one that
\* does not unless the file was edited meanwhile, and DropRow none.
LEMMA RecordTraffic ==
  ASSUME MtimeSurvives, TypeInv, TypeInv', PhaseInv, QueueInv({}), TrafficInv, Records
  PROVE  TrafficInv'
<1> DEFINE a == op.action
<1>0. PICK p : p = op.action.path
  OBVIOUS
<1>1. /\ op # None /\ op' = None
      /\ UNCHANGED <<local, server, token, Queued, steps>>
  BY DEF Records, RecordUpload, RecordDownload, DropRow, At, files
<1>2. /\ op \in Operation /\ p \in Path /\ rows \in [Path -> FileState \cup {None}]
      /\ rows' \in [Path -> FileState \cup {None}] /\ None \notin FileState
  BY <1>0, <1>1, Operating, NoneIsApart DEF TypeInv, TypeOK
<1>3. /\ LocalDebt(p)' \in 0..1 /\ RowDebt(p)' \in 0..1 /\ FileDebt(p) \in 0..1
      /\ LateDebt(p) \in 0..1 /\ MovedDebt(a) \in 0..1
      /\ \A f : NewerDebt(p, f) \in 0..1
  BY Bits
<1>4. Late(p)' = Late(p) /\ drive' = drive
  BY <1>1 DEF Late, Exists, server
<1>5. ASSUME NEW f, rows'[p] # None, rows'[p].id = f.id, rows'[p].driveMd5 = f.md5,
             rows'[p].driveModified = f.modified
      PROVE  RowDebt(p)' <= NewerDebt(p, f)
  BY <1>4, <1>5 DEF RowDebt, NewerDebt, RemoteChanged
<1>6. ASSUME Unsettled(p)' <= OpCost(op), \A q \in Path : q # p => rows'[q] = rows[q]
      PROVE  TrafficInv'
  BY <1>0, <1>1, <1>6, OperationEnds DEF Queued
<1>7. CASE RecordUpload
  <2> DEFINE row == [id |-> op.file.id,
                     driveMd5 |-> op.file.md5, driveModified |-> op.file.modified,
                     localMd5 |-> a.md5, localModified |-> a.mtime]
  <2>1. rows' = [rows EXCEPT ![p] = row] /\ op.stage = "sent"
    BY <1>0, <1>7 DEF RecordUpload, At, StoredMtime
  <2>2. /\ rows'[p] = row /\ rows'[p] # None
        /\ \A q \in Path : q # p => rows'[q] = rows[q]
    <3>1. rows'[p] = row /\ \A q \in Path : q # p => rows'[q] = rows[q]
      BY <1>2, <2>1
    <3>2. op.file \in Response /\ a.md5 \in Content /\ a.mtime \in Nat
      BY <1>1, <1>2, <1>7, <2>1, Operating
      DEF StageOK, WellFormed, RecordUpload, At, SyncAction
    <3>3. row \in FileState
      BY <3>2 DEF FileState, Response
    <3>4. QED
      BY <1>2, <3>1, <3>3
  <2>3. OpCost(op) = MovedDebt(a) + NewerDebt(p, op.file)
    BY <1>0, <2>1 DEF OpCost
  <2>4. RowDebt(p)' <= NewerDebt(p, op.file)
    BY <1>5, <2>2
  <2>5. LocalDebt(p)' <= MovedDebt(a)
    BY <1>0, <1>1, <2>2 DEF LocalDebt, LocalAhead, LocalChanged, MovedDebt, Moved
  <2>6. Unsettled(p)' <= OpCost(op)
    BY <1>3, <2>3, <2>4, <2>5 DEF Unsettled
  <2>7. QED
    BY <1>6, <2>2, <2>6
<1>8. CASE RecordDownload
  <2> DEFINE c == a.file
             row == [id |-> c.id, driveMd5 |-> c.md5, driveModified |-> c.modified,
                     localMd5 |-> c.md5, localModified |-> NoTime]
  <2>1. rows' = [rows EXCEPT ![p] = row] /\ op.stage = "written"
    BY <1>0, <1>8 DEF RecordDownload, At
  <2>2. /\ rows'[p] = row /\ rows'[p] # None
        /\ \A q \in Path : q # p => rows'[q] = rows[q]
    <3>1. rows'[p] = row /\ \A q \in Path : q # p => rows'[q] = rows[q]
      BY <1>2, <2>1
    <3>2. c \in DriveChange
      BY <1>1, <1>8, Operating DEF WellFormed, RecordDownload, At
    <3>3. row \in FileState
      BY <3>2 DEF FileState, DriveChange, NoTime
    <3>4. QED
      BY <1>2, <3>1, <3>3
  <2>3. OpCost(op) = 1 + NewerDebt(p, c)
    BY <1>0, <2>1 DEF OpCost
  <2>4. RowDebt(p)' <= NewerDebt(p, c)
    BY <1>5, <2>2
  <2>5. Unsettled(p)' <= OpCost(op)
    BY <1>3, <2>3, <2>4 DEF Unsettled
  <2>6. QED
    BY <1>6, <2>2, <2>5
<1>9. CASE DropRow
  <2>1. /\ rows' = [rows EXCEPT ![p] = None] /\ op.stage = "dropped"
    BY <1>0, <1>9 DEF DropRow, At
  <2>2. rows'[p] = None /\ \A q \in Path : q # p => rows'[q] = rows[q]
    BY <1>2, <2>1
  <2>3. OpCost(op) = FileDebt(p) + LateDebt(p)
    BY <1>0, <2>1 DEF OpCost
  <2>4. LocalDebt(p)' <= FileDebt(p)
    BY <1>1, <2>2 DEF LocalDebt, LocalAhead, FileDebt
  <2>5. RowDebt(p)' <= LateDebt(p)
    BY <1>4 DEF RowDebt, LateDebt
  <2>6. Unsettled(p)' <= OpCost(op)
    BY <1>3, <2>3, <2>4, <2>5 DEF Unsettled
  <2>7. QED
    BY <1>6, <2>2, <2>6
<1>10. QED
  BY <1>7, <1>8, <1>9 DEF Records

\* The answer of an upload shows the file it wrote, so what is late beside it was late
\* before, and not in the row.
LEMMA UploadTraffic ==
  ASSUME Large = {}, TypeInv, TypeInv', DriveInv, RowInv, PhaseInv, QueueInv({}), TrafficInv,
         UpdateRemoteFile \/ \E id \in FileId : CreateRemoteFile(id)
  PROVE  TrafficInv'
<1> DEFINE a == op.action
<1>0. PICK p, o, b : p = op.action.path /\ o = op' /\ b = op.action
  OBVIOUS
<1>1. op # None /\ op.stage = "read" /\ a.kind \in UploadKinds
  BY DEF UpdateRemoteFile, CreateRemoteFile, At, UploadKinds
<1>2. /\ op \in Operation /\ p \in Path /\ op.content \in Content /\ Planned({}, a)
      /\ a.kind \in {"UpdateUpload"} => a.state \in FileState /\ Exists(a.state.id)
      /\ OpCost(op) = 1 + MovedDebt(b) + RowDebt(p)
  <2>1. /\ op \in Operation /\ p \in Path /\ op.content \in Content /\ Planned({}, a)
        /\ a.kind \in {"UpdateUpload"} => a.state \in FileState /\ Exists(a.state.id)
        /\ OpCost(op) = ActionCost(a)
    BY <1>0, <1>1, Operating DEF StageOK, WellFormed
  <2>2. ActionCost(a) = 1 + MovedDebt(b) + RowDebt(p)
    BY <1>0, <1>1 DEF ActionCost, UploadKinds, DownloadKinds
  <2>3. QED
    BY <2>1, <2>2
<1>3. /\ MovedDebt(b) \in 0..1 /\ RowDebt(p) \in 0..1
      /\ \A f : NewerDebt(p, f)' \in 0..1
  BY Bits
<1>4. CASE Fail
  BY <1>1, <1>4, DroppedTraffic DEF Fail, files, database
<1>5. CASE ~Fail
  <2>1. PICK id \in FileId :
          /\ head' = head + 1 /\ \A i \in FileId : i # id => drive'[i] = drive[i]
          /\ Exists(id) => drive[id].name = p
          /\ Exists(id)' => drive'[id].name = p
          /\ drive'[id].md5 = op.content /\ drive'[id].modified = head + 1
          /\ AnsweredOrLost([op EXCEPT !.stage = "sent",
               !.file = [id |-> id, md5 |-> op.content, modified |-> head + 1]])
          /\ UNCHANGED <<local, rows, token>>
          /\ rows[p] # None => rows[p].id = id
    <3>1. ASSUME NEW id \in FileId, CreateRemoteFile(id)
          PROVE  /\ PutFile(id, NewFile(p, op.content)) /\ drive[id] = None
                 /\ AnsweredOrLost([op EXCEPT !.stage = "sent",
                      !.file = [id |-> id, md5 |-> op.content, modified |-> head + 1]])
                 /\ UNCHANGED <<local, rows, token>> /\ rows[p] = None
      BY <1>0, <1>2, <3>1
      DEF CreateRemoteFile, NextId, UploadAnswer, At, Planned, files, database
    <3>2. ASSUME NEW id \in FileId, CreateRemoteFile(id)
          PROVE  /\ head' = head + 1 /\ \A i \in FileId : i # id => drive'[i] = drive[i]
                 /\ drive'[id] = NewFile(p, op.content) /\ ~Exists(id)
      <4>1. drive \in [FileId -> DriveFile \cup {None}] /\ None \notin DriveFile
        BY CycleAssumption DEF TypeInv, TypeOK
      <4>2. QED
        BY <3>1, <3>2, <4>1 DEF PutFile, Exists
    <3>3. CASE \E id \in FileId : CreateRemoteFile(id)
      <4>1. PICK id \in FileId : CreateRemoteFile(id)
        BY <3>3
      <4>2. /\ NewFile(p, op.content).name = p /\ NewFile(p, op.content).md5 = op.content
            /\ NewFile(p, op.content).modified = head + 1
        BY DEF NewFile
      <4>3. QED
        BY <3>1, <3>2, <4>1, <4>2
    <3>4. CASE UpdateRemoteFile
      <4> DEFINE id == a.state.id
      <4>1. /\ a.kind = "UpdateUpload" /\ PutFile(id, Rewritten(id, op.content))
            /\ AnsweredOrLost([op EXCEPT !.stage = "sent",
                 !.file = [id |-> id, md5 |-> op.content, modified |-> head + 1]])
            /\ UNCHANGED <<local, rows, token>>
        BY <1>0, <1>5, <3>4 DEF UpdateRemoteFile, UploadAnswer, At, files, database
      <4>2. id \in FileId /\ Exists(id) /\ rows[p] # None /\ rows[p].id = id
        BY <1>0, <1>2, <4>1, NoneIsApart DEF Planned, FileState
      <4>3. drive[id].name = p
        BY <1>2, <4>2 DEF RowInv
      <4>4. /\ head' = head + 1 /\ drive'[id] = Rewritten(id, op.content)
            /\ \A i \in FileId : i # id => drive'[i] = drive[i]
        BY <4>1, <4>2 DEF PutFile, TypeInv, TypeOK
      <4>5. /\ Rewritten(id, op.content).name = p /\ Rewritten(id, op.content).md5 = op.content
            /\ Rewritten(id, op.content).modified = head + 1
        BY <4>2, <4>3 DEF Rewritten, Exists, DriveFile
      <4>6. QED
        BY <4>1, <4>2, <4>3, <4>4, <4>5
    <3>5. QED
      BY <3>3, <3>4
  <2>2. \A i \in FileId : \/ drive'[i] = drive[i]
                          \/ /\ Exists(i) => drive[i].name = p
                             /\ Exists(i)' => drive'[i].name = p
    BY <2>1
  <2>3. CASE Spend("fault") /\ Forget
    <3>1. 1 <= OpCost(op)
      BY <1>2, <1>3
    <3>2. QED
      BY <1>0, <1>1, <2>1, <2>2, <2>3, <3>1, OperationLost
  <2>4. CASE /\ op' = [op EXCEPT !.stage = "sent",
                  !.file = [id |-> id, md5 |-> op.content, modified |-> head + 1]]
             /\ UNCHANGED <<Queued, steps>>
    <3> DEFINE f == [id |-> id, md5 |-> op.content, modified |-> head + 1]
    <3>1. o \in Operation /\ o # None /\ o.action = a /\ o.stage = "sent" /\ o.file = f
      <4>1. f \in Response
        BY <1>2 DEF Response, TypeInv, TypeOK
      <4>2. o \in Operation
        BY <1>0, <1>1, <2>4, <4>1, OperationOK DEF Stages
      <4>3. QED
        BY <1>0, <1>2, <2>4, <4>2, NoneIsApart DEF Operation
    <3>2. PICK g : g = f
      OBVIOUS
    <3>3. OpCost(o)' = MovedDebt(b)' + NewerDebt(p, g)'
      BY <1>0, <3>1, <3>2 DEF OpCost
    <3>4. MovedDebt(b)' = MovedDebt(b)
      BY <1>0, <2>1 DEF MovedDebt, Moved
    <3>5. NewerDebt(p, g)' <= RowDebt(p)
      <4>1. ASSUME NEW i \in Late(p)',
                   i # g.id \/ drive'[i].md5 # g.md5 \/ drive'[i].modified # g.modified
            PROVE  i \in Late(p) /\ (rows[p] = None \/ rows[p].id # i)
        <5>1. i \in FileId /\ i # id
          BY <2>1, <3>2, <4>1 DEF Late
        <5>2. i \in Late(p)
          BY <2>1, <4>1, <5>1 DEF Late, Exists
        <5>3. QED
          BY <2>1, <5>1, <5>2
      <4>2. QED
        BY <1>3, <4>1 DEF NewerDebt, RowDebt
    <3>6. OpCost(o)' + 1 <= OpCost(op)
      BY <1>2, <1>3, <3>3, <3>4, <3>5
    <3>7. QED
      BY <1>0, <1>1, <2>1, <2>2, <2>4, <3>1, <3>6, OperationPays DEF Queued
  <2>5. QED
    BY <2>1, <2>3, <2>4 DEF AnsweredOrLost
<1>6. QED
  BY <1>4, <1>5

\* DeleteRemoteFile: the file goes, and what is late beside it was so before.
LEMMA DeleteTraffic ==
  ASSUME TypeInv, TypeInv', DriveInv, RowInv, PhaseInv, QueueInv({}), TrafficInv,
         DeleteRemoteFile
  PROVE  TrafficInv'
<1> DEFINE a == op.action
           id == a.state.id
<1>0. PICK p, o : p = op.action.path /\ o = op'
  OBVIOUS
<1>1. op # None /\ op.stage = "begin" /\ a.kind = "DeleteRemote"
  BY DEF DeleteRemoteFile, At
<1>2. /\ op \in Operation /\ p \in Path /\ Planned({}, a) /\ OpCost(op) = ActionCost(a)
      /\ id \in FileId /\ Exists(id) /\ rows[p] # None /\ rows[p].id = id
  <2>1. /\ op \in Operation /\ p \in Path /\ Planned({}, a) /\ OpCost(op) = ActionCost(a)
        /\ a.state \in FileState /\ Exists(id)
    BY <1>0, <1>1, Operating DEF WellFormed
  <2>2. QED
    BY <1>0, <2>1, NoneIsApart DEF Planned, FileState
<1>3. /\ FileDebt(p) \in 0..1 /\ LateDebt(p)' \in 0..1 /\ LocalDebt(p) \in 0..1
      /\ RowDebt(p) \in 0..1 /\ \A i : OtherDebt(p, i) \in 0..1
  BY Bits
<1>4. OpCost(op) = Larger(Unsettled(p), 1 + FileDebt(p) + OtherDebt(p, id))
  BY <1>0, <1>1, <1>2 DEF ActionCost, UploadKinds, DownloadKinds
<1>5. 1 + FileDebt(p) + OtherDebt(p, id) <= OpCost(op)
  BY <1>3, <1>4 DEF Larger, Unsettled
<1>6. CASE Fail
  BY <1>1, <1>6, DroppedTraffic DEF Fail, files, database
<1>7. CASE ~Fail
  <2>1. /\ PutFile(id, Marked(id, "removed")) /\ AnsweredOrLost([op EXCEPT !.stage = "dropped"])
        /\ UNCHANGED <<local, rows, token>>
    BY <1>7 DEF DeleteRemoteFile, files, database
  <2>2. /\ head' = head + 1 /\ \A i \in FileId : i # id => drive'[i] = drive[i]
        /\ drive[id].name = p /\ drive'[id].name = p /\ drive'[id].status = "removed"
    <3>1. drive[id].name = p
      BY <1>2 DEF RowInv
    <3>2. /\ Marked(id, "removed").name = drive[id].name
          /\ Marked(id, "removed").status = "removed"
      BY <1>2 DEF Marked, Exists, DriveFile
    <3>3. /\ head' = head + 1 /\ drive'[id] = Marked(id, "removed")
          /\ \A i \in FileId : i # id => drive'[i] = drive[i]
      BY <1>2, <2>1 DEF PutFile, TypeInv, TypeOK
    <3>4. QED
      BY <3>1, <3>2, <3>3
  <2>3. \A i \in FileId : \/ drive'[i] = drive[i]
                          \/ /\ Exists(i) => drive[i].name = p
                             /\ Exists(i)' => drive'[i].name = p
    BY <2>2
  <2>4. CASE Spend("fault") /\ Forget
    <3>1. 1 <= OpCost(op)
      BY <1>3, <1>4 DEF Larger, Unsettled
    <3>2. QED
      BY <1>0, <1>1, <2>1, <2>2, <2>3, <2>4, <3>1, OperationLost
  <2>5. CASE op' = [op EXCEPT !.stage = "dropped"] /\ UNCHANGED <<Queued, steps>>
    <3>1. o \in Operation /\ o # None /\ o.action = a /\ o.stage = "dropped"
      <4>1. o \in Operation
        BY <1>0, <1>1, <2>5, OperationOK DEF Stages
      <4>2. QED
        BY <1>0, <1>2, <2>5, <4>1, NoneIsApart DEF Operation
    <3>2. OpCost(o)' = FileDebt(p)' + LateDebt(p)'
      BY <1>0, <3>1 DEF OpCost
    <3>3. FileDebt(p)' = FileDebt(p)
      BY <2>1 DEF FileDebt
    <3>4. LateDebt(p)' <= OtherDebt(p, id)
      <4>1. ASSUME NEW i \in Late(p)'
            PROVE  i \in Late(p) /\ i # id
        <5>1. i \in FileId /\ i # id
          BY <2>2, <4>1 DEF Late
        <5>2. QED
          BY <2>1, <2>2, <4>1, <5>1 DEF Late, Exists
      <4>2. QED
        BY <1>3, <4>1 DEF LateDebt, OtherDebt
    <3>5. OpCost(op) \in 0..3
      BY <1>1, Operating
    <3>6. OpCost(o)' + 1 <= OpCost(op)
      BY <1>3, <1>5, <3>2, <3>3, <3>4, <3>5
    <3>7. QED
      BY <1>0, <1>1, <2>1, <2>2, <2>3, <2>5, <3>1, <3>6, OperationPays DEF Queued
  <2>6. QED
    BY <2>1, <2>4, <2>5 DEF AnsweredOrLost
<1>8. QED
  BY <1>6, <1>7

-----------------------------------------------------------------------------
(* All of it together. *)

\* A new folder owes nothing: it is empty, and has no token to be late after.
LEMMA TrafficInvInit ==
  ASSUME Init
  PROVE  TrafficInv
<1>1. /\ \A p \in Path : local[p] = None /\ rows[p] = None
      /\ token = None /\ changes = {} /\ queue = {} /\ op = None /\ head = InitialHead
      /\ steps["local"] = 0 /\ steps["remote"] = 0 /\ steps["fault"] = 0
  BY DEF Init
<1>2. ASSUME NEW p \in Path
      PROVE  \A m : Costs(p, m) => m = 0
  <2>1. LocalDebt(p) = 0 /\ RowDebt(p) = 0
    BY <1>1 DEF LocalDebt, LocalAhead, RowDebt, Late
  <2>2. \A m : Costs(p, m) => m = LocalDebt(p) + RowDebt(p)
    BY <1>1, OwedUnheld DEF Unsettled
  <2>3. QED
    BY <2>1, <2>2
<1>3. Debt = {}
  <2> SUFFICES ASSUME NEW d \in Debt
               PROVE  FALSE
    OBVIOUS
  <2>1. PICK n \in 0..3 : d[1] \in Path /\ d[2] \in 1..3 /\ Costs(d[1], n) /\ d[2] <= n
    BY DEF Debt
  <2>2. QED
    BY <1>2, <2>1
<1>4. IsFiniteSet(Debt) /\ Cardinality(Debt) = 0
  BY <1>3, FS_EmptySet
<1>5. QED
  BY <1>1, <1>4, CycleAssumption DEF TrafficInv, Paid

\* Every step is paid for.
LEMMA TrafficInvStep ==
  ASSUME ~UserMayPause, "rename" \notin RemoteOps, MtimeSurvives, Large = {},
         TypeInv, HonestInv({}), DistinctIn(Path), TrafficInv, [Next]_vars
  PROVE  TrafficInv'
<1>1. /\ TypeInv' /\ ~pause /\ DriveInv /\ RowInv /\ PhaseInv /\ ListingInv
      /\ QueueInv({}) /\ OpInv
  BY TypeInvStep DEF HonestInv
<1>2. CASE Users \/ SetFolderPaused \/ UNCHANGED vars
  BY <1>1, <1>2, TrafficUsers
<1>3. CASE FirstCycle
  BY <1>1, <1>3, FirstCycleTraffic
<1>4. CASE StartCycle \/ QueueEmpty
  BY <1>1, <1>4, QuietTraffic DEF StartCycle, QueueEmpty, files, server, database
<1>5. CASE FetchPage
  BY <1>1, <1>5, FetchTraffic
<1>6. CASE Scan
  <2>1. DistinctIn({})' /\ HonestInv({})'
    <3>1. DistinctIn({})'
      BY DEF DistinctIn
    <3>2. QED
      BY <3>1, HonestInvStep
  <2>2. QueueInv({})'
    BY <2>1 DEF HonestInv
  <2>3. QED
    BY <1>1, <1>6, <2>2, ScanTraffic
<1>7. CASE \E a \in queue : Pop(a)
  BY <1>1, <1>7, PopTraffic
<1>8. CASE AdvanceToken
  BY <1>1, <1>8, AdvanceTraffic
<1>9. CASE ReadLocalFile \/ FetchContent
  BY <1>1, <1>9, ReadTraffic
<1>10. CASE UpdateRemoteFile \/ \E id \in FileId : CreateRemoteFile(id)
  BY <1>1, <1>10, UploadTraffic
<1>11. CASE WriteDownload
  BY <1>1, <1>11, WriteTraffic
<1>12. CASE WriteConflictCopy
  BY <1>1, <1>12, CopyTraffic
<1>13. CASE DeleteRemoteFile
  BY <1>1, <1>13, DeleteTraffic
<1>14. CASE DeleteLocalFile
  BY <1>1, <1>14, RemoveTraffic
<1>15. CASE Records
  BY <1>1, <1>15, RecordTraffic
<1>16. CASE CallFails \/ Crash
  BY <1>1, <1>16, DroppedTraffic DEF CallFails, Crash, files, database
<1>17. CASE StopForPause
  BY <1>1, <1>17 DEF StopForPause
<1>18. QED
  BY <1>2, <1>3, <1>4, <1>5, <1>6, <1>7, <1>8, <1>9, <1>10, <1>11, <1>12, <1>13, <1>14, <1>15,
     <1>16, <1>17 DEF Next, Daemon, Faults, Records

\* No transfer feeds itself: the daemon writes to Drive at most once for each change a
\* user makes on either side and twice for each call or answer that fails, whatever
\* they do to its cycles.  (Each row shows the change it is written from, and its local
\* side the file of the scan: file_state_after_upload and file_state_after_download.
\* That needs mtimes the row can hold and answers that carry a checksum; and no two
\* live files of one name, which compete for its row, so that a folder whose cycles keep
\* failing would download them in turn.)
THEOREM TrafficBoundedHolds ==
  ASSUME ~UserMayPause, "rename" \notin RemoteOps, MtimeSurvives, Large = {}
  PROVE  Spec /\ []DistinctIn(Path) => []TrafficBounded
<1> DEFINE IInv == TypeInv /\ HonestInv({}) /\ TrafficInv
<1>1. Init => IInv
  <2>1. DistinctIn({})
    BY DEF DistinctIn
  <2>2. QED
    BY <2>1, TypeInvInit, HonestInvInit, TrafficInvInit
<1>2. IInv /\ DistinctIn(Path) /\ [Next]_vars => IInv'
  <2>1. DistinctIn({})'
    BY DEF DistinctIn
  <2>2. QED
    BY <2>1, TypeInvStep, HonestInvStep, TrafficInvStep
<1>3. IInv => TrafficBounded
  <2> SUFFICES ASSUME IInv PROVE TrafficBounded
    OBVIOUS
  <2>1. Cardinality(Debt) \in Nat
    BY FS_CardinalityType DEF TrafficInv
  <2>2. QED
    BY <2>1, SumTyped DEF TrafficInv, Paid, TrafficBounded
<1>4. QED
  BY <1>1, <1>2, <1>3, PTL DEF Spec
=============================================================================
