--------------------------- MODULE DirectoryScan ---------------------------
(***************************************************************************)
(* compute_local_changes, the uploads that follow it and write_atomic, one *)
(* file system call at a time, while users write, delete and rename files  *)
(* (gds-core/src/sync/{diff,fs,executor}.rs).  SyncCycle takes the scan in *)
(* one step and the table for what was on disk: this is why it may.        *)
(*                                                                         *)
(* The folder is flat; a content that is being written is Half.  What else *)
(* happens on Drive is left to SyncCycle: a download brings any content.   *)
(***************************************************************************)
EXTENDS SyncActions

CONSTANTS
  Name,       \* the names of the directory, all of one stem
  Tmp,        \* that stem with the extension gds_tmp
  Half,       \* a content not written to its end
  MaxWrites,  \* bound on the steps of users
  MaxFetches, \* bound on downloads
  MaxFaults   \* bound on I/O errors and crashes

VARIABLES
  disk,     \* each name: the file that has it
  table,    \* file_states: the local half of each name's row
  synced,   \* the content that Drive was given or gave when each name's row was written
  phase,    \* where the cycle is
  todo,     \* names the current loop still has to visit
  reading,  \* file_metadata between the mtime and the content
  found,    \* the action of each name
  sent,     \* the upload that Drive has and no row yet
  writing,  \* the download that write_atomic is busy with
  seen,     \* history: the files each name has had since the scan began
  lost,     \* history: the mtimes of the files that each name no longer has
  clock,    \* mtime of the last write
  left      \* what is left of the bounds

scanVars == <<disk, table, synced, phase, todo, reading, found, sent, writing, seen,
              lost, clock, left>>

File == [content : Content \cup {Half}, mtime : Nat \ {NoTime}]
Row == [localMd5 : Content \cup {Half}, localModified : Nat]
Meta == [md5 : Content \cup {Half}, mtime : Nat]
Action == [kind : UploadKinds, meta : Meta] \cup [kind : {"DeleteRemote"}]

ASSUME ScanAssumption ==
  /\ Tmp \in Name /\ Half \notin Content \cup {None}
  /\ MaxWrites \in Nat /\ MaxFetches \in Nat /\ MaxFaults \in Nat
  /\ None \notin Action \cup File

UserNames == Name \ {Tmp}
Scanning == phase \in {"listing", "reading", "checking"}

ScanTypeOK ==
  /\ disk \in [Name -> File \cup {None}]
  /\ table \in [Name -> Row \cup {None}]
  /\ synced \in [Name -> Content \cup {Half, None}]
  /\ phase \in {"idle", "listing", "reading", "checking", "fetching", "acting"}
  /\ todo \subseteq Name
  /\ reading \in [name : Name, mtime : Nat] \cup {None}
  /\ found \in [Name -> Action \cup {None}]
  /\ sent \in [name : Name, content : Content \cup {Half}] \cup {None}
  /\ writing \in [name : UserNames, content : Content, at : {"tmp", "rename", "row"}] \cup {None}
  /\ \A p \in Name : seen[p] \subseteq File \cup {None}
  /\ lost \in [Name -> SUBSET Nat]
  /\ clock \in Nat
  /\ left \in [{"writes", "fetches", "faults"} -> Nat]

Nothing == [p \in Name |-> None]

\* Some files are synced, the others do not exist.
ScanInit ==
  \E files \in SUBSET UserNames, c \in Content :
    /\ disk = [p \in Name |-> IF p \in files THEN [content |-> c, mtime |-> 1] ELSE None]
    /\ table = [p \in Name |->
                  IF p \in files THEN [localMd5 |-> c, localModified |-> 1] ELSE None]
    /\ synced = [p \in Name |-> IF p \in files THEN c ELSE None]
    /\ phase = "idle"
    /\ todo = {}
    /\ reading = None
    /\ found = Nothing
    /\ sent = None
    /\ writing = None
    /\ seen = [p \in Name |-> {}]
    /\ lost = [p \in Name |-> {}]
    /\ clock = 1
    /\ left = [writes |-> MaxWrites, fetches |-> MaxFetches, faults |-> MaxFaults]

SpendOf(kind) == left[kind] > 0 /\ left' = [left EXCEPT ![kind] = @ - 1]

\* An early return: what the cycle held is gone, what it wrote stays.
Abandon ==
  /\ phase' = "idle"
  /\ todo' = {} /\ reading' = None /\ found' = Nothing
  /\ sent' = None /\ writing' = None
  /\ seen' = [p \in Name |-> {}]

----------------------------------------------------------------------------
(* Users. *)

SetDisk(files) ==
  /\ disk' = files
  /\ lost' = [p \in Name |-> IF disk[p] = None \/ files[p] = disk[p]
                            THEN lost[p] ELSE lost[p] \cup {disk[p].mtime}]

UserSets(files) ==
  /\ SpendOf("writes")
  /\ SetDisk(files)
  /\ seen' = IF Scanning THEN [p \in Name |-> seen[p] \cup {files[p]}] ELSE seen
  /\ UNCHANGED <<table, synced, phase, todo, reading, found, sent, writing>>

Write(p, c) ==
  /\ clock' = clock + 1
  /\ UserSets([disk EXCEPT ![p] = [content |-> c, mtime |-> clock + 1]])

Delete(p) ==
  /\ disk[p] # None
  /\ UserSets([disk EXCEPT ![p] = None])
  /\ UNCHANGED clock

\* Renaming keeps the mtime and replaces what has the new name.
Rename(p, q) ==
  /\ disk[p] # None /\ p # q
  /\ UserSets([disk EXCEPT ![p] = None, ![q] = disk[p]])
  /\ UNCHANGED clock

User ==
  \E p \in UserNames :
    Delete(p) \/ (\E c \in Content : Write(p, c)) \/ (\E q \in UserNames : Rename(p, q))

----------------------------------------------------------------------------
(* The scan. *)

BeginScan ==
  /\ phase = "idle"
  /\ phase' = "listing"
  /\ seen' = [p \in Name |-> {disk[p]}]
  /\ UNCHANGED <<disk, lost, table, synced, todo, reading, found, sent, writing, clock, left>>

\* list_dir returns every name that was there all along, and any that was there
\* for some time; one that goes between its entry and its symlink_metadata
\* fails the scan.
ListDir ==
  /\ phase = "listing"
  /\ \/ /\ \E entries \in SUBSET {p \in Name : seen[p] # {None}} :
             /\ {p \in Name : None \notin seen[p]} \subseteq entries
             /\ todo' = entries
        /\ phase' = "reading"
        /\ UNCHANGED <<reading, found, sent, writing, seen>>
     \/ (\E p \in Name : None \in seen[p] /\ seen[p] # {None}) /\ Abandon
  /\ UNCHANGED <<disk, lost, table, synced, clock, left>>

\* file_metadata: the mtime. A name that has gone by now is skipped.
ReadMtime(p) ==
  /\ phase = "reading" /\ reading = None
  /\ p \in todo
  /\ \/ disk[p] = None /\ todo' = todo \ {p} /\ UNCHANGED reading
     \/ disk[p] # None /\ reading' = [name |-> p, mtime |-> disk[p].mtime] /\ UNCHANGED todo
  /\ UNCHANGED <<disk, lost, table, synced, phase, found, sent, writing, seen, clock, left>>

\* The upload that a file's metadata calls for.
UploadFor(meta, row) ==
  IF row = None THEN [kind |-> "NewUpload", meta |-> meta]
  ELSE IF LocalChanged(meta, row) THEN [kind |-> "UpdateUpload", meta |-> meta]
  ELSE None

\* file_metadata: the content, and the comparison with the row. A file that has
\* gone since its mtime was read fails the scan.
ReadContent ==
  /\ reading # None
  /\ LET p == reading.name
     IN  \/ /\ disk[p] # None
            /\ found' = [found EXCEPT ![p] =
                 UploadFor([md5 |-> disk[p].content, mtime |-> reading.mtime], table[p])]
            /\ todo' = todo \ {p}
            /\ reading' = None
            /\ UNCHANGED <<phase, sent, writing, seen>>
         \/ disk[p] = None /\ Abandon
  /\ UNCHANGED <<disk, lost, table, synced, clock, left>>

EndReading ==
  /\ phase = "reading" /\ todo = {}
  /\ phase' = "checking"
  /\ todo' = {p \in Name : table[p] # None}
  /\ UNCHANGED <<disk, lost, table, synced, reading, found, sent, writing, seen, clock, left>>

\* Faulty variant: an error of the existence check counts as absence.
CheckExists_ErrorIsAbsence(p) ==
  /\ phase = "checking"
  /\ p \in todo
  /\ \/ disk[p] = None /\ found' = [found EXCEPT ![p] = [kind |-> "DeleteRemote"]]
        /\ UNCHANGED left
     \/ disk[p] # None /\ UNCHANGED <<found, left>>
     \/ SpendOf("faults") /\ found' = [found EXCEPT ![p] = [kind |-> "DeleteRemote"]]
  /\ todo' = todo \ {p}
  /\ UNCHANGED <<disk, lost, table, synced, phase, reading, sent, writing, seen, clock>>

\* The second loop. merge_actions keeps the later of two actions of a path.
CheckExists(p) ==
  /\ phase = "checking"
  /\ p \in todo
  /\ \/ disk[p] = None /\ found' = [found EXCEPT ![p] = [kind |-> "DeleteRemote"]]
     \/ disk[p] # None /\ UNCHANGED found
  /\ todo' = todo \ {p}
  /\ UNCHANGED <<disk, lost, table, synced, phase, reading, sent, writing, seen, clock, left>>

EndScan ==
  /\ phase = "checking" /\ todo = {}
  /\ phase' = "fetching"
  /\ seen' = [p \in Name |-> {}]
  /\ UNCHANGED <<disk, lost, table, synced, todo, reading, found, sent, writing, clock, left>>

----------------------------------------------------------------------------
(* Downloads, which come first, and write_atomic. *)

\* Faulty variant: the content goes to the file itself.
WriteTmp_InPlace(p, c) ==
  /\ phase = "fetching" /\ writing = None
  /\ found[p] = None
  /\ SpendOf("fetches")
  /\ SetDisk([disk EXCEPT ![p] = [content |-> Half, mtime |-> clock + 1]])
  /\ clock' = clock + 1
  /\ writing' = [name |-> p, content |-> c, at |-> "tmp"]
  /\ UNCHANGED <<table, synced, phase, todo, reading, found, sent, seen>>

\* The file that write_atomic opens replaces whatever has that name.
WriteTmp(p, c) ==
  /\ phase = "fetching" /\ writing = None
  /\ found[p] = None
  /\ SpendOf("fetches")
  /\ SetDisk([disk EXCEPT ![Tmp] = [content |-> Half, mtime |-> clock + 1]])
  /\ clock' = clock + 1
  /\ writing' = [name |-> p, content |-> c, at |-> "tmp"]
  /\ UNCHANGED <<table, synced, phase, todo, reading, found, sent, seen>>

FillTmp ==
  /\ writing # None /\ writing.at = "tmp"
  /\ SetDisk([disk EXCEPT ![Tmp] = [content |-> writing.content, mtime |-> clock + 1]])
  /\ clock' = clock + 1
  /\ writing' = [writing EXCEPT !.at = "rename"]
  /\ UNCHANGED <<table, synced, phase, todo, reading, found, sent, seen, left>>

RenameTmp ==
  /\ writing # None /\ writing.at = "rename"
  /\ SetDisk([disk EXCEPT ![writing.name] = disk[Tmp], ![Tmp] = None])
  /\ writing' = [writing EXCEPT !.at = "row"]
  /\ UNCHANGED <<table, synced, phase, todo, reading, found, sent, seen, clock, left>>

\* The row of a download has the time of the Drive file, which is no mtime.
RecordDownload ==
  /\ writing # None /\ writing.at = "row"
  /\ table' = [table EXCEPT ![writing.name] =
                 [localMd5 |-> writing.content, localModified |-> NoTime]]
  /\ synced' = [synced EXCEPT ![writing.name] = writing.content]
  /\ writing' = None
  /\ UNCHANGED <<disk, lost, phase, todo, reading, found, sent, seen, clock, left>>

EndFetching ==
  /\ phase = "fetching" /\ writing = None
  /\ phase' = "acting"
  /\ UNCHANGED <<disk, lost, table, synced, todo, reading, found, sent, writing, seen, clock, left>>

----------------------------------------------------------------------------
(* Uploads and deletions on Drive. *)

Uploads == {p \in Name : found[p] # None /\ found[p].kind \in UploadKinds}

\* The content is read again; a file that has gone fails the cycle.
Upload(p) ==
  /\ phase = "acting" /\ sent = None
  /\ p \in Uploads
  /\ \/ /\ disk[p] # None
        /\ sent' = [name |-> p, content |-> disk[p].content]
        /\ UNCHANGED <<phase, todo, reading, found, writing, seen>>
     \/ disk[p] = None /\ Abandon
  /\ UNCHANGED <<disk, lost, table, synced, clock, left>>

\* The row and the content it stands for.
Record(meta) ==
  /\ table' = [table EXCEPT ![sent.name] =
                 [localMd5 |-> meta.md5, localModified |-> meta.mtime]]
  /\ synced' = [synced EXCEPT ![sent.name] = sent.content]
  /\ found' = [found EXCEPT ![sent.name] = None]
  /\ sent' = None
  /\ UNCHANGED <<disk, lost, phase, todo, reading, writing, seen, clock, left>>

\* Faulty variant: the row gets what is on disk by now.
RecordUpload_Fresh ==
  /\ sent # None /\ disk[sent.name] # None
  /\ Record([md5 |-> disk[sent.name].content, mtime |-> disk[sent.name].mtime])

\* The row gets the metadata of the scan. Without one, Drive's next change list
\* shows the upload (SyncCycle).
RecordUpload == sent # None /\ Record(found[sent.name].meta)

DeleteRemote(p) ==
  /\ phase = "acting" /\ sent = None /\ Uploads = {}
  /\ found[p] # None
  /\ table' = [table EXCEPT ![p] = None]
  /\ synced' = [synced EXCEPT ![p] = None]
  /\ found' = [found EXCEPT ![p] = None]
  /\ UNCHANGED <<disk, lost, phase, todo, reading, sent, writing, seen, clock, left>>

EndCycle ==
  /\ phase = "acting" /\ found = Nothing
  /\ phase' = "idle"
  /\ UNCHANGED <<disk, lost, table, synced, todo, reading, found, sent, writing, seen, clock, left>>

\* An error of a call that reads or writes, the existence check's included, or
\* the end of the process.
Interrupted ==
  /\ phase # "idle"
  /\ SpendOf("faults")
  /\ Abandon
  /\ UNCHANGED <<disk, lost, table, synced, clock>>

----------------------------------------------------------------------------
ScanNext ==
  \/ User
  \/ BeginScan \/ ListDir \/ ReadContent \/ EndReading \/ EndScan
  \/ FillTmp \/ RenameTmp \/ RecordDownload \/ EndFetching
  \/ RecordUpload \/ EndCycle \/ Interrupted
  \/ \E p \in Name : ReadMtime(p) \/ CheckExists(p) \/ Upload(p) \/ DeleteRemote(p)
  \/ \E p \in UserNames, c \in Content : WriteTmp(p, c)

ScanSpec == ScanInit /\ [][ScanNext]_scanVars

----------------------------------------------------------------------------
(* Properties *)

MetaOf(file) == [md5 |-> file.content, mtime |-> file.mtime]

\* The kind of action that a file calls for, as ComputeLocalChanges has it.
KindDue(file, row) ==
  IF file # None
  THEN LET up == UploadFor(MetaOf(file), row) IN IF up = None THEN "none" ELSE up.kind
  ELSE IF row # None THEN "DeleteRemote" ELSE "none"

KindFound(p) == IF found[p] = None THEN "none" ELSE found[p].kind

\* A scan that users interleave with reports no change that the path did not have
\* at some moment of it, however mtime, content and existence were read apart:
\* nothing is deleted on Drive for a file that was always there. And it misses
\* none of a path nobody touched meanwhile.
ScanWarranted ==
  phase = "checking" /\ todo = {} =>
    \A p \in Name :
      LET due == {KindDue(file, table[p]) : file \in seen[p]}
      IN  /\ KindFound(p) # "none" => KindFound(p) \in due
          /\ \A file \in seen[p] : seen[p] = {file} => due = {KindFound(p)}

\* A file that the next scan will take for unchanged has the content that its
\* row stands for: no edit is passed over for good, whenever it falls between the
\* scan's reads, the upload's read and the row. (A file that was renamed away and
\* comes back, with its old mtime, while another that had the name is uploaded is
\* passed over: the row gets the scan's metadata and the other's content.)
RowHonest ==
  \A p \in Name :
    /\ disk[p] # None /\ table[p] # None
    /\ disk[p].mtime \notin lost[p]
    => LocalChanged(MetaOf(disk[p]), table[p]) \/ disk[p].content = synced[p]

\* A file never shows a half-written download under its own name, not after an
\* error or a crash either (TODO.md:96), and none is recorded as synced.
NeverHalf ==
  \A p \in UserNames : (disk[p] # None => disk[p].content # Half) /\ synced[p] # Half
============================================================================
