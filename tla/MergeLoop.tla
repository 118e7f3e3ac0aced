----------------------------- MODULE MergeLoop -----------------------------
(***************************************************************************)
(* DiffEngine::compute_remote_changes and merge_actions as the loops they  *)
(* are, one change entry at a time, beside the closed definitions that     *)
(* SyncActions gives of their outcome.                                     *)
(***************************************************************************)
EXTENDS SyncActions, Sequences, FiniteSets, Functions

CONSTANTS
  Disks,      \* the local directories tried: [Path -> LocalFileMeta or None]
  Tables,     \* the file_states tables tried: [Path -> FileState or None]
  Entries,    \* the change entries that may be listed, without their number
  MaxEntries  \* bound: entries of a list

ASSUME LoopAssumption ==
  /\ Disks \subseteq [Path -> {m \in LocalFileMeta : m.mtime # NoTime} \cup {None}]
  /\ Tables \subseteq [Path -> FileState \cup {None}]
  /\ Entries \subseteq DriveChange
  /\ MaxEntries \in Nat
  /\ None \notin SyncAction \cup DriveChange

\* No two rows of a table have one Drive id (RowsDisjoint of SyncCycle).
ASSUME TableAssumption ==
  \A t \in Tables, p, q \in Path :
    t[p] # None /\ t[q] # None /\ t[p].id = t[q].id => p = q

VARIABLES
  local, rows,  \* what the cycle scanned
  list,         \* the change entries taken so far, in list order
  byPath        \* merge_actions' HashMap: the action each path holds, or None

vars == <<local, rows, list, byPath>>

TypeOK ==
  /\ local \in Disks /\ rows \in Tables
  /\ \A i \in DOMAIN list : list[i] \in DriveChange
  /\ byPath \in [Path -> SyncAction \cup {None}]
  /\ \A p \in Path : byPath[p] # None => byPath[p].path = p /\ Complete(byPath[p])

-----------------------------------------------------------------------------
Held(actions, p) ==
  IF OnPath(actions, p) = {} THEN None ELSE CHOOSE a \in OnPath(actions, p) : TRUE

\* The local actions are inserted first.
Init ==
  /\ local \in Disks /\ rows \in Tables
  /\ list = <<>>
  /\ byPath = [p \in Path |-> Held(ComputeLocalChanges(local, rows), p)]

\* Faulty variants: the first action of a path stays, no conflict is raised, a
\* conflict is raised for any upload that meets a download.
Insert_KeepsFirst(held, a) == IF held # None THEN held ELSE a
Insert_ServerWins(held, a) == a
Insert_AnyUpload(held, a) ==
  IF held # None /\ held.kind \in UploadKinds /\ a.kind \in DownloadKinds
  THEN Conflict(held, a)
  ELSE a

\* One turn of the second loop: what the path holds after remote action a.
Insert(held, a) ==
  IF held # None /\ held.kind = "UpdateUpload" /\ a.kind = "UpdateDownload"
  THEN Conflict(held, a)
  ELSE a

\* The next entry of the list yields no action and is skipped, or its action
\* is merged into the map.
TakeEntry(e) ==
  /\ Len(list) < MaxEntries
  /\ LET c == [e EXCEPT !.rev = Len(list) + 1]
         a == RemoteAction(c, rows)
     IN  /\ list' = Append(list, c)
         /\ byPath' = IF YieldsAction(c, rows)
                      THEN [byPath EXCEPT ![a.path] = Insert(@, a)]
                      ELSE byPath
  /\ UNCHANGED <<local, rows>>

Next == \E e \in Entries : TakeEntry(e)

Spec == Init /\ [][Next]_vars

-----------------------------------------------------------------------------
(***************************************************************************)
(* Properties                                                              *)
(***************************************************************************)

Merged == MergeActions(ComputeLocalChanges(local, rows),
                       ComputeRemoteChanges(Range(list), rows))

\* The loop of merge_actions computes what MergeActions says, after every entry
\* and so for every list.
MergeAgrees == Range(byPath) \ {None} = Merged

\* is_conflict (change.rs), for a local file, its row and a change entry.
IsConflict(meta, row, c) == LocalChanged(meta, row) /\ RemoteChanged(c, row)

\* The entries that concern a path.  Several do when a file is listed on two pages
\* or two Drive files have one name.
EntriesOn(p) == {i \in DOMAIN list : ChangePath(list[i], rows) = p}

\* A file changed on both sides since its row was written ends as a Conflict
\* (TODO.md:91), whatever else is listed, if one entry concerns it.
ConflictDetected ==
  \A p \in Path :
    /\ rows[p] # None /\ local[p] # None
    /\ \E i \in DOMAIN list : /\ EntriesOn(p) = {i}
                             /\ list[i].status = "live"
                             /\ IsConflict(local[p], rows[p], list[i])
    => byPath[p].kind = "Conflict"

\* Nothing but two changed sides makes a Conflict, however many entries concern
\* the path: no content is shelved as a conflict copy needlessly.
ConflictJustified ==
  \A p \in Path :
    byPath[p] # None /\ byPath[p].kind = "Conflict" =>
      /\ rows[p] # None /\ local[p] # None
      /\ IsConflict(local[p], rows[p], byPath[p].file)

\* A deletion is never propagated over an edit of the other side: a file deleted
\* locally is not deleted on Drive when a live change of it is listed.
EditBeatsDelete ==
  \A p \in Path :
    byPath[p] # None /\ byPath[p].kind = "DeleteRemote" =>
      \A i \in DOMAIN list :
        list[i].id = rows[p].id => list[i].status # "live" \/ ~RemoteChanged(list[i], rows[p])
=============================================================================
