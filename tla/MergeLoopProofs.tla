-------------------------- MODULE MergeLoopProofs --------------------------
(* Proofs about MergeLoop for any directory, table and list of changes: the  *)
(* loop of merge_actions computes what MergeActions says, and what a merge   *)
(* promises about conflicts and deletions.                                   *)
EXTENDS MergeLoop, TLAPS

-----------------------------------------------------------------------------
(* The two lists of actions. *)

LEMMA LocalActions ==
  ASSUME local \in Disks, rows \in Tables,
         NEW u \in ComputeLocalChanges(local, rows)
  PROVE  /\ u \in SyncAction /\ u.path \in Path
         /\ u.kind \in UploadKinds \cup {"DeleteRemote"} /\ Complete(u)
         /\ u.kind = "UpdateUpload" =>
              /\ local[u.path] # None /\ rows[u.path] # None
              /\ LocalChanged(local[u.path], rows[u.path])
         /\ u.kind = "DeleteRemote" => rows[u.path] # None
<1> USE LoopAssumption DEF LocalFileMeta, FromLocal, UploadKinds, DownloadKinds, DeleteKinds, Kinds
<1>1. rows \in [Path -> FileState \cup {None}]
      /\ local \in [Path -> {m \in LocalFileMeta : m.mtime # NoTime} \cup {None}]
  OBVIOUS
<1>2. PICK p \in Path :
        \/ local[p] # None /\ u = FromLocal("NewUpload", p, None, local[p].md5, local[p].mtime)
        \/ /\ local[p] # None /\ rows[p] # None /\ LocalChanged(local[p], rows[p])
           /\ u = FromLocal("UpdateUpload", p, rows[p], local[p].md5, local[p].mtime)
        \/ rows[p] # None /\ u = FromLocal("DeleteRemote", p, rows[p], None, NoTime)
  BY DEF ComputeLocalChanges
<1>3. u \in SyncAction
  BY <1>1, <1>2 DEF SyncAction, NoTime
<1>4. Complete(u)
  BY <1>1, <1>2 DEF Complete
<1>5. QED
  BY <1>2, <1>3, <1>4

(* A path has one local action at most. *)
LEMMA LocalUnique ==
  ASSUME local \in Disks, rows \in Tables,
         NEW u \in ComputeLocalChanges(local, rows), NEW v \in ComputeLocalChanges(local, rows),
         u.path = v.path
  PROVE  u = v
BY DEF ComputeLocalChanges, FromLocal

LEMMA HeldLocal ==
  ASSUME local \in Disks, rows \in Tables, NEW p \in Path
  PROVE  LET L == ComputeLocalChanges(local, rows)
         IN  /\ Held(L, p) = None => OnPath(L, p) = {}
             /\ \A u \in OnPath(L, p) : u = Held(L, p) /\ u # None
             /\ Held(L, p) # None => Held(L, p) \in OnPath(L, p)
<1> DEFINE L == ComputeLocalChanges(local, rows)
<1>1. \A u \in L : u # None
  BY LocalActions, LoopAssumption
<1>2. \A u, v \in OnPath(L, p) : u = v
  BY LocalUnique DEF OnPath
<1>3. OnPath(L, p) # {} => Held(L, p) \in OnPath(L, p)
  BY DEF Held
<1>4. \A u \in OnPath(L, p) : u \in L
  BY DEF OnPath
<1>5. QED
  BY <1>1, <1>2, <1>3, <1>4 DEF Held

LEMMA PathOfChange ==
  ASSUME NEW c \in DriveChange
  PROVE  /\ ChangePath(c, rows) \in Path
         /\ HasRow(c.id, rows) =>
              rows[ChangePath(c, rows)] # None /\ rows[ChangePath(c, rows)].id = c.id
BY DEF ChangePath, HasRow, RowPath, DriveChange

LEMMA RemoteActions ==
  ASSUME rows \in Tables, NEW c \in DriveChange, YieldsAction(c, rows)
  PROVE  LET a == RemoteAction(c, rows)
         IN  /\ a \in SyncAction /\ a.path \in Path /\ a.path = ChangePath(c, rows)
             /\ a.file = c
             /\ a.kind \in {"DeleteLocal", "UpdateDownload", "NewDownload"} /\ Complete(a)
             /\ a.kind = "UpdateDownload" =>
                  rows[a.path] # None /\ RemoteChanged(c, rows[a.path])
<1> USE LoopAssumption DEF FromChange, UploadKinds, DownloadKinds, DeleteKinds, Kinds
<1> DEFINE p == ChangePath(c, rows)
           kind == RemoteKind(c, rows)
<1>1. p \in Path /\ rows[p] \in FileState \cup {None}
      /\ (HasRow(c.id, rows) => rows[p] # None)
  BY PathOfChange
<1>2. kind \in {"DeleteLocal", "UpdateDownload", "NewDownload"}
      /\ (kind \in {"DeleteLocal", "UpdateDownload"} => rows[p] # None)
      /\ (kind = "UpdateDownload" => RemoteChanged(c, rows[p]))
  BY <1>1 DEF RemoteKind, YieldsAction
<1>3. RemoteAction(c, rows) = FromChange(kind, p, rows[p], c)
  BY DEF RemoteAction
<1>4. FromChange(kind, p, rows[p], c) \in SyncAction
  BY <1>1, <1>2 DEF SyncAction, NoTime
<1>5. Complete(FromChange(kind, p, rows[p], c))
  BY <1>1, <1>2 DEF Complete
<1>6. QED
  BY <1>1, <1>2, <1>3, <1>4, <1>5

-----------------------------------------------------------------------------
(* The list so far and what it yields. *)

Locals == ComputeLocalChanges(local, rows)
Remotes == ComputeRemoteChanges(Range(list), rows)

ListInv ==
  /\ local \in Disks /\ rows \in Tables
  /\ list \in Seq(DriveChange)
  /\ \A i \in 1..Len(list) : list[i].rev = i
  /\ byPath \in [Path -> SyncAction \cup {None}]

(* An action knows the place of its entry. *)
LEMMA RemoteFromList ==
  ASSUME ListInv, NEW a \in Remotes
  PROVE  /\ a.file \in DriveChange /\ a.file.rev \in 1..Len(list)
         /\ a.file = list[a.file.rev]
         /\ YieldsAction(a.file, rows) /\ a = RemoteAction(a.file, rows)
<1>1. PICK c \in Range(list) : YieldsAction(c, rows) /\ a = RemoteAction(c, rows)
  BY DEF Remotes, ComputeRemoteChanges
<1>2. PICK i \in 1..Len(list) : c = list[i]
  BY <1>1 DEF Range, ListInv
<1>3. c \in DriveChange /\ c.rev = i
  BY <1>2 DEF ListInv
<1>4. a.file = c
  BY <1>1, <1>3, RemoteActions DEF ListInv
<1>5. QED
  BY <1>1, <1>2, <1>3, <1>4

LEMMA RemoteInList ==
  ASSUME ListInv, NEW i \in 1..Len(list), YieldsAction(list[i], rows)
  PROVE  RemoteAction(list[i], rows) \in Remotes
<1>1. list[i] \in Range(list)
  BY DEF Range, ListInv
<1>2. QED
  BY <1>1 DEF Remotes, ComputeRemoteChanges

LEMMA RemoteFacts ==
  ASSUME ListInv, NEW a \in Remotes
  PROVE  /\ a \in SyncAction /\ a.path \in Path /\ Complete(a)
         /\ a.path = ChangePath(a.file, rows)
         /\ a.kind \in {"DeleteLocal", "UpdateDownload", "NewDownload"}
         /\ a.kind = "UpdateDownload" =>
              rows[a.path] # None /\ RemoteChanged(a.file, rows[a.path])
<1>1. YieldsAction(a.file, rows) /\ a = RemoteAction(a.file, rows) /\ a.file \in DriveChange
  BY RemoteFromList
<1>2. QED
  BY <1>1, RemoteActions DEF ListInv

LEMMA LastUnique ==
  ASSUME ListInv, NEW d \in Remotes, NEW e \in Remotes, d.path = e.path,
         LastOnPath(d, Remotes), LastOnPath(e, Remotes)
  PROVE  d = e
<1>1. d.file.rev <= e.file.rev /\ e.file.rev <= d.file.rev
  BY DEF LastOnPath, OnPath
<1>2. d.file.rev \in Nat /\ e.file.rev \in Nat
  BY RemoteFromList DEF DriveChange
<1>3. d.file = e.file
  BY <1>1, <1>2, RemoteFromList
<1>4. QED
  BY <1>3, RemoteFromList

(* The edit that a conflict is raised for. *)
Edit(u, d) ==
  u \in Locals /\ u.path = d.path /\ u.kind = "UpdateUpload" /\ d.kind = "UpdateDownload"

LEMMA ConflictOK ==
  ASSUME ListInv, NEW d \in Remotes, NEW u, Edit(u, d)
  PROVE  LET a == Conflict(u, d)
         IN  /\ a \in SyncAction /\ a.path = d.path /\ Complete(a)
             /\ a.kind = "Conflict" /\ a.file = d.file
<1>1. d \in SyncAction /\ d.file # None
  BY RemoteFacts, RemoteFromList, LoopAssumption
<1>2. u \in SyncAction /\ u.md5 \in Content /\ u.mtime # NoTime /\ u.state # None
  BY LocalActions DEF Edit, Locals, ListInv, Complete, UploadKinds
<1>3. Conflict(u, d) \in SyncAction
  BY <1>1, <1>2 DEF Conflict, SyncAction, Kinds
<1>4. /\ Conflict(u, d).kind = "Conflict" /\ Conflict(u, d).path = d.path
      /\ Conflict(u, d).state = u.state /\ Conflict(u, d).md5 = u.md5
      /\ Conflict(u, d).mtime = u.mtime /\ Conflict(u, d).file = d.file
  BY <1>1 DEF Conflict, SyncAction
<1>5. QED
  BY <1>1, <1>2, <1>3, <1>4 DEF Complete, UploadKinds, DownloadKinds, DeleteKinds

LEMMA ResolveOK ==
  ASSUME ListInv, NEW d \in Remotes
  PROVE  \/ Resolve(d, Locals, Remotes) = d
         \/ \E u : Edit(u, d) /\ Resolve(d, Locals, Remotes) = Conflict(u, d)
BY DEF Resolve, Edit, OnPath

LEMMA ResolvedOK ==
  ASSUME ListInv, NEW d \in Remotes
  PROVE  LET a == Resolve(d, Locals, Remotes)
         IN  /\ a \in SyncAction /\ a.path = d.path /\ Complete(a)
             /\ a.file = d.file /\ a.kind \in {d.kind, "Conflict"}
BY ResolveOK, ConflictOK, RemoteFacts

-----------------------------------------------------------------------------
(* What the map holds while the loop runs. *)

(* A path without a remote action has its local one; the others have their last *)
(* remote action, resolved.                                                     *)
PathMerged(p) ==
  \/ OnPath(Remotes, p) = {} /\ byPath[p] = Held(Locals, p)
  \/ \E d \in OnPath(Remotes, p) :
       LastOnPath(d, Remotes) /\ byPath[p] = Resolve(d, Locals, Remotes)

MergeInv == ListInv /\ \A p \in Path : PathMerged(p)

LEMMA MergeInit == Init => MergeInv
<1> SUFFICES ASSUME Init PROVE MergeInv
  OBVIOUS
<1>1. local \in Disks /\ rows \in Tables /\ list = <<>>
  BY DEF Init
<1>2. Remotes = {}
  BY <1>1 DEF Remotes, ComputeRemoteChanges, Range
<1>3. \A p \in Path : byPath[p] = Held(Locals, p)
  BY DEF Init, Locals
<1>4. byPath \in [Path -> SyncAction \cup {None}]
  <2>1. ASSUME NEW p \in Path PROVE Held(Locals, p) \in SyncAction \cup {None}
    BY <1>1, HeldLocal, LocalActions DEF Locals, OnPath
  <2>2. QED
    BY <2>1 DEF Init, Locals
<1>5. QED
  BY <1>1, <1>2, <1>3, <1>4 DEF MergeInv, ListInv, PathMerged, OnPath

(* An entry that yields no action, and one that does. *)
LEMMA Grows ==
  ASSUME ListInv, NEW c \in DriveChange, list' = Append(list, c), UNCHANGED rows
  PROVE  Remotes' = Remotes \cup
           (IF YieldsAction(c, rows) THEN {RemoteAction(c, rows)} ELSE {})
<1>1. Range(list') = Range(list) \cup {c}
  BY DEF ListInv, Range
<1>2. QED
  BY <1>1 DEF Remotes, ComputeRemoteChanges

LEMMA MergeStep == MergeInv /\ [Next]_vars => MergeInv'
<1> SUFFICES ASSUME MergeInv, [Next]_vars
             PROVE  MergeInv'
  OBVIOUS
<1>1. CASE UNCHANGED vars
  BY <1>1 DEF vars, MergeInv, ListInv, PathMerged, Locals, Remotes
<1>2. ASSUME NEW e \in Entries, TakeEntry(e)
      PROVE  MergeInv'
  <2> DEFINE c == [e EXCEPT !.rev = Len(list) + 1]
             a == RemoteAction(c, rows)
  <2>1. ListInv /\ Len(list) \in Nat
    BY DEF MergeInv, ListInv
  <2>2. c \in DriveChange /\ c.rev = Len(list) + 1
    <3>1. e \in DriveChange
      BY LoopAssumption
    <3>2. QED
      BY <2>1, <3>1 DEF DriveChange
  <2>3. UNCHANGED <<local, rows>> /\ list' = Append(list, c)
    BY <1>2 DEF TakeEntry
  <2>4. list' \in Seq(DriveChange) /\ \A i \in 1..Len(list') : list'[i].rev = i
    <3> HIDE DEF c
    <3>1. QED
      BY <2>1, <2>2, <2>3 DEF ListInv
  <2>5. Locals' = Locals
    BY <2>3 DEF Locals
  <2>6. CASE ~YieldsAction(c, rows)
    <3>1. byPath' = byPath
      BY <1>2, <2>6 DEF TakeEntry
    <3>2. Remotes' = Remotes
      BY <2>1, <2>2, <2>3, <2>6, Grows
    <3>3. QED
      BY <2>1, <2>3, <2>4, <2>5, <3>1, <3>2 DEF MergeInv, ListInv, PathMerged
  <2>7. CASE YieldsAction(c, rows)
    <3> HIDE DEF c
    <3>1. byPath' = [byPath EXCEPT ![a.path] = Insert(byPath[a.path], a)]
      BY <1>2, <2>7 DEF TakeEntry, c
    <3>2. Remotes' = Remotes \cup {a}
      BY <2>1, <2>2, <2>3, <2>7, Grows
    <3>3. /\ a \in SyncAction /\ a.path \in Path /\ a.file = c
          /\ a.kind \in {"DeleteLocal", "UpdateDownload", "NewDownload"}
      BY <2>1, <2>2, <2>7, RemoteActions DEF ListInv
    <3> HIDE DEF a
    <3>4. \A d \in Remotes : d.file.rev \in Nat /\ d.file.rev < a.file.rev /\ d # a
      BY <2>1, <2>2, <3>3, RemoteFromList
    <3> PICK p \in Path : p = a.path
      BY <3>3
    <3>5. byPath'[p] = Insert(byPath[p], a)
          /\ \A q \in Path \ {p} : byPath'[q] = byPath[q]
      BY <2>1, <3>1, <3>3 DEF ListInv
    <3>6. LastOnPath(a, Remotes') /\ a \in OnPath(Remotes', p)
      BY <2>2, <3>2, <3>3, <3>4 DEF LastOnPath, OnPath, DriveChange
    <3>7. byPath'[p] = Resolve(a, Locals, Remotes')
      <4>1. CASE OnPath(Remotes, p) = {}
        <5>1. byPath[p] = Held(Locals, p)
          BY <3>3, <4>1 DEF MergeInv, PathMerged
        <5>2. OnPath(Remotes', p) = {a}
          BY <3>2, <4>1 DEF OnPath
        <5> DEFINE edited == {u \in OnPath(Locals, p) : u.kind = "UpdateUpload"}
                   held == Held(Locals, p)
        <5>3. held # None /\ held.kind = "UpdateUpload" => edited = {held}
          BY <2>1, <3>3, HeldLocal DEF ListInv, Locals
        <5>4. ~(held # None /\ held.kind = "UpdateUpload") => edited = {}
          BY <2>1, <3>3, HeldLocal DEF ListInv, Locals
        <5>5. Resolve(a, Locals, Remotes') =
                IF a.kind = "UpdateDownload" /\ edited # {}
                THEN Conflict(CHOOSE u \in edited : TRUE, a) ELSE a
          BY <5>2 DEF Resolve
        <5>6. Insert(held, a) =
                IF held # None /\ held.kind = "UpdateUpload" /\ a.kind = "UpdateDownload"
                THEN Conflict(held, a) ELSE a
          BY DEF Insert
        <5> HIDE DEF edited, held
        <5>7. QED
          BY <3>5, <5>1, <5>3, <5>4, <5>5, <5>6 DEF held
      <4>2. CASE OnPath(Remotes, p) # {}
        <5>1. PICK d \in OnPath(Remotes, p) : byPath[p] = Resolve(d, Locals, Remotes)
          BY <3>3, <4>2 DEF MergeInv, PathMerged
        <5>2. byPath[p].kind # "UpdateUpload"
          BY <2>1, <5>1, ResolvedOK, RemoteFacts DEF OnPath
        <5>3. Insert(byPath[p], a) = a
          BY <5>2 DEF Insert
        <5>4. OnPath(Remotes', p) # {a}
          BY <3>2, <3>4, <5>1 DEF OnPath
        <5>5. Resolve(a, Locals, Remotes') = a
          BY <5>4 DEF Resolve
        <5>6. QED
          BY <3>5, <5>3, <5>5
      <4>3. QED
        BY <4>1, <4>2
    <3>8. Resolve(a, Locals, Remotes') \in SyncAction
      <4>1. \A u \in Locals : u \in SyncAction
        BY <2>1, LocalActions DEF ListInv, Locals
      <4>2. \/ Resolve(a, Locals, Remotes') = a
            \/ \E u \in Locals : Resolve(a, Locals, Remotes') = Conflict(u, a)
        BY DEF Resolve, OnPath
      <4>3. \A u \in Locals : Conflict(u, a) \in SyncAction
        BY <3>3, <4>1 DEF Conflict, SyncAction, Kinds
      <4>4. QED
        BY <3>3, <4>2, <4>3
    <3>9. ASSUME NEW q \in Path, q # p
          PROVE  PathMerged(q)'
      <4>1. OnPath(Remotes', q) = OnPath(Remotes, q)
        BY <3>2, <3>9 DEF OnPath
      <4>2. \A d \in OnPath(Remotes, q) :
              /\ LastOnPath(d, Remotes) => LastOnPath(d, Remotes')
              /\ Resolve(d, Locals, Remotes') = Resolve(d, Locals, Remotes)
        <5>1. \A d \in OnPath(Remotes, q) : d.path = q
          BY DEF OnPath
        <5>2. QED
          BY <4>1, <5>1 DEF LastOnPath, Resolve
      <4>3. QED
        BY <2>5, <3>5, <3>9, <4>1, <4>2 DEF MergeInv, PathMerged
    <3>10. PathMerged(p)'
      BY <2>5, <3>6, <3>7 DEF PathMerged
    <3>11. ListInv'
      <4>1. byPath' \in [Path -> SyncAction \cup {None}]
        BY <2>1, <3>1, <3>3, <3>5, <3>7, <3>8 DEF ListInv
      <4>2. QED
        BY <2>1, <2>3, <2>4, <4>1 DEF ListInv
    <3>12. QED
      BY <3>9, <3>10, <3>11 DEF MergeInv
  <2>8. QED
    BY <2>6, <2>7
<1>3. QED
  BY <1>1, <1>2 DEF Next

LEMMA MergeReached == Spec => []MergeInv
BY MergeInit, MergeStep, PTL DEF Spec

(* What a path holds is a local action or a resolved remote one. *)
LEMMA HeldBy ==
  ASSUME MergeInv, NEW p \in Path, byPath[p] # None
  PROVE  \/ OnPath(Remotes, p) = {} /\ byPath[p] \in OnPath(Locals, p)
         \/ \E d \in OnPath(Remotes, p) :
              LastOnPath(d, Remotes) /\ byPath[p] = Resolve(d, Locals, Remotes)
BY HeldLocal DEF MergeInv, PathMerged, ListInv, Locals

(* Every merged action is complete and filed under its own path. *)
THEOREM TypeCorrect == Spec => []TypeOK
<1>1. MergeInv => TypeOK
  <2> SUFFICES ASSUME MergeInv PROVE TypeOK
    OBVIOUS
  <2>1. ListInv
    BY DEF MergeInv
  <2>2. ASSUME NEW p \in Path, byPath[p] # None
        PROVE  byPath[p].path = p /\ Complete(byPath[p])
    <3>1. CASE byPath[p] \in OnPath(Locals, p)
      BY <2>1, <3>1, LocalActions DEF OnPath, Locals, ListInv
    <3>2. CASE \E d \in OnPath(Remotes, p) : byPath[p] = Resolve(d, Locals, Remotes)
      BY <2>1, <3>2, ResolvedOK DEF OnPath
    <3>3. QED
      BY <2>2, <3>1, <3>2, HeldBy
  <2>3. QED
    BY <2>1, <2>2 DEF TypeOK, ListInv
<1>2. QED
  BY <1>1, MergeReached, PTL

(* For every directory, table and list of changes, the loop of merge_actions *)
(* ends with the actions that MergeActions names, and no others.             *)
THEOREM MergeAgreesHolds == Spec => []MergeAgrees
<1>1. MergeInv => MergeAgrees
  <2> SUFFICES ASSUME MergeInv PROVE Range(byPath) \ {None} = Merged
    BY DEF MergeAgrees
  <2>1. ListInv /\ DOMAIN byPath = Path
    BY DEF MergeInv, ListInv
  <2>2. Merged = {u \in Locals : OnPath(Remotes, u.path) = {}}
                 \cup {Resolve(d, Locals, Remotes) :
                         d \in {e \in Remotes : LastOnPath(e, Remotes)}}
    BY DEF Merged, MergeActions, Locals, Remotes
  <2>3. ASSUME NEW p \in Path, byPath[p] # None
        PROVE  byPath[p] \in Merged
    BY <2>2, <2>3, HeldBy DEF OnPath
  <2>4. ASSUME NEW u \in Locals, OnPath(Remotes, u.path) = {}
        PROVE  u \in Range(byPath) \ {None}
    <3>1. u.path \in Path /\ u \in OnPath(Locals, u.path)
      BY <2>1, LocalActions DEF Locals, ListInv, OnPath
    <3>2. u = Held(Locals, u.path) /\ u # None
      BY <2>1, <3>1, HeldLocal DEF Locals, ListInv
    <3>3. byPath[u.path] = u
      BY <2>4, <3>1, <3>2 DEF MergeInv, PathMerged
    <3>4. QED
      BY <2>1, <3>1, <3>2, <3>3 DEF Range
  <2>5. ASSUME NEW d \in Remotes, LastOnPath(d, Remotes)
        PROVE  Resolve(d, Locals, Remotes) \in Range(byPath) \ {None}
    <3>1. d.path \in Path /\ d \in OnPath(Remotes, d.path)
      BY <2>1, RemoteFacts DEF OnPath
    <3>2. PICK e \in OnPath(Remotes, d.path) :
            LastOnPath(e, Remotes) /\ byPath[d.path] = Resolve(e, Locals, Remotes)
      BY <3>1 DEF MergeInv, PathMerged
    <3>3. e = d
      BY <2>1, <2>5, <3>2, LastUnique DEF OnPath
    <3>4. Resolve(d, Locals, Remotes) # None
      BY <2>1, ResolvedOK, LoopAssumption
    <3>5. QED
      BY <2>1, <3>1, <3>2, <3>3, <3>4 DEF Range
  <2>6. QED
    BY <2>1, <2>2, <2>3, <2>4, <2>5 DEF Range
<1>2. QED
  BY <1>1, MergeReached, PTL

(* A file that both sides changed since its row was written is a Conflict, if *)
(* one entry of the list concerns it.                                         *)
THEOREM ConflictDetectedHolds == Spec => []ConflictDetected
<1>1. MergeInv => ConflictDetected
  <2> SUFFICES ASSUME MergeInv, NEW p \in Path, rows[p] # None, local[p] # None,
                      NEW i \in DOMAIN list, EntriesOn(p) = {i}, list[i].status = "live",
                      IsConflict(local[p], rows[p], list[i])
               PROVE  byPath[p].kind = "Conflict"
    BY DEF ConflictDetected
  <2> DEFINE c == list[i]
             a == RemoteAction(c, rows)
             u == FromLocal("UpdateUpload", p, rows[p], local[p].md5, local[p].mtime)
  <2>1. ListInv /\ i \in 1..Len(list) /\ c \in DriveChange /\ ChangePath(c, rows) = p
    BY DEF MergeInv, ListInv, EntriesOn
  <2>2. YieldsAction(c, rows)
    BY <2>1 DEF YieldsAction, IsConflict
  <2>3. a \in Remotes /\ a.path = p /\ a.kind = "UpdateDownload"
    BY <2>1, <2>2, RemoteInList, RemoteActions DEF ListInv, RemoteAction, RemoteKind, FromChange
  <2>4. OnPath(Remotes, p) = {a}
    <3>1. ASSUME NEW b \in OnPath(Remotes, p) PROVE b = a
      <4>1. b \in Remotes /\ b.path = p
        BY DEF OnPath
      <4>2. b.file.rev \in EntriesOn(p)
        BY <2>1, <4>1, RemoteFromList, RemoteFacts DEF EntriesOn, ListInv
      <4>3. b.file = c
        BY <2>1, <4>1, <4>2, RemoteFromList
      <4>4. QED
        BY <2>1, <4>1, <4>3, RemoteFromList
    <3>2. QED
      BY <2>3, <3>1 DEF OnPath
  <2>5. byPath[p] = Resolve(a, Locals, Remotes)
    BY <2>4 DEF MergeInv, PathMerged
  <2>6. u \in Locals /\ u.path = p /\ u.kind = "UpdateUpload"
    BY DEF Locals, ComputeLocalChanges, FromLocal, IsConflict
  <2>7. PICK v : Edit(v, a) /\ Resolve(a, Locals, Remotes) = Conflict(v, a)
    <3>1. {w \in OnPath(Locals, a.path) : w.kind = "UpdateUpload"} # {}
      BY <2>3, <2>6 DEF OnPath
    <3>2. QED
      BY <2>3, <2>4, <3>1 DEF Resolve, Edit, OnPath
  <2>8. QED
    BY <2>1, <2>3, <2>5, <2>7, ConflictOK
<1>2. QED
  BY <1>1, MergeReached, PTL

(* A Conflict is raised for nothing but a file that both sides changed. *)
THEOREM ConflictJustifiedHolds == Spec => []ConflictJustified
<1>1. MergeInv => ConflictJustified
  <2> SUFFICES ASSUME MergeInv, NEW p \in Path, byPath[p] # None, byPath[p].kind = "Conflict"
               PROVE  /\ rows[p] # None /\ local[p] # None
                      /\ IsConflict(local[p], rows[p], byPath[p].file)
    BY DEF ConflictJustified
  <2>1. ListInv
    BY DEF MergeInv
  <2>2. byPath[p] \notin OnPath(Locals, p)
    BY <2>1, LocalActions DEF OnPath, Locals, ListInv, UploadKinds
  <2>3. PICK d \in OnPath(Remotes, p) : byPath[p] = Resolve(d, Locals, Remotes)
    BY <2>2, HeldBy
  <2>4. d \in Remotes /\ d.path = p /\ d.kind # "Conflict"
    BY <2>1, RemoteFacts DEF OnPath
  <2>5. PICK u : Edit(u, d) /\ byPath[p] = Conflict(u, d)
    BY <2>1, <2>3, <2>4, ResolveOK
  <2>6. rows[p] # None /\ RemoteChanged(d.file, rows[p])
    BY <2>1, <2>4, <2>5, RemoteFacts DEF Edit
  <2>7. local[p] # None /\ LocalChanged(local[p], rows[p])
    BY <2>1, <2>4, <2>5, LocalActions DEF Edit, Locals, ListInv
  <2>8. byPath[p].file = d.file
    BY <2>1, <2>4, <2>5, ConflictOK
  <2>9. QED
    BY <2>6, <2>7, <2>8 DEF IsConflict
<1>2. QED
  BY <1>1, MergeReached, PTL

(* No file is deleted on Drive while the list has a live change of it, for *)
(* tables without two rows of one Drive file.                              *)
THEOREM EditBeatsDeleteHolds == Spec => []EditBeatsDelete
<1>1. MergeInv => EditBeatsDelete
  <2> SUFFICES ASSUME MergeInv, NEW p \in Path, byPath[p] # None,
                      byPath[p].kind = "DeleteRemote",
                      NEW i \in DOMAIN list, list[i].id = rows[p].id, list[i].status = "live",
                      RemoteChanged(list[i], rows[p])
               PROVE  FALSE
    BY DEF EditBeatsDelete
  <2>1. ListInv /\ i \in 1..Len(list) /\ list[i] \in DriveChange
    BY DEF MergeInv, ListInv
  <2>2. ASSUME NEW d \in OnPath(Remotes, p), byPath[p] = Resolve(d, Locals, Remotes)
        PROVE  FALSE
    BY <2>1, <2>2, ResolvedOK, RemoteFacts DEF OnPath
  <2>3. byPath[p] \in Locals /\ byPath[p].path = p /\ OnPath(Remotes, p) = {}
    BY <2>2, HeldBy DEF OnPath
  <2>4. rows[p] # None
    BY <2>1, <2>3, LocalActions DEF Locals, ListInv
  <2>5. ChangePath(list[i], rows) = p
    <3>1. HasRow(list[i].id, rows)
      BY <2>4 DEF HasRow
    <3>2. rows[ChangePath(list[i], rows)] # None
          /\ rows[ChangePath(list[i], rows)].id = rows[p].id
          /\ ChangePath(list[i], rows) \in Path
      BY <2>1, <3>1, PathOfChange
    <3>3. QED
      BY <2>1, <2>4, <3>2, TableAssumption DEF ListInv
  <2>6. YieldsAction(list[i], rows)
    BY <2>5 DEF YieldsAction
  <2>7. RemoteAction(list[i], rows) \in OnPath(Remotes, p)
    BY <2>1, <2>5, <2>6, RemoteInList, RemoteActions DEF OnPath, ListInv
  <2>8. QED
    BY <2>3, <2>7
<1>2. QED
  BY <1>1, MergeReached, PTL
=============================================================================
