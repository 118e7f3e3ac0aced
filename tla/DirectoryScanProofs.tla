------------------------ MODULE DirectoryScanProofs ------------------------
(* Proofs about DirectoryScan for any names, contents and bounds: types, that *)
(* a scan which users interleave with is warranted and misses nothing that    *)
(* stayed, that no row hides an edit, and that no download shows half-written. *)
EXTENDS DirectoryScan, TLAPS

-----------------------------------------------------------------------------
(* Types. *)

LEMMA TypeInit == ScanInit => ScanTypeOK
<1> SUFFICES ASSUME ScanInit PROVE ScanTypeOK
  OBVIOUS
<1>1. PICK files \in SUBSET UserNames, c \in Content :
        /\ disk = [p \in Name |->
                     IF p \in files THEN [content |-> c, mtime |-> 1] ELSE None]
        /\ table = [p \in Name |->
                      IF p \in files THEN [localMd5 |-> c, localModified |-> 1] ELSE None]
        /\ synced = [p \in Name |-> IF p \in files THEN c ELSE None]
  BY DEF ScanInit
<1>2. [content |-> c, mtime |-> 1] \in File /\ [localMd5 |-> c, localModified |-> 1] \in Row
  BY DEF File, Row, NoTime
<1>3. disk \in [Name -> File \cup {None}] /\ table \in [Name -> Row \cup {None}]
  BY <1>1, <1>2
<1>4. synced \in [Name -> Content \cup {Half, None}]
  BY <1>1
<1>5. found \in [Name -> Action \cup {None}] /\ lost \in [Name -> SUBSET Nat]
  BY DEF ScanInit, Nothing
<1>6. \A p \in Name : seen[p] \subseteq File \cup {None}
  BY DEF ScanInit
<1>7. phase = "idle" /\ todo = {} /\ reading = None /\ sent = None /\ writing = None /\ clock = 1
  BY DEF ScanInit
<1>8. left \in [{"writes", "fetches", "faults"} -> Nat]
  BY ScanAssumption DEF ScanInit
<1>9. QED
  BY <1>3, <1>4, <1>5, <1>6, <1>7, <1>8 DEF ScanTypeOK

LEMMA SpendOK ==
  ASSUME ScanTypeOK, NEW kind \in {"writes", "fetches", "faults"}, SpendOf(kind)
  PROVE  left' \in [{"writes", "fetches", "faults"} -> Nat]
BY DEF ScanTypeOK, SpendOf

(* A change of the directory keeps the types of the directory and its history. *)
LEMMA SetDiskOK ==
  ASSUME ScanTypeOK, NEW files \in [Name -> File \cup {None}], SetDisk(files)
  PROVE  disk' \in [Name -> File \cup {None}] /\ lost' \in [Name -> SUBSET Nat]
<1>1. ASSUME NEW p \in Name
      PROVE  (IF disk[p] = None \/ files[p] = disk[p]
              THEN lost[p] ELSE lost[p] \cup {disk[p].mtime}) \in SUBSET Nat
  BY DEF ScanTypeOK, File
<1>2. QED
  BY <1>1 DEF SetDisk

LEMMA NoFileIsNone == ASSUME NEW file \in File PROVE file # None
BY ScanAssumption

LEMMA NextFileOK ==
  ASSUME ScanTypeOK, NEW c \in Content \cup {Half}
  PROVE  [content |-> c, mtime |-> clock + 1] \in File /\ clock + 1 \in Nat
BY DEF ScanTypeOK, File, NoTime

LEMMA UserSetsOK ==
  ASSUME ScanTypeOK, NEW files \in [Name -> File \cup {None}], UserSets(files), clock' \in Nat
  PROVE  ScanTypeOK'
<1>1. disk' \in [Name -> File \cup {None}] /\ lost' \in [Name -> SUBSET Nat]
  BY SetDiskOK DEF UserSets
<1>2. left' \in [{"writes", "fetches", "faults"} -> Nat]
  BY SpendOK DEF UserSets
<1>3. ASSUME NEW p \in Name PROVE seen'[p] \subseteq File \cup {None}
  BY DEF ScanTypeOK, UserSets
<1>4. QED
  BY <1>1, <1>2, <1>3 DEF ScanTypeOK, UserSets

(* What a user's step does to the directory. *)
LEMMA UserStep ==
  ASSUME ScanTypeOK, User
  PROVE  \E files \in [Name -> File \cup {None}] :
           UserSets(files) /\ files[Tmp] = disk[Tmp] /\ clock' \in Nat
           /\ \A p \in UserNames :
                \/ files[p] = None
                \/ \E q \in UserNames : files[p] = disk[q]
                \/ \E c \in Content : files[p] = [content |-> c, mtime |-> clock + 1]
<1> USE ScanAssumption DEF UserNames
<1>1. PICK p \in UserNames : \/ Delete(p)
                             \/ \E c \in Content : Write(p, c)
                             \/ \E q \in UserNames : Rename(p, q)
  BY DEF User
<1>2. CASE Delete(p)
  <2> DEFINE files == [disk EXCEPT ![p] = None]
  <2>1. files \in [Name -> File \cup {None}] /\ UserSets(files) /\ clock' \in Nat
    BY <1>2 DEF Delete, ScanTypeOK
  <2>2. files[Tmp] = disk[Tmp]
        /\ \A r \in UserNames : files[r] = None \/ files[r] = disk[r]
    BY DEF ScanTypeOK
  <2>3. QED
    BY <2>1, <2>2
<1>3. CASE \E c \in Content : Write(p, c)
  <2>1. PICK c \in Content : Write(p, c)
    BY <1>3
  <2> DEFINE new == [content |-> c, mtime |-> clock + 1]
             files == [disk EXCEPT ![p] = new]
  <2>2. new \in File /\ clock + 1 \in Nat
    BY NextFileOK
  <2>3. files \in [Name -> File \cup {None}] /\ UserSets(files) /\ clock' \in Nat
    BY <2>1, <2>2 DEF Write, ScanTypeOK
  <2>4. files[Tmp] = disk[Tmp]
        /\ \A r \in UserNames : files[r] = new \/ files[r] = disk[r]
    BY DEF ScanTypeOK
  <2>5. QED
    BY <2>3, <2>4
<1>4. CASE \E q \in UserNames : Rename(p, q)
  <2>1. PICK q \in UserNames : Rename(p, q)
    BY <1>4
  <2> DEFINE files == [disk EXCEPT ![p] = None, ![q] = disk[p]]
  <2>2. files \in [Name -> File \cup {None}] /\ UserSets(files) /\ clock' \in Nat
    BY <2>1 DEF Rename, ScanTypeOK
  <2>3. files[Tmp] = disk[Tmp]
        /\ \A r \in UserNames : files[r] = None \/ files[r] = disk[r] \/ files[r] = disk[p]
    BY DEF ScanTypeOK
  <2>4. QED
    BY <2>2, <2>3
<1>5. QED
  BY <1>1, <1>2, <1>3, <1>4

LEMMA AbandonOK ==
  ASSUME ScanTypeOK, Abandon, UNCHANGED <<disk, lost, table, synced, clock>>,
         left' \in [{"writes", "fetches", "faults"} -> Nat]
  PROVE  ScanTypeOK'
BY DEF ScanTypeOK, Abandon, Nothing

LEMMA UploadForOK ==
  ASSUME NEW meta \in Meta, NEW row
  PROVE  UploadFor(meta, row) \in Action \cup {None}
BY DEF UploadFor, Action, UploadKinds

LEMMA FoundUpload ==
  ASSUME NEW a \in Action, a.kind \in UploadKinds
  PROVE  a.meta \in Meta
BY DEF Action, UploadKinds

LEMMA TypeScan ==
  ASSUME ScanTypeOK,
         \/ BeginScan \/ ListDir \/ ReadContent \/ EndReading \/ EndScan
         \/ \E p \in Name : ReadMtime(p) \/ CheckExists(p)
  PROVE  ScanTypeOK'
<1>1. CASE BeginScan
  BY <1>1 DEF BeginScan, ScanTypeOK
<1>2. CASE ListDir
  <2>1. CASE Abandon
    BY <1>2, <2>1, AbandonOK DEF ListDir, ScanTypeOK
  <2>2. CASE ~Abandon
    BY <1>2, <2>2 DEF ListDir, ScanTypeOK
  <2>3. QED
    BY <2>1, <2>2
<1>3. CASE ReadContent
  <2>1. CASE Abandon
    BY <1>3, <2>1, AbandonOK DEF ReadContent, ScanTypeOK
  <2>2. CASE ~Abandon
    <3> DEFINE p == reading.name
               meta == [md5 |-> disk[p].content, mtime |-> reading.mtime]
    <3>1. p \in Name /\ meta \in Meta
      BY <1>3, <2>2 DEF ReadContent, ScanTypeOK, File, Meta
    <3>2. UploadFor(meta, table[p]) \in Action \cup {None}
      BY <3>1, UploadForOK
    <3>3. found' = [found EXCEPT ![p] = UploadFor(meta, table[p])]
      BY <1>3, <2>2 DEF ReadContent
    <3>4. found' \in [Name -> Action \cup {None}]
      BY <3>1, <3>2, <3>3 DEF ScanTypeOK
    <3>5. QED
      BY <1>3, <2>2, <3>4 DEF ReadContent, ScanTypeOK
  <2>3. QED
    BY <2>1, <2>2
<1>4. CASE EndReading \/ EndScan
  BY <1>4 DEF EndReading, EndScan, ScanTypeOK
<1>5. ASSUME NEW p \in Name, ReadMtime(p)
      PROVE  ScanTypeOK'
  BY <1>5 DEF ReadMtime, ScanTypeOK, File
<1>6. ASSUME NEW p \in Name, CheckExists(p)
      PROVE  ScanTypeOK'
  <2>1. [kind |-> "DeleteRemote"] \in Action
    BY DEF Action
  <2>2. QED
    BY <1>6, <2>1 DEF CheckExists, ScanTypeOK
<1>7. QED
  BY <1>1, <1>2, <1>3, <1>4, <1>5, <1>6

LEMMA TypeFetch ==
  ASSUME ScanTypeOK,
         \/ FillTmp \/ RenameTmp \/ RecordDownload \/ EndFetching
         \/ \E p \in UserNames, c \in Content : WriteTmp(p, c)
  PROVE  ScanTypeOK'
<1> USE ScanAssumption DEF UserNames
<1>1. ASSUME NEW p \in UserNames, NEW c \in Content, WriteTmp(p, c)
      PROVE  ScanTypeOK'
  <2> DEFINE files == [disk EXCEPT ![Tmp] = [content |-> Half, mtime |-> clock + 1]]
  <2>1. files \in [Name -> File \cup {None}] /\ clock + 1 \in Nat
    BY NextFileOK DEF ScanTypeOK
  <2>2. disk' \in [Name -> File \cup {None}] /\ lost' \in [Name -> SUBSET Nat]
    BY <1>1, <2>1, SetDiskOK DEF WriteTmp
  <2>3. left' \in [{"writes", "fetches", "faults"} -> Nat]
    BY <1>1, SpendOK DEF WriteTmp
  <2>4. QED
    BY <1>1, <2>1, <2>2, <2>3 DEF WriteTmp, ScanTypeOK
<1>2. CASE FillTmp
  <2> DEFINE files == [disk EXCEPT ![Tmp] = [content |-> writing.content, mtime |-> clock + 1]]
  <2>1. writing.content \in Content \cup {Half}
    BY <1>2 DEF FillTmp, ScanTypeOK
  <2>2. files \in [Name -> File \cup {None}] /\ clock + 1 \in Nat
    BY <2>1, NextFileOK DEF ScanTypeOK
  <2>3. disk' \in [Name -> File \cup {None}] /\ lost' \in [Name -> SUBSET Nat]
    BY <1>2, <2>2, SetDiskOK DEF FillTmp
  <2>4. QED
    BY <1>2, <2>2, <2>3 DEF FillTmp, ScanTypeOK
<1>3. CASE RenameTmp
  <2> DEFINE files == [disk EXCEPT ![writing.name] = disk[Tmp], ![Tmp] = None]
  <2>1. files \in [Name -> File \cup {None}]
    BY <1>3 DEF RenameTmp, ScanTypeOK
  <2>2. disk' \in [Name -> File \cup {None}] /\ lost' \in [Name -> SUBSET Nat]
    BY <1>3, <2>1, SetDiskOK DEF RenameTmp
  <2>3. QED
    BY <1>3, <2>2 DEF RenameTmp, ScanTypeOK
<1>4. CASE RecordDownload
  <2>1. [localMd5 |-> writing.content, localModified |-> NoTime] \in Row
    BY <1>4 DEF RecordDownload, ScanTypeOK, Row, NoTime
  <2>2. QED
    BY <1>4, <2>1 DEF RecordDownload, ScanTypeOK
<1>5. CASE EndFetching
  BY <1>5 DEF EndFetching, ScanTypeOK
<1>6. QED
  BY <1>1, <1>2, <1>3, <1>4, <1>5

(* An upload that waits for its row is the action found for its name. *)
SentInv == sent # None => found[sent.name] # None /\ found[sent.name].kind \in UploadKinds

LEMMA TypeAct ==
  ASSUME ScanTypeOK, SentInv,
         RecordUpload \/ EndCycle \/ \E p \in Name : Upload(p) \/ DeleteRemote(p)
  PROVE  ScanTypeOK'
<1>1. CASE RecordUpload
  <2>1. sent.name \in Name /\ sent.content \in Content \cup {Half}
    BY <1>1 DEF RecordUpload, ScanTypeOK
  <2>2. found[sent.name].meta \in Meta
    BY <1>1, <2>1, FoundUpload DEF RecordUpload, ScanTypeOK, SentInv
  <2>3. [localMd5 |-> found[sent.name].meta.md5,
         localModified |-> found[sent.name].meta.mtime] \in Row
    BY <2>2 DEF Row, Meta
  <2>4. QED
    BY <1>1, <2>1, <2>3 DEF RecordUpload, Record, ScanTypeOK
<1>2. CASE EndCycle
  BY <1>2 DEF EndCycle, ScanTypeOK
<1>3. ASSUME NEW p \in Name, Upload(p)
      PROVE  ScanTypeOK'
  <2>1. CASE Abandon
    BY <1>3, <2>1, AbandonOK DEF Upload, ScanTypeOK
  <2>2. CASE ~Abandon
    BY <1>3, <2>2 DEF Upload, ScanTypeOK, File
  <2>3. QED
    BY <2>1, <2>2
<1>4. ASSUME NEW p \in Name, DeleteRemote(p)
      PROVE  ScanTypeOK'
  BY <1>4 DEF DeleteRemote, ScanTypeOK
<1>5. QED
  BY <1>1, <1>2, <1>3, <1>4

LEMMA TypeStep == ScanTypeOK /\ SentInv /\ [ScanNext]_scanVars => ScanTypeOK'
<1> SUFFICES ASSUME ScanTypeOK, SentInv, [ScanNext]_scanVars
             PROVE  ScanTypeOK'
  OBVIOUS
<1>1. CASE User
  BY <1>1, UserStep, UserSetsOK
<1>2. CASE Interrupted
  BY <1>2, AbandonOK, SpendOK DEF Interrupted
<1>3. CASE UNCHANGED scanVars
  BY <1>3 DEF ScanTypeOK, scanVars
<1>4. QED
  BY <1>1, <1>2, <1>3, TypeScan, TypeFetch, TypeAct DEF ScanNext

-----------------------------------------------------------------------------
(* What is in the cycle's hands at each phase. *)

PhaseInv ==
  /\ reading # None => phase = "reading" /\ reading.name \in todo
  /\ sent # None => phase = "acting"
  /\ writing # None => phase = "fetching"
  /\ phase \in {"idle", "listing"} => found = Nothing
  /\ SentInv

LEMMA PhaseStep == ScanTypeOK /\ PhaseInv /\ [ScanNext]_scanVars => PhaseInv'
<1> SUFFICES ASSUME ScanTypeOK, PhaseInv, [ScanNext]_scanVars
             PROVE  PhaseInv'
  OBVIOUS
<1> USE DEF PhaseInv, SentInv
<1>1. ASSUME Abandon PROVE PhaseInv'
  BY <1>1 DEF Abandon, Nothing
<1>2. CASE User
  BY <1>2, UserStep DEF UserSets
<1>3. CASE BeginScan
  BY <1>3 DEF BeginScan
<1>4. CASE ListDir
  BY <1>1, <1>4 DEF ListDir
<1>5. CASE ReadContent
  BY <1>1, <1>5 DEF ReadContent
<1>6. CASE EndReading \/ EndScan
  BY <1>6 DEF EndReading, EndScan
<1>7. CASE FillTmp \/ RenameTmp \/ RecordDownload \/ EndFetching
  BY <1>7 DEF FillTmp, RenameTmp, RecordDownload, EndFetching
<1>8. CASE RecordUpload
  BY <1>8 DEF RecordUpload, Record
<1>9. CASE EndCycle
  <2>1. sent = None
    BY <1>9 DEF EndCycle, ScanTypeOK, Nothing
  <2>2. QED
    BY <1>9, <2>1 DEF EndCycle
<1>10. CASE Interrupted
  BY <1>1, <1>10 DEF Interrupted
<1>11. ASSUME NEW p \in Name, ReadMtime(p)
       PROVE  PhaseInv'
  BY <1>11 DEF ReadMtime
<1>12. ASSUME NEW p \in Name, CheckExists(p)
       PROVE  PhaseInv'
  BY <1>12 DEF CheckExists
<1>13. ASSUME NEW p \in Name, Upload(p)
       PROVE  PhaseInv'
  <2>1. CASE Abandon
    BY <1>1, <2>1
  <2>2. CASE ~Abandon
    BY <1>13, <2>2 DEF Upload, Uploads
  <2>3. QED
    BY <2>1, <2>2
<1>14. ASSUME NEW p \in Name, DeleteRemote(p)
       PROVE  PhaseInv'
  BY <1>14 DEF DeleteRemote
<1>15. ASSUME NEW p \in UserNames, NEW c \in Content, WriteTmp(p, c)
       PROVE  PhaseInv'
  BY <1>15 DEF WriteTmp
<1>16. CASE UNCHANGED scanVars
  BY <1>16 DEF scanVars
<1>17. QED
  BY <1>2, <1>3, <1>4, <1>5, <1>6, <1>7, <1>8, <1>9, <1>10, <1>11, <1>12, <1>13, <1>14,
     <1>15, <1>16 DEF ScanNext

BaseInv == ScanTypeOK /\ PhaseInv

LEMMA BaseInit == ScanInit => BaseInv
BY TypeInit DEF ScanInit, BaseInv, PhaseInv, SentInv

LEMMA BaseStep == BaseInv /\ [ScanNext]_scanVars => BaseInv'
BY TypeStep, PhaseStep DEF BaseInv, PhaseInv

(* Every variable of the scan, the downloads and the uploads has its type, *)
(* whatever happens to the directory meanwhile.                            *)
THEOREM TypeCorrect == ScanSpec => []ScanTypeOK
<1>1. BaseInv => ScanTypeOK
  BY DEF BaseInv
<1>2. QED
  BY <1>1, BaseInit, BaseStep, PTL DEF ScanSpec

-----------------------------------------------------------------------------
(* No half-written file under its own name. *)

HalfInv ==
  /\ NeverHalf
  /\ writing # None /\ writing.at = "rename" =>
       disk[Tmp] # None /\ disk[Tmp].content = writing.content
  /\ sent # None /\ sent.name \in UserNames => sent.content # Half

LEMMA HalfStep == BaseInv /\ HalfInv /\ [ScanNext]_scanVars => HalfInv'
<1> SUFFICES ASSUME BaseInv, HalfInv, [ScanNext]_scanVars
             PROVE  HalfInv'
  OBVIOUS
<1> USE ScanAssumption DEF BaseInv, HalfInv, NeverHalf, UserNames
<1>1. ASSUME Abandon, UNCHANGED <<disk, synced>> PROVE HalfInv'
  BY <1>1 DEF Abandon
<1>2. CASE User
  <2>1. PICK files \in [Name -> File \cup {None}] :
          /\ UserSets(files) /\ files[Tmp] = disk[Tmp]
          /\ \A p \in UserNames :
               \/ files[p] = None
               \/ \E q \in UserNames : files[p] = disk[q]
               \/ \E c \in Content : files[p] = [content |-> c, mtime |-> clock + 1]
    BY <1>2, UserStep
  <2>2. \A p \in UserNames : files[p] # None => files[p].content # Half
    BY <2>1
  <2>3. disk' = files /\ UNCHANGED <<synced, writing, sent>>
    BY <2>1 DEF UserSets, SetDisk
  <2>4. QED
    BY <2>1, <2>2, <2>3
<1>3. CASE BeginScan \/ EndReading \/ EndScan \/ EndFetching \/ EndCycle
  BY <1>3 DEF BeginScan, EndReading, EndScan, EndFetching, EndCycle
<1>4. CASE ListDir
  BY <1>1, <1>4 DEF ListDir
<1>5. CASE ReadContent
  BY <1>1, <1>5 DEF ReadContent
<1>6. CASE FillTmp
  <2>1. disk' = [disk EXCEPT ![Tmp] = [content |-> writing.content, mtime |-> clock + 1]]
    BY <1>6 DEF FillTmp, SetDisk
  <2>2. disk'[Tmp] = [content |-> writing.content, mtime |-> clock + 1]
        /\ disk'[Tmp] \in File
    <3>1. writing.content \in Content
      BY <1>6 DEF FillTmp, ScanTypeOK
    <3>2. QED
      BY <2>1, <3>1, NextFileOK DEF ScanTypeOK
  <2>3. disk'[Tmp] # None
    BY <2>2, NoFileIsNone
  <2>4. \A p \in UserNames : disk'[p] = disk[p]
    BY <2>1 DEF ScanTypeOK
  <2>5. UNCHANGED <<synced, sent>> /\ writing'.content = writing.content
    BY <1>6 DEF FillTmp, ScanTypeOK
  <2>6. QED
    BY <2>2, <2>3, <2>4, <2>5
<1>7. CASE RenameTmp
  <2>1. writing.name \in UserNames /\ writing.content \in Content
    BY <1>7 DEF RenameTmp, ScanTypeOK
  <2>2. disk' = [disk EXCEPT ![writing.name] = disk[Tmp], ![Tmp] = None]
    BY <1>7 DEF RenameTmp, SetDisk
  <2>3. \A p \in UserNames : disk'[p] = IF p = writing.name THEN disk[Tmp] ELSE disk[p]
    BY <2>1, <2>2 DEF ScanTypeOK
  <2>4. disk[Tmp].content = writing.content /\ writing'.at = "row"
        /\ UNCHANGED <<synced, sent>>
    BY <1>7 DEF RenameTmp, ScanTypeOK
  <2>5. QED
    BY <2>1, <2>3, <2>4
<1>8. CASE RecordDownload
  BY <1>8 DEF RecordDownload, ScanTypeOK
<1>9. CASE RecordUpload
  BY <1>9 DEF RecordUpload, Record, ScanTypeOK
<1>10. CASE Interrupted
  BY <1>1, <1>10 DEF Interrupted
<1>11. ASSUME NEW p \in Name, ReadMtime(p) \/ CheckExists(p)
       PROVE  HalfInv'
  BY <1>11 DEF ReadMtime, CheckExists
<1>12. ASSUME NEW p \in Name, Upload(p)
       PROVE  HalfInv'
  BY <1>1, <1>12 DEF Upload
<1>13. ASSUME NEW p \in Name, DeleteRemote(p)
       PROVE  HalfInv'
  BY <1>13 DEF DeleteRemote, ScanTypeOK
<1>14. ASSUME NEW p \in UserNames, NEW c \in Content, WriteTmp(p, c)
       PROVE  HalfInv'
  <2>1. \A q \in UserNames : disk'[q] = disk[q]
    BY <1>14 DEF WriteTmp, SetDisk, ScanTypeOK
  <2>2. UNCHANGED <<synced, sent>> /\ writing'.at = "tmp"
    BY <1>14 DEF WriteTmp
  <2>3. QED
    BY <2>1, <2>2
<1>15. CASE UNCHANGED scanVars
  BY <1>15 DEF scanVars
<1>16. QED
  BY <1>2, <1>3, <1>4, <1>5, <1>6, <1>7, <1>8, <1>9, <1>10, <1>11, <1>12, <1>13, <1>14,
     <1>15 DEF ScanNext

(* Whatever fails or crashes during write_atomic, a file shows a whole download *)
(* or none, and no row stands for half a one.                                   *)
THEOREM NeverHalfHolds == ScanSpec => []NeverHalf
<1>1. ScanInit => HalfInv
  BY ScanAssumption DEF ScanInit, HalfInv, NeverHalf, UserNames
<1>2. HalfInv => NeverHalf
  BY DEF HalfInv
<1>3. QED
  BY <1>1, <1>2, BaseInit, BaseStep, HalfStep, PTL DEF ScanSpec

-----------------------------------------------------------------------------
(* What the cycle has read of a file stays true of it, or the file is gone. *)

Held(p, mtime) ==
  mtime \in lost[p] \/ (disk[p] # None /\ disk[p].mtime = mtime)

Shown(p, meta) ==
  meta.mtime \in lost[p] \/ (disk[p] # None /\ MetaOf(disk[p]) = meta)

HonestInv ==
  /\ reading # None => Held(reading.name, reading.mtime)
  /\ \A p \in Uploads : Shown(p, found[p].meta)
  /\ sent # None =>
       LET meta == found[sent.name].meta
       IN  meta.mtime \in lost[sent.name] \/ sent.content = meta.md5
  /\ \A p \in Name :
       table[p] # None =>
         \/ table[p].localModified \in lost[p] \cup {NoTime}
         \/ synced[p] = table[p].localMd5

LEMMA HeldStays ==
  ASSUME ScanTypeOK,
         \/ UNCHANGED <<disk, lost>>
         \/ \E files \in [Name -> File \cup {None}] : SetDisk(files)
  PROVE  /\ \A p \in Name : lost[p] \subseteq lost'[p]
         /\ \A p \in Name, m \in Nat : Held(p, m) => Held(p, m)'
         /\ \A p \in Name, meta \in Meta : Shown(p, meta) => Shown(p, meta)'
<1>1. CASE UNCHANGED <<disk, lost>>
  BY <1>1 DEF Held, Shown
<1>2. CASE \E files \in [Name -> File \cup {None}] : SetDisk(files)
  <2>1. ASSUME NEW p \in Name
        PROVE  lost[p] \subseteq lost'[p]
               /\ (disk[p] # None => disk'[p] = disk[p] \/ disk[p].mtime \in lost'[p])
    BY <1>2 DEF SetDisk
  <2>2. QED
    BY <2>1 DEF Held, Shown, MetaOf
<1>3. QED
  BY <1>1, <1>2

(* A step that leaves the cycle's hands and the table alone. *)
LEMMA HonestIdle ==
  ASSUME ScanTypeOK, HonestInv, UNCHANGED <<table, synced, reading, found, sent>>, SentInv,
         \/ UNCHANGED <<disk, lost>>
         \/ \E files \in [Name -> File \cup {None}] : SetDisk(files)
  PROVE  HonestInv'
<1> USE DEF HonestInv
<1>1. reading # None => Held(reading.name, reading.mtime)'
  BY HeldStays DEF ScanTypeOK
<1>2. ASSUME NEW p \in Uploads
      PROVE  Shown(p, found[p].meta)'
  BY HeldStays, FoundUpload DEF Uploads, ScanTypeOK
<1>3. sent # None =>
        found[sent.name].meta.mtime \in lost'[sent.name] \/ sent.content = found[sent.name].meta.md5
  BY HeldStays DEF ScanTypeOK
<1>4. ASSUME NEW p \in Name, table[p] # None
      PROVE  \/ table[p].localModified \in lost'[p] \cup {NoTime}
             \/ synced[p] = table[p].localMd5
  BY <1>4, HeldStays
<1>5. Uploads' = Uploads
  BY DEF Uploads
<1>6. QED
  BY <1>1, <1>2, <1>3, <1>4, <1>5 DEF Held, Shown

LEMMA HonestScan ==
  ASSUME BaseInv, HonestInv,
         \/ ListDir \/ ReadContent
         \/ \E p \in Name : ReadMtime(p) \/ CheckExists(p)
  PROVE  HonestInv'
<1> USE DEF BaseInv, HonestInv
<1>1. ASSUME Abandon, UNCHANGED <<disk, lost, table, synced>> PROVE HonestInv'
  BY <1>1 DEF Abandon, Nothing, Uploads
<1>2. CASE ListDir
  BY <1>1, <1>2, HonestIdle DEF ListDir, PhaseInv
<1>3. CASE ReadContent
  <2>1. CASE Abandon
    BY <1>1, <1>3, <2>1 DEF ReadContent
  <2>2. CASE ~Abandon
    <3> DEFINE p == reading.name
               meta == [md5 |-> disk[p].content, mtime |-> reading.mtime]
    <3>1. p \in Name /\ found' = [found EXCEPT ![p] = UploadFor(meta, table[p])]
          /\ disk[p] # None /\ reading' = None /\ sent' = None
          /\ UNCHANGED <<disk, lost, table, synced>>
      BY <1>3, <2>2 DEF ReadContent, ScanTypeOK, PhaseInv
    <3>2. Shown(p, meta)
      BY <1>3, <3>1 DEF ReadContent, Held, Shown, MetaOf
    <3>3. UploadFor(meta, table[p]) # None => UploadFor(meta, table[p]).meta = meta
      BY DEF UploadFor
    <3>4. \A q \in Uploads' : Shown(q, found'[q].meta)
      BY <3>1, <3>2, <3>3 DEF Uploads, ScanTypeOK
    <3>5. QED
      BY <3>1, <3>4 DEF Shown
  <2>3. QED
    BY <2>1, <2>2
<1>4. ASSUME NEW p \in Name, ReadMtime(p)
      PROVE  HonestInv'
  <2>1. CASE UNCHANGED reading
    BY <1>4, <2>1, HonestIdle DEF ReadMtime, PhaseInv
  <2>2. CASE reading' = [name |-> p, mtime |-> disk[p].mtime] /\ disk[p] # None
    BY <1>4, <2>2 DEF ReadMtime, Held, Shown, Uploads
  <2>3. QED
    BY <1>4, <2>1, <2>2 DEF ReadMtime
<1>5. ASSUME NEW p \in Name, CheckExists(p)
      PROVE  HonestInv'
  <2>1. Uploads' \subseteq Uploads /\ \A q \in Uploads' : found'[q] = found[q]
    BY <1>5 DEF CheckExists, Uploads, UploadKinds, ScanTypeOK
  <2>2. sent = None /\ sent' = None /\ UNCHANGED <<disk, lost, table, synced, reading>>
    BY <1>5 DEF CheckExists, PhaseInv
  <2>3. QED
    BY <2>1, <2>2 DEF Held, Shown
<1>6. QED
  BY <1>2, <1>3, <1>4, <1>5

LEMMA HonestAct ==
  ASSUME BaseInv, HonestInv,
         \/ RecordDownload \/ RecordUpload
         \/ \E p \in Name : Upload(p) \/ DeleteRemote(p)
  PROVE  HonestInv'
<1> USE DEF BaseInv, HonestInv
<1>1. ASSUME Abandon, UNCHANGED <<disk, lost, table, synced>> PROVE HonestInv'
  BY <1>1 DEF Abandon, Nothing, Uploads
<1>2. CASE RecordDownload
  <2>1. writing.name \in Name
    BY <1>2 DEF RecordDownload, ScanTypeOK, UserNames
  <2>2. \A p \in Name :
          table'[p] # None =>
            \/ table'[p].localModified \in lost[p] \cup {NoTime}
            \/ synced'[p] = table'[p].localMd5
    BY <1>2, <2>1 DEF RecordDownload, ScanTypeOK
  <2>3. UNCHANGED <<disk, lost, reading, found, sent>>
    BY <1>2 DEF RecordDownload
  <2>4. QED
    BY <2>2, <2>3 DEF Held, Shown, Uploads
<1>3. CASE RecordUpload
  <2> DEFINE meta == found[sent.name].meta
  <2>1. sent.name \in Name /\ UNCHANGED <<disk, lost, reading>> /\ sent' = None
    BY <1>3 DEF RecordUpload, Record, ScanTypeOK
  <2>2. \A p \in Name :
          table'[p] # None =>
            \/ table'[p].localModified \in lost[p] \cup {NoTime}
            \/ synced'[p] = table'[p].localMd5
    BY <1>3, <2>1 DEF RecordUpload, Record, ScanTypeOK
  <2>3. Uploads' \subseteq Uploads /\ \A q \in Uploads' : found'[q] = found[q]
    BY <1>3, <2>1 DEF RecordUpload, Record, Uploads, ScanTypeOK
  <2>4. QED
    BY <2>1, <2>2, <2>3 DEF Held, Shown
<1>4. ASSUME NEW p \in Name, Upload(p)
      PROVE  HonestInv'
  <2>1. CASE Abandon
    BY <1>1, <1>4, <2>1 DEF Upload
  <2>2. CASE ~Abandon
    <3>1. sent' = [name |-> p, content |-> disk[p].content] /\ disk[p] # None /\ p \in Uploads
          /\ UNCHANGED <<disk, lost, table, synced, reading, found>>
      BY <1>4, <2>2 DEF Upload
    <3>2. Uploads' = Uploads /\ \A q \in Uploads : Shown(q, found[q].meta)'
      BY <3>1 DEF Uploads, Shown
    <3>3. found[p].meta.mtime \in lost[p] \/ disk[p].content = found[p].meta.md5
      <4>1. found[p].meta.mtime \in lost[p] \/ MetaOf(disk[p]) = found[p].meta
        BY <3>1 DEF Shown
      <4>2. MetaOf(disk[p]).md5 = disk[p].content
        BY DEF MetaOf
      <4>3. QED
        BY <4>1, <4>2
    <3>4. reading # None => Held(reading.name, reading.mtime)'
      BY <3>1 DEF Held
    <3>5. QED
      BY <3>1, <3>2, <3>3, <3>4
  <2>3. QED
    BY <2>1, <2>2
<1>5. ASSUME NEW p \in Name, DeleteRemote(p)
      PROVE  HonestInv'
  <2>1. Uploads' \subseteq Uploads /\ \A q \in Uploads' : found'[q] = found[q]
    BY <1>5 DEF DeleteRemote, Uploads, ScanTypeOK
  <2>2. \A q \in Name : q # p => table'[q] = table[q] /\ synced'[q] = synced[q]
    BY <1>5 DEF DeleteRemote, ScanTypeOK
  <2>3. table'[p] = None /\ sent' = None /\ UNCHANGED <<disk, lost, reading>>
    BY <1>5 DEF DeleteRemote, ScanTypeOK
  <2>4. QED
    BY <2>1, <2>2, <2>3 DEF Held, Shown
<1>6. QED
  BY <1>2, <1>3, <1>4, <1>5

LEMMA HonestStep == BaseInv /\ HonestInv /\ [ScanNext]_scanVars => HonestInv'
<1> SUFFICES ASSUME BaseInv, HonestInv, [ScanNext]_scanVars
             PROVE  HonestInv'
  OBVIOUS
<1>1. ScanTypeOK /\ SentInv
  BY DEF BaseInv, PhaseInv
<1>2. CASE User
  BY <1>1, <1>2, UserStep, HonestIdle DEF UserSets
<1>3. CASE BeginScan \/ EndReading \/ EndScan \/ EndFetching \/ EndCycle
  BY <1>1, <1>3, HonestIdle DEF BeginScan, EndReading, EndScan, EndFetching, EndCycle
<1>4. ASSUME NEW p \in UserNames, NEW c \in Content, WriteTmp(p, c)
      PROVE  HonestInv'
  <2>1. [disk EXCEPT ![Tmp] = [content |-> Half, mtime |-> clock + 1]]
          \in [Name -> File \cup {None}]
    BY <1>1, NextFileOK DEF ScanTypeOK
  <2>2. QED
    BY <1>1, <1>4, <2>1, HonestIdle DEF WriteTmp
<1>5. CASE FillTmp
  <2>1. [disk EXCEPT ![Tmp] = [content |-> writing.content, mtime |-> clock + 1]]
          \in [Name -> File \cup {None}]
    BY <1>1, <1>5, NextFileOK DEF FillTmp, ScanTypeOK
  <2>2. QED
    BY <1>1, <1>5, <2>1, HonestIdle DEF FillTmp
<1>6. CASE RenameTmp
  <2>1. [disk EXCEPT ![writing.name] = disk[Tmp], ![Tmp] = None] \in [Name -> File \cup {None}]
    BY <1>1, <1>6, ScanAssumption DEF RenameTmp, ScanTypeOK
  <2>2. QED
    BY <1>1, <1>6, <2>1, HonestIdle DEF RenameTmp
<1>7. CASE Interrupted
  BY <1>7 DEF Interrupted, Abandon, Nothing, Uploads, HonestInv
<1>8. CASE UNCHANGED scanVars
  BY <1>1, <1>8, HonestIdle DEF scanVars
<1>9. QED
  BY <1>2, <1>3, <1>4, <1>5, <1>6, <1>7, <1>8, HonestScan, HonestAct DEF ScanNext

(* No row makes the next scan pass over an edit: what it takes for unchanged is *)
(* what Drive was given, unless a file came back under its name with the mtime  *)
(* that it had there before.                                                    *)
THEOREM RowHonestHolds == ScanSpec => []RowHonest
<1>1. ScanInit => HonestInv
  <2> SUFFICES ASSUME ScanInit PROVE HonestInv
    OBVIOUS
  <2>1. \A p \in Name : table[p] # None => synced[p] = table[p].localMd5
    BY DEF ScanInit
  <2>2. Uploads = {} /\ reading = None /\ sent = None
    BY DEF ScanInit, Uploads, Nothing
  <2>3. QED
    BY <2>1, <2>2 DEF HonestInv
<1>2. BaseInv /\ HonestInv => RowHonest
  <2> SUFFICES ASSUME BaseInv, HonestInv, NEW p \in Name,
                      disk[p] # None, table[p] # None, disk[p].mtime \notin lost[p],
                      ~LocalChanged(MetaOf(disk[p]), table[p])
               PROVE  disk[p].content = synced[p]
    BY DEF RowHonest
  <2>1. table[p].localMd5 = disk[p].content /\ table[p].localModified = disk[p].mtime
    BY DEF LocalChanged, MetaOf
  <2>2. disk[p].mtime # NoTime
    BY DEF BaseInv, ScanTypeOK, File
  <2>3. QED
    BY <2>1, <2>2 DEF HonestInv
<1>3. QED
  BY <1>1, <1>2, BaseInit, BaseStep, HonestStep, PTL DEF ScanSpec

-----------------------------------------------------------------------------
(* What a scan has found, against what each path has been since it began. *)

UploadKind(meta, row) ==
  IF row = None THEN "NewUpload" ELSE IF LocalChanged(meta, row) THEN "UpdateUpload" ELSE "none"

(* The history has the file that a path has now. *)
SeenInv == Scanning => \A p \in Name : disk[p] \in seen[p]

ReadInv ==
  reading # None => \E file \in seen[reading.name] : file # None /\ file.mtime = reading.mtime

(* No action that no file of the path called for. *)
DueInv ==
  phase \in {"reading", "checking"} =>
    \A p \in Name :
      KindFound(p) # "none" => \E file \in seen[p] : KindDue(file, table[p]) = KindFound(p)

(* The action of a path that has not changed: what is found while it is in todo *)
(* and when it no longer is.                                                    *)
KindSoFar(p, file) ==
  IF file = None /\ (phase = "reading" \/ p \in todo) THEN "none" ELSE KindDue(file, table[p])

StillInv ==
  phase \in {"reading", "checking"} =>
    \A p \in Name, file \in File \cup {None} :
      seen[p] = {file} =>
        \/ phase = "reading" /\ p \in todo /\ file # None
        \/ ~(phase = "reading" /\ p \in todo) /\ KindFound(p) = KindSoFar(p, file)

(* A path still to be read has no action. *)
FreshInv == phase = "reading" => \A p \in todo : found[p] = None

CheckInv == phase = "checking" => \A p \in todo : table[p] # None

SightInv == SeenInv /\ ReadInv /\ DueInv /\ StillInv /\ FreshInv /\ CheckInv

LEMMA KindUpload ==
  ASSUME NEW meta \in Meta, NEW row
  PROVE  LET up == UploadFor(meta, row)
         IN  (IF up = None THEN "none" ELSE up.kind) = UploadKind(meta, row)
<1>1. [kind |-> "NewUpload", meta |-> meta] \in Action
      /\ [kind |-> "UpdateUpload", meta |-> meta] \in Action
  BY DEF Action, UploadKinds
<1>2. [kind |-> "NewUpload", meta |-> meta] # None
      /\ [kind |-> "UpdateUpload", meta |-> meta] # None
  BY <1>1, ScanAssumption
<1>3. QED
  BY <1>2 DEF UploadFor, UploadKind

LEMMA KindOfFile ==
  ASSUME NEW file \in File, NEW row
  PROVE  KindDue(file, row) = UploadKind(MetaOf(file), row)
<1>1. MetaOf(file) \in Meta /\ file # None
  BY NoFileIsNone DEF MetaOf, File, Meta
<1>2. QED
  BY <1>1, KindUpload DEF KindDue

(* The action of a file whose mtime and content were read apart is due to one *)
(* of the files that the path had.                                            *)
LEMMA MixedKind ==
  ASSUME NEW older \in File, NEW newer \in File, NEW row,
         NEW meta, meta = [md5 |-> newer.content, mtime |-> older.mtime],
         UploadKind(meta, row) # "none"
  PROVE  \E file \in {older, newer} : KindDue(file, row) = UploadKind(meta, row)
<1>1. KindDue(older, row) = UploadKind(MetaOf(older), row)
      /\ KindDue(newer, row) = UploadKind(MetaOf(newer), row)
  BY KindOfFile
<1>2. \/ UploadKind(MetaOf(older), row) = UploadKind(meta, row)
      \/ UploadKind(MetaOf(newer), row) = UploadKind(meta, row)
  BY DEF UploadKind, MetaOf, LocalChanged
<1>3. QED
  BY <1>1, <1>2

LEMMA SightUser ==
  ASSUME BaseInv, SightInv, User
  PROVE  SightInv'
<1>1. PICK files \in [Name -> File \cup {None}] : UserSets(files)
  BY UserStep DEF BaseInv
<1>2. UNCHANGED <<table, phase, todo, reading, found>> /\ disk' = files
  BY <1>1 DEF UserSets, SetDisk
<1>3. CASE Scanning
  <2>1. ASSUME NEW p \in Name
        PROVE  /\ disk'[p] \in seen'[p] /\ seen[p] \subseteq seen'[p]
               /\ \A file : seen'[p] = {file} => seen[p] = {file}
    <3>1. seen'[p] = seen[p] \cup {files[p]} /\ disk[p] \in seen[p]
      BY <1>1, <1>3 DEF UserSets, SightInv, SeenInv
    <3>2. QED
      BY <1>2, <3>1
  <2>2. \A p \in Name : KindFound(p)' = KindFound(p)
    BY <1>2 DEF KindFound
  <2>3. SeenInv'
    BY <2>1 DEF SeenInv
  <2>4. ReadInv'
    <3>1. reading # None => reading.name \in Name
      BY DEF BaseInv, ScanTypeOK
    <3>2. QED
      BY <1>2, <2>1, <3>1 DEF SightInv, ReadInv
  <2>5. DueInv'
    <3>1. \A p \in Name : \A file : KindDue(file, table[p])' = KindDue(file, table[p])
      BY <1>2
    <3>2. QED
      BY <1>2, <2>1, <2>2, <3>1 DEF SightInv, DueInv
  <2>6. StillInv'
    <3>1. \A p \in Name : \A file : KindSoFar(p, file)' = KindSoFar(p, file)
      BY <1>2 DEF KindSoFar
    <3>2. QED
      BY <1>2, <2>1, <2>2, <3>1 DEF SightInv, StillInv
  <2>7. FreshInv' /\ CheckInv'
    BY <1>2 DEF SightInv, FreshInv, CheckInv
  <2>8. QED
    BY <2>3, <2>4, <2>5, <2>6, <2>7 DEF SightInv
<1>4. CASE ~Scanning
  <2>1. reading = None /\ phase \notin {"reading", "checking"}
    BY <1>4 DEF Scanning, BaseInv, PhaseInv
  <2>2. QED
    BY <1>2, <1>4, <2>1 DEF SightInv, SeenInv, ReadInv, DueInv, StillInv, FreshInv, CheckInv, Scanning
<1>5. QED
  BY <1>3, <1>4

LEMMA SightRest ==
  ASSUME phase' \notin {"listing", "reading", "checking"}, reading' = None
  PROVE  SightInv'
BY DEF SightInv, SeenInv, ReadInv, DueInv, StillInv, FreshInv, CheckInv, Scanning

LEMMA SightRead ==
  ASSUME BaseInv, SightInv, ReadContent
  PROVE  SightInv'
<1>1. CASE Abandon
  BY <1>1, SightRest DEF Abandon
<1>2. CASE ~Abandon
  <2>1. PICK p \in Name : p = reading.name
    BY <1>2 DEF ReadContent, BaseInv, ScanTypeOK
  <2> DEFINE meta == [md5 |-> disk[p].content, mtime |-> reading.mtime]
             row == table[p]
  <2>2. /\ p \in todo /\ phase = "reading"
        /\ disk[p] \in File /\ disk[p] \in seen[p]
        /\ reading' = None /\ todo' = todo \ {p}
        /\ found' = [found EXCEPT ![p] = UploadFor(meta, row)]
        /\ UNCHANGED <<disk, table, phase, seen>>
    BY <1>2, <2>1 DEF ReadContent, BaseInv, PhaseInv, ScanTypeOK, SightInv, SeenInv, Scanning
  <2>3. PICK older \in seen[p] : older # None /\ older.mtime = reading.mtime
    BY <1>2, <2>1 DEF SightInv, ReadInv, ReadContent
  <2>4. older \in File
    BY <2>3 DEF BaseInv, ScanTypeOK
  <2>5. meta \in Meta /\ meta = [md5 |-> disk[p].content, mtime |-> older.mtime]
    BY <2>2, <2>3, <2>4 DEF File, Meta
  <2>6. KindFound(p)' = UploadKind(meta, row)
    <3>1. found'[p] = UploadFor(meta, row)
      BY <2>2 DEF BaseInv, ScanTypeOK
    <3>2. QED
      BY <2>5, <3>1, KindUpload DEF KindFound
  <2>7. UploadKind(meta, row) # "none" =>
          \E file \in seen[p] : KindDue(file, row) = UploadKind(meta, row)
    <3> SUFFICES ASSUME UploadKind(meta, row) # "none"
                 PROVE  \E file \in {older, disk[p]} : KindDue(file, row) = UploadKind(meta, row)
      BY <2>2, <2>3
    <3>1. QED
      BY <2>2, <2>4, <2>5, MixedKind
  <2>8. ASSUME NEW file \in File \cup {None}, seen[p] = {file}
        PROVE  file # None /\ UploadKind(meta, row) = KindDue(file, row)
    <3>1. file = disk[p] /\ file = older
      BY <2>2, <2>3, <2>8
    <3>2. MetaOf(file) = meta /\ file \in File /\ file # None
      BY <2>3, <2>4, <3>1 DEF MetaOf
    <3>3. QED
      BY <3>2, KindOfFile
  <2>9. ASSUME NEW q \in Name, q # p
        PROVE  KindFound(q)' = KindFound(q) /\ (q \in todo' <=> q \in todo)
    BY <2>2, <2>9 DEF KindFound, BaseInv, ScanTypeOK
  <2>10. \A q \in Name : \A file : KindDue(file, table[q])' = KindDue(file, table[q])
    BY <2>2
  <2>11. DueInv'
    BY <2>2, <2>6, <2>7, <2>9, <2>10 DEF SightInv, DueInv
  <2>12. StillInv'
    <3> SUFFICES ASSUME NEW q \in Name, NEW file \in File \cup {None}, seen[q] = {file}
                 PROVE  \/ q \in todo' /\ file # None
                        \/ q \notin todo' /\ KindFound(q)' = KindSoFar(q, file)'
      BY <2>2 DEF StillInv
    <3>1. KindSoFar(q, file)' = KindSoFar(q, file)
      BY <2>2 DEF KindSoFar
    <3>2. CASE q = p
      BY <2>2, <2>6, <2>8, <3>1, <3>2 DEF KindSoFar
    <3>3. CASE q # p
      BY <2>2, <2>9, <3>1, <3>3 DEF SightInv, StillInv
    <3>4. QED
      BY <3>2, <3>3
  <2>13. QED
    BY <2>2, <2>11, <2>12 DEF SightInv, SeenInv, ReadInv, FreshInv, CheckInv, Scanning
<1>3. QED
  BY <1>1, <1>2

LEMMA SightList ==
  ASSUME BaseInv, SightInv, ListDir
  PROVE  SightInv'
<1>1. CASE Abandon
  BY <1>1, SightRest DEF Abandon
<1>2. CASE ~Abandon
  <2>1. PICK entries \in SUBSET {p \in Name : seen[p] # {None}} :
          {p \in Name : None \notin seen[p]} \subseteq entries /\ todo' = entries
    BY <1>2 DEF ListDir
  <2>2. phase = "listing" /\ phase' = "reading" /\ reading' = None /\ found' = Nothing
        /\ UNCHANGED <<disk, table, seen>>
    BY <1>2 DEF ListDir, BaseInv, PhaseInv
  <2>3. \A p \in Name : KindFound(p)' = "none"
    BY <2>2 DEF KindFound, Nothing
  <2>4. StillInv'
    <3> SUFFICES ASSUME NEW p \in Name, NEW file \in File \cup {None}, seen[p] = {file}
                 PROVE  (p \in todo' /\ file # None) \/ (p \notin todo' /\ file = None)
      BY <2>2, <2>3 DEF StillInv, KindSoFar
    <3>1. QED
      BY <2>1
  <2>5. FreshInv'
    BY <2>1, <2>2 DEF FreshInv, Nothing
  <2>6. QED
    BY <2>2, <2>3, <2>4, <2>5 DEF SightInv, SeenInv, ReadInv, DueInv, CheckInv, Scanning
<1>3. QED
  BY <1>1, <1>2

LEMMA SightMtime ==
  ASSUME BaseInv, SightInv, NEW p \in Name, ReadMtime(p)
  PROVE  SightInv'
<1>1. /\ phase = "reading" /\ p \in todo /\ disk[p] \in seen[p]
      /\ UNCHANGED <<disk, table, phase, found, seen>>
  BY DEF ReadMtime, SightInv, SeenInv, Scanning
<1>2. \A q \in Name : KindFound(q)' = KindFound(q)
  BY <1>1 DEF KindFound
<1>3. \A q \in Name : \A file : KindDue(file, table[q])' = KindDue(file, table[q])
  BY <1>1
<1>4. SeenInv' /\ DueInv' /\ FreshInv' /\ CheckInv'
  <2>1. SeenInv' /\ CheckInv'
    BY <1>1 DEF SightInv, SeenInv, CheckInv, Scanning
  <2>2. DueInv'
    BY <1>1, <1>2, <1>3 DEF SightInv, DueInv
  <2>3. todo' \subseteq todo
    BY DEF ReadMtime
  <2>4. FreshInv'
    BY <1>1, <2>3 DEF SightInv, FreshInv
  <2>5. QED
    BY <2>1, <2>2, <2>4
<1>5. CASE disk[p] = None
  <2>1. todo' = todo \ {p} /\ reading' = None
    BY <1>5 DEF ReadMtime
  <2>2. KindFound(p) = "none"
    BY <1>1 DEF KindFound, SightInv, FreshInv
  <2>3. StillInv'
    <3> SUFFICES ASSUME NEW q \in Name, NEW file \in File \cup {None}, seen[q] = {file}
                 PROVE  \/ q \in todo' /\ file # None
                        \/ q \notin todo' /\ KindFound(q) = KindSoFar(q, file)'
      BY <1>1, <1>2 DEF StillInv
    <3>1. KindSoFar(q, file)' = KindSoFar(q, file)
      BY <1>1 DEF KindSoFar
    <3>2. CASE q = p
      BY <1>1, <1>5, <2>1, <2>2, <3>1, <3>2 DEF KindSoFar
    <3>3. CASE q # p
      BY <1>1, <2>1, <3>1, <3>3 DEF SightInv, StillInv
    <3>4. QED
      BY <3>2, <3>3
  <2>4. QED
    BY <1>4, <2>1, <2>3 DEF SightInv, ReadInv
<1>6. CASE disk[p] # None
  <2>1. reading' = [name |-> p, mtime |-> disk[p].mtime] /\ UNCHANGED todo
    BY <1>6 DEF ReadMtime
  <2>2. ReadInv'
    BY <1>1, <1>6, <2>1 DEF ReadInv
  <2>3. \A q \in Name : \A file : KindSoFar(q, file)' = KindSoFar(q, file)
    BY <1>1, <2>1 DEF KindSoFar
  <2>4. StillInv'
    BY <1>1, <1>2, <2>1, <2>3 DEF SightInv, StillInv
  <2>5. QED
    BY <1>4, <2>2, <2>4 DEF SightInv
<1>7. QED
  BY <1>5, <1>6

LEMMA SightEndReading ==
  ASSUME BaseInv, SightInv, EndReading
  PROVE  SightInv'
<1>1. /\ phase = "reading" /\ phase' = "checking" /\ todo = {} /\ reading' = None
      /\ todo' = {p \in Name : table[p] # None}
      /\ UNCHANGED <<disk, table, found, seen>>
  BY DEF EndReading, BaseInv, PhaseInv
<1>2. \A q \in Name : KindFound(q)' = KindFound(q)
  BY <1>1 DEF KindFound
<1>3. \A q \in Name : \A file : KindDue(file, table[q])' = KindDue(file, table[q])
  BY <1>1
<1>4. StillInv'
  <2> SUFFICES ASSUME NEW q \in Name, NEW file \in File \cup {None}, seen[q] = {file}
               PROVE  KindFound(q) = KindSoFar(q, file)'
    BY <1>1, <1>2 DEF StillInv
  <2>1. KindFound(q) = IF file = None THEN "none" ELSE KindDue(file, table[q])
    BY <1>1 DEF SightInv, StillInv, KindSoFar
  <2>2. table[q] = None => KindDue(None, table[q]) = "none"
    BY DEF KindDue
  <2>3. KindSoFar(q, file)' =
          IF file = None /\ table[q] # None THEN "none" ELSE KindDue(file, table[q])
    BY <1>1, <1>3 DEF KindSoFar
  <2>4. QED
    BY <2>1, <2>2, <2>3
<1>5. QED
  BY <1>1, <1>2, <1>3, <1>4 DEF SightInv, SeenInv, ReadInv, DueInv, FreshInv, CheckInv, Scanning

LEMMA SightCheck ==
  ASSUME BaseInv, SightInv, NEW p \in Name, CheckExists(p)
  PROVE  SightInv'
<1>1. /\ phase = "checking" /\ p \in todo /\ todo' = todo \ {p} /\ reading' = None
      /\ table[p] # None /\ disk[p] \in seen[p]
      /\ UNCHANGED <<disk, table, phase, seen>>
  BY DEF CheckExists, BaseInv, PhaseInv, SightInv, SeenInv, CheckInv, Scanning
<1>2. KindFound(p)' = IF disk[p] = None THEN "DeleteRemote" ELSE KindFound(p)
  <2>1. [kind |-> "DeleteRemote"] # None
    BY ScanAssumption DEF Action
  <2>2. found'[p] = IF disk[p] = None THEN [kind |-> "DeleteRemote"] ELSE found[p]
    BY DEF CheckExists, BaseInv, ScanTypeOK
  <2>3. QED
    BY <2>1, <2>2 DEF KindFound
<1>3. KindDue(None, table[p]) = "DeleteRemote"
  BY <1>1 DEF KindDue
<1>4. ASSUME NEW q \in Name, q # p
      PROVE  KindFound(q)' = KindFound(q) /\ (q \in todo' <=> q \in todo)
  <2>1. found'[q] = found[q]
    BY <1>4 DEF CheckExists, BaseInv, ScanTypeOK
  <2>2. QED
    BY <1>1, <1>4, <2>1 DEF KindFound
<1>5. \A q \in Name : \A file : KindDue(file, table[q])' = KindDue(file, table[q])
  BY <1>1
<1>6. DueInv'
  BY <1>1, <1>2, <1>3, <1>4, <1>5 DEF SightInv, DueInv
<1>7. StillInv'
  <2> SUFFICES ASSUME NEW q \in Name, NEW file \in File \cup {None}, seen[q] = {file}
               PROVE  KindFound(q)' = KindSoFar(q, file)'
    BY <1>1 DEF StillInv
  <2>1. KindFound(q) = KindSoFar(q, file)
    BY <1>1 DEF SightInv, StillInv
  <2>2. CASE q = p
    <3>1. file = disk[p]
      BY <1>1, <2>2
    <3>2. KindSoFar(p, file)' = KindDue(file, table[p])
      BY <1>1, <1>5 DEF KindSoFar
    <3>3. QED
      BY <1>2, <1>3, <2>1, <2>2, <3>1, <3>2 DEF KindSoFar
  <2>3. CASE q # p
    BY <1>1, <1>4, <1>5, <2>1, <2>3 DEF KindSoFar
  <2>4. QED
    BY <2>2, <2>3
<1>8. QED
  BY <1>1, <1>6, <1>7 DEF SightInv, SeenInv, ReadInv, FreshInv, CheckInv, Scanning

LEMMA SightStep == BaseInv /\ SightInv /\ [ScanNext]_scanVars => SightInv'
<1> SUFFICES ASSUME BaseInv, SightInv, [ScanNext]_scanVars
             PROVE  SightInv'
  OBVIOUS
<1>1. CASE BeginScan
  <2>1. phase' = "listing" /\ reading' = None /\ disk' = disk
        /\ seen' = [p \in Name |-> {disk[p]}]
    BY <1>1 DEF BeginScan, BaseInv, PhaseInv
  <2>2. QED
    BY <2>1 DEF SightInv, SeenInv, ReadInv, DueInv, StillInv, FreshInv, CheckInv
<1>2. CASE EndScan \/ FillTmp \/ RenameTmp \/ RecordDownload \/ EndFetching
  <2>1. phase' \in {"fetching", "acting"} /\ reading' = None
    BY <1>2 DEF EndScan, FillTmp, RenameTmp, RecordDownload, EndFetching, BaseInv, PhaseInv
  <2>2. QED
    BY <2>1, SightRest
<1>3. CASE RecordUpload \/ EndCycle \/ Interrupted
  <2>1. phase' \in {"acting", "idle"} /\ reading' = None
    BY <1>3 DEF RecordUpload, Record, EndCycle, Interrupted, Abandon, BaseInv, PhaseInv
  <2>2. QED
    BY <2>1, SightRest
<1>4. ASSUME NEW p \in Name, Upload(p) \/ DeleteRemote(p)
      PROVE  SightInv'
  <2>1. phase' \in {"acting", "idle"} /\ reading' = None
    BY <1>4 DEF Upload, DeleteRemote, Abandon, BaseInv, PhaseInv
  <2>2. QED
    BY <2>1, SightRest
<1>5. ASSUME NEW p \in UserNames, NEW c \in Content, WriteTmp(p, c)
      PROVE  SightInv'
  <2>1. phase' = "fetching" /\ reading' = None
    BY <1>5 DEF WriteTmp, BaseInv, PhaseInv
  <2>2. QED
    BY <2>1, SightRest
<1>6. CASE UNCHANGED scanVars
  BY <1>6 DEF scanVars, SightInv, SeenInv, ReadInv, DueInv, StillInv, FreshInv, CheckInv, Scanning,
     KindFound, KindSoFar
<1>7. QED
  BY <1>1, <1>2, <1>3, <1>4, <1>5, <1>6, SightUser, SightList, SightMtime, SightRead,
     SightEndReading, SightCheck DEF ScanNext

(* A scan reports nothing that the path did not call for at some moment of it, *)
(* and misses nothing of a path that stayed as it was.                         *)
THEOREM ScanWarrantedHolds == ScanSpec => []ScanWarranted
<1>1. ScanInit => SightInv
  BY DEF ScanInit, SightInv, SeenInv, ReadInv, DueInv, StillInv, FreshInv, CheckInv, Scanning
<1>2. BaseInv /\ SightInv => ScanWarranted
  <2> SUFFICES ASSUME BaseInv, SightInv, phase = "checking", todo = {}, NEW p \in Name
               PROVE  LET due == {KindDue(file, table[p]) : file \in seen[p]}
                      IN  /\ KindFound(p) # "none" => KindFound(p) \in due
                          /\ \A file \in seen[p] : seen[p] = {file} => due = {KindFound(p)}
    BY DEF ScanWarranted
  <2>1. KindFound(p) # "none" => \E file \in seen[p] : KindDue(file, table[p]) = KindFound(p)
    BY DEF SightInv, DueInv
  <2>2. ASSUME NEW file \in seen[p], seen[p] = {file}
        PROVE  KindFound(p) = KindDue(file, table[p])
    BY <2>2 DEF BaseInv, ScanTypeOK, SightInv, StillInv, KindSoFar
  <2>3. QED
    BY <2>1, <2>2
<1>3. QED
  BY <1>1, <1>2, BaseInit, BaseStep, SightStep, PTL DEF ScanSpec
=============================================================================
