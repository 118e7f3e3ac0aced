-------------------------- MODULE DriveClientProofs -------------------------
(***************************************************************************)
(* Proofs about one call of the Drive client, for all sizes, chunk sizes   *)
(* and numbers of attempts.                                                *)
(***************************************************************************)
EXTENDS DriveClient, TLAPS

\* A chunk on its way holds the bytes of its range; between two requests offset and
\* reader are at the same byte; metadata calls have no session.
ChunkInv ==
  /\ request.stage = "chunk" =>
       request.data = request.from /\ request.from <= request.upto /\ request.upto = reader
  /\ at = "send" \/ stage # "chunk" => offset = reader
  /\ stage # "whole" => op \in Uploads

TypeInv == TypeOK /\ ChunkInv

LEMMA NextReadBound ==
  ASSUME TypeOK
  PROVE  NextRead \in 0..size /\ reader <= NextRead
BY ClientAssumption DEF TypeOK, NextRead

\* A request without a chunk.
SendPlain ==
  stage \in {"whole", "init", "commit"} /\ Transmit(Without(stage)) /\ UNCHANGED reader

LEMMA SendCases ==
  ASSUME Send
  PROVE  SendChunk \/ SendPlain
BY DEF Send, SendPlain, Plain, ExecuteJson, FilesGetMedia, FilesDelete, CreateSimple, UpdateSimple,
       CreateResumable, UpdateResumable, SendCommit

LEMMA TypeInit == Init => TypeInv
<1> SUFFICES ASSUME Init PROVE TypeInv
  OBVIOUS
<1>1. size \in Nat /\ stored \in [1..size -> 0..size]
  BY ClientAssumption DEF Init
<1>2. request.stage = "none"
  BY DEF Init, NoRequest, Without
<1>3. op \in Uploads \/ stage = "whole"
  BY DEF Init
<1>4. MaxAttempts \in Nat
  BY ClientAssumption
<1>5. TypeOK
  <2>1. stage \in {"whole", "init"} /\ disturbed \in BOOLEAN
    BY DEF Init
  <2>2. attempt \in 0..MaxAttempts /\ {offset, reader, received} \subseteq 0..size /\ effects \in Nat
    BY <1>1, <1>4 DEF Init
  <2>3. QED
    BY <1>1, <2>1, <2>2 DEF Init, TypeOK
<1>6. ChunkInv
  BY <1>2, <1>3 DEF Init, ChunkInv
<1>7. QED
  BY <1>5, <1>6 DEF TypeInv

LEMMA TypeClient ==
  ASSUME TypeInv, Client
  PROVE  TypeInv'
<1> USE ClientAssumption DEF TypeInv, TypeOK, ChunkInv
<1>1. CASE Send
  <2>1. CASE SendChunk
    <3>1. request' = [stage |-> "chunk", from |-> offset, upto |-> offset + (NextRead - reader),
                      data |-> reader]
      BY <2>1 DEF SendChunk, Transmit
    <3>2. offset = reader /\ offset + (NextRead - reader) = NextRead
      BY <2>1, NextReadBound DEF SendChunk, Transmit
    <3>3. request' \in Request
      BY <3>1, <3>2, NextReadBound DEF Request
    <3>4. QED
      BY <2>1, <3>1, <3>2, <3>3, NextReadBound DEF SendChunk, Transmit, drive
  <2>2. CASE SendPlain
    BY <2>2 DEF SendPlain, Transmit, Without, Request, drive
  <2>3. QED
    BY <1>1, <2>1, <2>2, SendCases
<1>2. CASE Retry
  BY <1>2 DEF Retry, MayRetry, Retried, Uploads, drive
<1>3. CASE Opened \/ Incomplete
  BY <1>3 DEF Opened, Incomplete, NextStage, drive
<1>4. CASE Succeed \/ GiveUp \/ TimeOut
  BY <1>4 DEF Succeed, GiveUp, TimeOut, drive
<1>5. QED
  BY <1>1, <1>2, <1>3, <1>4 DEF Client

LEMMA TypeDrive ==
  ASSUME TypeInv, Drive
  PROVE  TypeInv'
<1> USE ClientAssumption DEF TypeInv, TypeOK, ChunkInv, Reply, DoneOrFailing, client, drive
<1>1. NoRequest.stage = "none"
  BY DEF NoRequest, Without
<1>2. CASE ServeChunk
  <2>1. PICK upto \in request.from..request.upto :
          /\ received' = upto
          /\ stored' = [i \in 1..size |-> IF request.from < i /\ i <= upto
                                          THEN request.data + i - request.from ELSE stored[i]]
          /\ IF upto = size
             THEN effects' = effects + 1 /\ DoneOrFailing
             ELSE /\ Reply("incomplete")
                  /\ disturbed' = (disturbed \/ upto # request.upto)
                  /\ UNCHANGED effects
    BY <1>2 DEF ServeChunk
  <2>2. request.from \in Nat /\ request.upto \in 0..size /\ request.data = request.from
    BY <1>2 DEF ServeChunk, Request, NoRequest, Without
  <2>3. size \in Nat /\ upto \in 0..size
    BY <2>2
  <2>4. \A i \in 1..size : stored'[i] \in 0..size
    BY <2>1, <2>2, <2>3
  <2>5. received' \in 0..size /\ stored' \in [1..size -> 0..size]
    BY <2>1, <2>3, <2>4
  <2>6. request' = NoRequest /\ UNCHANGED <<op, size, client>>
    BY <2>1
  <2>7. effects' \in Nat /\ disturbed' \in BOOLEAN
    <3>1. effects' \in Nat
      BY <2>1
    <3>2. disturbed' \in BOOLEAN
      BY <2>1, Zenon
    <3>3. QED
      BY <3>1, <3>2
  <2>8. answer' \in {"ok", "busy", "incomplete"}
    BY <2>1
  <2>9. QED
    BY <1>1, <2>5, <2>6, <2>7, <2>8
<1>3. CASE Refuse \/ ServeInit \/ RefuseGap \/ ServeCommit
  BY <1>1, <1>3 DEF Refuse, ServeInit, RefuseGap, ServeCommit
<1>4. CASE ServeWhole
  <2>1. effects' \in Nat
    BY <1>4 DEF ServeWhole
  <2>2. disturbed' \in BOOLEAN
    BY <1>4 DEF ServeWhole
  <2>3. request' = NoRequest /\ answer' \in {"ok", "busy"}
    BY <1>4 DEF ServeWhole
  <2>4. QED
    BY <1>1, <1>4, <2>1, <2>2, <2>3 DEF ServeWhole
<1>5. QED
  BY <1>2, <1>3, <1>4 DEF Drive

LEMMA TypeStep == TypeInv /\ [Next]_vars => TypeInv'
<1>1. TypeInv /\ UNCHANGED vars => TypeInv'
  BY DEF TypeInv, TypeOK, ChunkInv, vars, client, drive
<1>2. QED
  BY <1>1, TypeClient, TypeDrive DEF Next

\* Every reachable state of a call is well typed; in particular no call makes more than
\* MaxAttempts repetitions, and no chunk reaches beyond the content.
THEOREM TypeCorrect == Spec => []TypeOK
<1>1. TypeInv => TypeOK
  BY DEF TypeInv
<1>2. QED
  BY <1>1, TypeInit, TypeStep, PTL DEF Spec

-----------------------------------------------------------------------------
(***************************************************************************)
(* The bytes of an upload                                                  *)
(***************************************************************************)

LEMMA StoredStep == TypeInv /\ StoredBytes /\ [Next]_vars => StoredBytes'
<1> SUFFICES ASSUME TypeInv, StoredBytes, [Next]_vars PROVE StoredBytes'
  OBVIOUS
<1> USE DEF StoredBytes
<1>1. CASE ServeChunk
  <2>1. PICK upto \in request.from..request.upto :
          /\ received' = upto
          /\ stored' = [i \in 1..size |-> IF request.from < i /\ i <= upto
                                          THEN request.data + i - request.from ELSE stored[i]]
    BY <1>1 DEF ServeChunk
  <2>2. /\ request.from = received /\ request.data = request.from
        /\ received \in Nat /\ size \in Nat /\ request.upto \in 0..size
    BY <1>1, ClientAssumption
       DEF ServeChunk, TypeInv, TypeOK, ChunkInv, Request, NoRequest, Without
  <2>3. QED
    BY <2>1, <2>2
<1>2. CASE UNCHANGED <<received, stored>>
  BY <1>2
<1>3. QED
  BY <1>1, <1>2, SendCases DEF Next, vars, Client, Drive, Retry, Opened, Incomplete, Succeed, GiveUp, TimeOut,
     SendChunk, SendPlain, Transmit, Refuse, ServeWhole, ServeInit, RefuseGap, ServeCommit, drive

\* Whatever part of a chunk Drive keeps and whatever fails, a session only ever holds a
\* prefix of the content.
THEOREM StoredBytesHolds == Spec => []StoredBytes
<1>1. Init => StoredBytes
  BY DEF Init, StoredBytes
<1>2. QED
  BY <1>1, TypeInit, TypeStep, StoredStep, PTL DEF Spec

-----------------------------------------------------------------------------
(***************************************************************************)
(* Errors.  As long as nothing has gone wrong, session, offset and reader  *)
(* agree whenever Drive looks at them, and the empty request at the end is *)
(* never made.                                                             *)
(***************************************************************************)

Undisturbed ==
  /\ at # "error" /\ stage # "commit" /\ answer \notin {"busy", "refused"}
  /\ at = "send" \/ stage = "init" => received = offset
  /\ request.stage = "chunk" => request.from = received
  /\ at = "wait" /\ stage = "chunk" /\ answer = "incomplete" => received = reader /\ reader # size
  /\ request # NoRequest => request.stage = stage /\ at # "send" /\ answer = "none"

JustifiedInv == disturbed \/ Undisturbed

LEMMA JustifiedStep == TypeInv /\ JustifiedInv /\ [Next]_vars => JustifiedInv'
<1> SUFFICES ASSUME TypeInv, Undisturbed, ~disturbed, ~disturbed', [Next]_vars PROVE Undisturbed'
  <2>1. disturbed /\ [Next]_vars => disturbed'
    BY SendCases DEF Next, vars, Client, Drive, SendChunk, SendPlain, Transmit, Retry, Opened,
       Incomplete, Succeed, GiveUp, TimeOut, Refuse, ServeWhole, ServeInit, ServeChunk, RefuseGap, ServeCommit, DoneOrFailing
  <2>2. QED
    BY <2>1 DEF JustifiedInv
<1> USE DEF Undisturbed
<1>1. CASE UNCHANGED vars
  BY <1>1 DEF vars, client, drive
<1>2. CASE Send
  BY <1>2, SendCases DEF SendChunk, SendPlain, Transmit, Without, TypeInv, ChunkInv, drive
<1>3. CASE Retry \/ GiveUp
  BY <1>3 DEF Retry, MayRetry, GiveUp
<1>4. CASE Opened \/ Succeed
  BY <1>4 DEF Opened, Succeed, drive
<1>5. CASE Incomplete
  <2>1. received = reader /\ reader < size /\ request = NoRequest
    BY <1>5, ClientAssumption DEF Incomplete, TypeInv, TypeOK
  <2>2. stage' = "chunk" /\ at' = "send" /\ received' = offset'
    BY <1>5, <2>1 DEF Incomplete, NextStage, drive
  <2>3. UNCHANGED <<request, answer>>
    BY <1>5 DEF Incomplete
  <2>4. QED
    BY <1>5, <2>1, <2>2, <2>3 DEF Incomplete, NoRequest, Without
<1>6. CASE ServeChunk
  <2>1. PICK upto \in request.from..request.upto :
          /\ received' = upto
          /\ IF upto = size
             THEN effects' = effects + 1 /\ DoneOrFailing
             ELSE /\ Reply("incomplete")
                  /\ disturbed' = (disturbed \/ upto # request.upto)
                  /\ UNCHANGED effects
    BY <1>6 DEF ServeChunk
  <2>2. request # NoRequest /\ request.stage = "chunk" /\ stage = "chunk" /\ at # "send"
    BY <1>6 DEF ServeChunk, NoRequest, Without
  <2>3. CASE upto = size
    <3>1. DoneOrFailing
      BY <2>1, <2>3
    <3>2. Reply("ok")
      BY <3>1 DEF DoneOrFailing
    <3>3. QED
      BY <2>2, <3>2 DEF Reply, client, NoRequest, Without
  <2>4. CASE upto # size
    <3>1. Reply("incomplete") /\ upto = request.upto
      BY <2>1, <2>4
    <3>2. received' = reader /\ reader # size
      BY <2>1, <2>2, <2>4, <3>1 DEF TypeInv, ChunkInv
    <3>3. QED
      BY <2>2, <3>1, <3>2 DEF Reply, client, NoRequest, Without
  <2>5. QED
    BY <2>3, <2>4
<1>7. CASE ServeWhole \/ ServeInit
  BY <1>7 DEF ServeWhole, ServeInit, DoneOrFailing, Reply, client, drive, NoRequest, Without
<1>8. ~Refuse /\ ~TimeOut /\ ~RefuseGap /\ ~ServeCommit
  BY DEF Refuse, TimeOut, RefuseGap, ServeCommit, NoRequest, Without
<1>9. QED
  BY <1>1, <1>2, <1>3, <1>4, <1>5, <1>6, <1>7, <1>8 DEF Next, Client, Drive

\* A call returns an error only if somebody else failed first: the client never breaks an
\* upload by itself.
THEOREM ErrorJustifiedHolds == Spec => []ErrorJustified
<1>1. Init => JustifiedInv
  BY DEF Init, JustifiedInv, Undisturbed, NoRequest, Without
<1>2. JustifiedInv => ErrorJustified
  BY DEF JustifiedInv, Undisturbed, ErrorJustified
<1>3. QED
  BY <1>1, <1>2, TypeInit, TypeStep, JustifiedStep, PTL DEF Spec

-----------------------------------------------------------------------------
(***************************************************************************)
(* The promise of a call.  A request that is on its way has not been       *)
(* served, and after a request that may make the change none follows.      *)
(***************************************************************************)

EffectInv ==
  /\ effects \in {0, 1}
  /\ op \notin Changes \/ stage = "init" => effects = 0
  /\ at = "send" => effects = 0 /\ request = NoRequest
  /\ request # NoRequest =>
       effects = 0 /\ request.stage = stage /\ answer = "none" /\ at \in {"wait", "error"}
  /\ at = "wait" /\ answer = "incomplete" => effects = 0
  /\ at = "wait" /\ answer = "ok" /\ stage # "init" /\ op \in Changes => effects = 1

LEMMA EffectInit == Init => EffectInv
BY DEF Init, EffectInv, NoRequest, Without

LEMMA EffectClient ==
  ASSUME TypeInv, EffectInv, Client
  PROVE  EffectInv'
<1> USE DEF EffectInv, drive
<1>1. CASE Send
  BY <1>1, SendCases DEF SendChunk, SendPlain, Transmit, NoRequest, Without, TypeInv, TypeOK
<1>2. CASE Retry
  BY <1>2 DEF Retry, MayRetry, Retried, Changes, Uploads, NoRequest, Without
<1>3. CASE Opened \/ Incomplete
  BY <1>3 DEF Opened, Incomplete, NextStage
<1>4. CASE Succeed \/ GiveUp \/ TimeOut
  BY <1>4 DEF Succeed, GiveUp, TimeOut
<1>5. QED
  BY <1>1, <1>2, <1>3, <1>4 DEF Client

LEMMA EffectDrive ==
  ASSUME TypeInv, EffectInv, Drive
  PROVE  EffectInv' /\ UNCHANGED <<op, at>>
<1> USE DEF EffectInv, drive, client, Reply
<1>1. request # NoRequest /\ NoRequest.stage = "none"
  BY DEF Drive, Refuse, ServeWhole, ServeInit, ServeChunk, RefuseGap, ServeCommit, NoRequest, Without
<1>2. CASE Refuse \/ RefuseGap \/ ServeCommit
  BY <1>1, <1>2 DEF Refuse, RefuseGap, ServeCommit
<1>3. CASE ServeInit
  BY <1>1, <1>3 DEF ServeInit, DoneOrFailing
<1>4. CASE ServeWhole
  BY <1>1, <1>4 DEF ServeWhole, DoneOrFailing
<1>5. CASE ServeChunk
  <2>1. op \in Changes /\ stage = "chunk"
    BY <1>1, <1>5 DEF ServeChunk, TypeInv, ChunkInv, Changes
  <2>2. (effects' = effects + 1 /\ DoneOrFailing) \/ (Reply("incomplete") /\ UNCHANGED effects)
    BY <1>5 DEF ServeChunk
  <2>3. QED
    BY <1>1, <2>1, <2>2 DEF DoneOrFailing
<1>6. QED
  BY <1>2, <1>3, <1>4, <1>5 DEF Drive

LEMMA EffectStep == TypeInv /\ EffectInv /\ [Next]_vars => EffectInv'
<1>1. EffectInv /\ UNCHANGED vars => EffectInv'
  BY DEF EffectInv, vars, client, drive
<1>2. QED
  BY <1>1, EffectClient, EffectDrive DEF Next

LEMMA PromiseStep == TypeInv /\ EffectInv /\ [Next]_vars => [Promise!Next]_(Promise!vars)
<1> SUFFICES ASSUME TypeInv, EffectInv, [Next]_vars PROVE [Promise!Next]_(Promise!vars)
  OBVIOUS
<1> USE DEF Promise!vars, Promise!Next
<1>1. CASE UNCHANGED vars
  BY <1>1 DEF vars, client, drive
<1>2. CASE Send \/ Retry \/ Opened \/ Incomplete
  BY <1>2, SendCases DEF SendChunk, SendPlain, Transmit, Retry, Opened, Incomplete, drive
<1>3. CASE Succeed
  BY <1>3 DEF Succeed, Promise!Return, EffectInv, drive
<1>4. CASE GiveUp \/ TimeOut
  BY <1>4 DEF GiveUp, TimeOut, Promise!Return, drive
<1>5. CASE Drive
  <2>1. UNCHANGED <<op, at>> /\ EffectInv'
    BY <1>5, EffectDrive
  <2>2. request # NoRequest
    BY <1>5 DEF Drive, Refuse, ServeWhole, ServeInit, ServeChunk, RefuseGap, ServeCommit,
       NoRequest, Without
  <2>3. effects = 0 /\ at \in {"wait", "error"}
    BY <2>2 DEF EffectInv
  <2>4. effects' = 0 \/ (effects' = 1 /\ op \in Changes)
    BY <2>1 DEF EffectInv
  <2>5. QED
    BY <2>1, <2>3, <2>4 DEF Promise!Perform
<1>6. QED
  BY <1>1, <1>2, <1>3, <1>4, <1>5 DEF Next, Client

\* A call keeps its promise, with repeated requests, sessions, late and lost answers: the
\* change is made at most once and before Ok is returned.
THEOREM CallKeepsPromiseHolds == Spec => CallKeepsPromise
<1>1. Init => Promise!Init
  BY DEF Init, Promise!Init
<1>2. QED
  BY <1>1, TypeInit, TypeStep, EffectInit, EffectStep, PromiseStep, PTL
     DEF Spec, CallKeepsPromise, Promise!Spec
=============================================================================
