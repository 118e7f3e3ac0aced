----------------------------- MODULE DriveClient ----------------------------
(***************************************************************************)
(* One call of the Drive client: the retry loop of the metadata calls, the *)
(* single request of simple uploads, downloads and deletions, and the      *)
(* session of a resumable upload, against a Drive that may refuse, answer  *)
(* late or never, and keep a part of a chunk only.                         *)
(*                                                                         *)
(* Calls share nothing, so that one call stands for all.  Byte i of the    *)
(* content is the number i; sizes are in units of which the chunk size is  *)
(* a multiple.                                                             *)
(***************************************************************************)
EXTENDS Integers

CONSTANTS
  Sizes,       \* sizes of the uploaded contents
  SimpleMax,   \* SIMPLE_UPLOAD_MAX_BYTES
  ChunkSize,   \* RESUMABLE_CHUNK_SIZE
  MaxAttempts  \* BackoffPolicy::max_attempts

ASSUME ClientAssumption ==
  /\ Sizes \subseteq Nat /\ {SimpleMax, MaxAttempts} \subseteq Nat
  /\ ChunkSize \in Nat \ {0}

VARIABLES
  \* The call and the size of its content.
  op, size,
  \* What the client is about to send, and whether it waits for the answer.
  stage, at,
  \* attempt of execute_with_retry; offset of upload_chunks_resumable; bytes
  \* taken from the reader.
  attempt, offset, reader,
  \* The request on its way to Drive and Drive's answer on its way back.
  request, answer,
  \* Drive: bytes of the session, and how often the change was made.
  received, stored, effects,
  \* History: something but the client has gone wrong.
  disturbed

client == <<stage, at, attempt, offset, reader>>
drive  == <<received, stored, effects>>
vars   == <<op, size, client, request, answer, drive, disturbed>>

Uploads == {"create", "update"}
Changes == Uploads \cup {"delete"}
Op      == Changes \cup {"list", "media"}

\* A chunk is read from position data; the other requests carry none.
Request == [stage : {"whole", "init", "chunk", "commit"}, from : Nat, upto : Nat, data : Nat]
Without(kind) == [stage |-> kind, from |-> 0, upto |-> 0, data |-> 0]
NoRequest == Without("none")

TypeOK ==
  /\ op \in Op /\ size \in Sizes
  /\ stage \in {"whole", "init", "chunk", "commit"}
  /\ at \in {"send", "wait", "ok", "error"}
  /\ attempt \in 0..MaxAttempts
  /\ offset \in 0..size /\ reader \in 0..size
  /\ request \in Request \cup {NoRequest}
  /\ answer \in {"none", "ok", "incomplete", "busy", "refused"}
  /\ received \in 0..size /\ stored \in [1..size -> 0..size] /\ effects \in Nat
  /\ disturbed \in BOOLEAN

\* The executor chooses the way of an upload by the length of what it has read.
Init ==
  /\ op \in Op /\ size \in Sizes
  /\ stage = IF op \in Uploads /\ size > SimpleMax THEN "init" ELSE "whole"
  /\ at = "send" /\ attempt = 0 /\ offset = 0 /\ reader = 0
  /\ request = NoRequest /\ answer = "none"
  /\ received = 0 /\ stored = [i \in 1..size |-> 0] /\ effects = 0
  /\ disturbed = FALSE

-----------------------------------------------------------------------------
(***************************************************************************)
(* The client                                                              *)
(***************************************************************************)

\* read fills the buffer: the reader is a cursor over the content.
NextRead == IF reader + ChunkSize < size THEN reader + ChunkSize ELSE size

Transmit(message) ==
  /\ at = "send" /\ at' = "wait"
  /\ request' = message /\ answer' = "none"
  /\ UNCHANGED <<op, size, stage, attempt, offset, drive, disturbed>>

Plain(kind, what) == op = kind /\ stage = what /\ Transmit(Without(what)) /\ UNCHANGED reader

\* changes.list, getStartPageToken, about.get: one attempt of execute_json.
ExecuteJson   == Plain("list", "whole")
FilesGetMedia == Plain("media", "whole")
FilesDelete   == Plain("delete", "whole")

\* Uploads of up to SimpleMax bytes are one request, larger ones open a session.
CreateSimple    == Plain("create", "whole")
UpdateSimple    == Plain("update", "whole")
CreateResumable == Plain("create", "init")
UpdateResumable == Plain("update", "init")

\* The chunk is read first; its range is counted from offset.
SendChunk ==
  /\ stage = "chunk"
  /\ reader' = NextRead
  /\ Transmit([stage |-> "chunk", from |-> offset, upto |-> offset + (NextRead - reader),
               data |-> reader])

\* The empty request after the last chunk.
SendCommit == Plain(op, "commit")

Send ==
  \/ ExecuteJson \/ FilesGetMedia \/ FilesDelete \/ CreateSimple \/ UpdateSimple
  \/ CreateResumable \/ UpdateResumable \/ SendChunk \/ SendCommit

\* is_retryable_error: 429 and 5xx, never a request that got no answer.  Only
\* the calls made through execute_json are repeated.
Retried == {"list"}

\* A faulty variant: uploads and deletions are repeated as well.
MayRetry_All == stage = "whole" /\ answer = "busy" /\ attempt < MaxAttempts

MayRetry == op \in Retried /\ answer = "busy" /\ attempt < MaxAttempts

\* A faulty variant: one attempt more.
Retry_OneMore ==
  /\ at = "wait" /\ op \in Retried /\ answer = "busy" /\ attempt <= MaxAttempts
  /\ attempt' = attempt + 1
  /\ at' = "send"
  /\ UNCHANGED <<op, size, stage, offset, reader, request, answer, drive, disturbed>>

\* A faulty variant: attempts are not counted.
Retry_Uncounted ==
  /\ at = "wait" /\ MayRetry
  /\ at' = "send"
  /\ UNCHANGED <<op, size, stage, attempt, offset, reader, request, answer, drive, disturbed>>

\* The delay passes and the request is made again.
Retry ==
  /\ at = "wait" /\ MayRetry
  /\ attempt' = attempt + 1
  /\ at' = "send"
  /\ UNCHANGED <<op, size, stage, offset, reader, request, answer, drive, disturbed>>

\* The session is open: its first chunk is next, from offset 0.
Opened ==
  /\ at = "wait" /\ stage = "init" /\ answer = "ok"
  /\ stage' = "chunk" /\ at' = "send"
  /\ UNCHANGED <<op, size, attempt, offset, reader, request, answer, drive, disturbed>>

\* A faulty variant: a rest shorter than a chunk is forgotten.
NextStage_FullChunks == IF reader + ChunkSize <= size THEN "chunk" ELSE "commit"

\* A read of no bytes ends the chunks.
NextStage == IF reader < size THEN "chunk" ELSE "commit"

\* A faulty variant: the offset follows the answer's Range header.
Incomplete_ByRange ==
  /\ at = "wait" /\ stage = "chunk" /\ answer = "incomplete"
  /\ offset' = received /\ stage' = NextStage /\ at' = "send"
  /\ UNCHANGED <<op, size, attempt, reader, request, answer, drive, disturbed>>

\* 308 is taken to mean that the whole chunk arrived; its Range is not read.
Incomplete ==
  /\ at = "wait" /\ stage = "chunk" /\ answer = "incomplete"
  /\ offset' = reader /\ stage' = NextStage /\ at' = "send"
  /\ UNCHANGED <<op, size, attempt, reader, request, answer, drive, disturbed>>

Succeed ==
  /\ at = "wait" /\ answer = "ok" /\ stage # "init"
  /\ at' = "ok"
  /\ UNCHANGED <<op, size, stage, attempt, offset, reader, request, answer, drive, disturbed>>

\* Any other answer ends the call; 308 does after the last, empty request.
GiveUp ==
  /\ at = "wait" /\ ~MayRetry
  /\ answer \in {"busy", "refused"} \/ (answer = "incomplete" /\ stage = "commit")
  /\ at' = "error"
  /\ UNCHANGED <<op, size, stage, attempt, offset, reader, request, answer, drive, disturbed>>

\* The timeout of the request passes, the connection breaks, or the answer's
\* body cannot be read: an error with code 0.  Drive may still get the request.
TimeOut ==
  /\ at = "wait"
  /\ at' = "error"
  /\ disturbed' = TRUE
  /\ UNCHANGED <<op, size, stage, attempt, offset, reader, request, answer, drive>>

Client == Send \/ Retry \/ Opened \/ Incomplete \/ Succeed \/ GiveUp \/ TimeOut

-----------------------------------------------------------------------------
(***************************************************************************)
(* Drive                                                                   *)
(***************************************************************************)

Reply(status) == answer' = status /\ request' = NoRequest /\ UNCHANGED <<op, size, client>>

\* Drive, or something on the way, fails after the work is done.
DoneOrFailing ==
  \/ Reply("ok") /\ UNCHANGED disturbed
  \/ Reply("busy") /\ disturbed' = TRUE

Refuse ==
  /\ request # NoRequest
  /\ \E status \in {"busy", "refused"} : Reply(status)
  /\ disturbed' = TRUE
  /\ UNCHANGED drive

ServeWhole ==
  /\ request.stage = "whole"
  /\ effects' = IF op \in Changes THEN effects + 1 ELSE effects
  /\ DoneOrFailing
  /\ UNCHANGED <<received, stored>>

ServeInit ==
  /\ request.stage = "init"
  /\ DoneOrFailing
  /\ UNCHANGED drive

\* A session takes bytes that follow those it has, all of them or the first of
\* them, and makes the change when it has them all.
ServeChunk ==
  /\ request.stage = "chunk" /\ request.from = received
  /\ \E upto \in request.from..request.upto :
       /\ received' = upto
       /\ stored' = [i \in 1..size |-> IF request.from < i /\ i <= upto
                                       THEN request.data + i - request.from ELSE stored[i]]
       /\ IF upto = size
          THEN effects' = effects + 1 /\ DoneOrFailing
          ELSE /\ Reply("incomplete")
               /\ disturbed' = (disturbed \/ upto # request.upto)
               /\ UNCHANGED effects

RefuseGap ==
  /\ request.stage = "chunk" /\ request.from # received
  /\ Reply("refused")
  /\ UNCHANGED <<drive, disturbed>>

\* The client asks how far the session is: had it everything, the last chunk
\* would have been answered with success.
ServeCommit ==
  /\ request.stage = "commit"
  /\ Reply("incomplete")
  /\ UNCHANGED <<drive, disturbed>>

Drive == Refuse \/ ServeWhole \/ ServeInit \/ ServeChunk \/ RefuseGap \/ ServeCommit

Next == Client \/ Drive

Spec == Init /\ [][Next]_vars

\* Every request has a timeout, every delay ends.
FairSpec == Spec /\ WF_vars(Client)

-----------------------------------------------------------------------------
(***************************************************************************)
(* Properties                                                              *)
(***************************************************************************)

\* What Drive keeps of an upload is a prefix of the content: range header,
\* reader and session never drift apart (client.rs:483-529).
StoredBytes ==
  \A i \in 1..received : stored[i] = i

\* A call fails only because somebody else failed: Drive refused or lost
\* something, kept a part of a chunk, or the network gave no answer.
ErrorJustified ==
  at = "error" => disturbed

\* What the cycle relies on: see DriveCall.
Promise == INSTANCE DriveCall WITH outcome <- IF at \in {"ok", "error"} THEN at ELSE "pending"

CallKeepsPromise == Promise!Spec

\* Every call returns, however long Drive is busy (max_attempts, the timeouts).
CallReturns == <>(at \in {"ok", "error"})
=============================================================================
