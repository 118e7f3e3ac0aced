----------------------------- MODULE Scheduler -----------------------------
(***************************************************************************)
(* The daemon around the sync cycles: the scheduler task with its request  *)
(* channel, its pending queue and its rate limiter, the file watchers, and *)
(* the D-Bus handlers that pause, resume, force, add and remove, which run *)
(* concurrently with it and with each other, over the sync_folders table   *)
(* that survives a restart.                                                *)
(*                                                                         *)
(* A sync cycle is here only what the scheduler and the pause flag see of  *)
(* it: it starts, executes actions, and ends well or with an error.        *)
(* SyncCycle opens that box for one folder.                                *)
(***************************************************************************)
EXTENDS Integers, SequencesExt

CONSTANTS
  Folder,       \* sync folder ids
  Caller,       \* D-Bus clients
  Broken,       \* folders whose cycles fail, for good
  Capacity,     \* tokens of the rate limiter
  None,
  MaxCalls,     \* bound: D-Bus calls
  MaxRequests,  \* bound: requests waiting in the channel
  MaxFailures,  \* bound: cycles and database calls that fail by accident
  MaxRestarts   \* bound: daemon restarts

ASSUME SchedulerAssumption ==
  /\ IsFiniteSet(Folder) /\ None \notin Folder
  /\ Broken \subseteq Folder
  /\ Capacity \in Nat \ {0}
  /\ {MaxCalls, MaxRequests, MaxFailures, MaxRestarts} \subseteq Nat

VARIABLES
  \* SQLite: the sync_folders rows ("new" and "removed" ids have none) and the
  \* folders with file_states rows.
  folders, hasFiles,
  \* The shared pause flag, the request channel and the folders with a watcher.
  pause, rx, watched,
  \* Scheduler::run: the queue, where it is, the folder it popped, the tokens.
  pending, at, current, tokens,
  \* The D-Bus calls that are under way.
  calls,
  \* History: folders with a request no cycle has answered yet; folders a
  \* completed pause stopped, with no resume since; bounded steps left.
  owed, standing, left

database  == <<folders, hasFiles>>
scheduler == <<pending, at, current, tokens>>
vars      == <<database, pause, rx, watched, scheduler, calls, owed, standing, left>>

Listed == {f \in Folder : folders[f] \in {"active", "paused"}}

\* A pause or resume call: whether it has listed the folders, those it has yet
\* to write, those it wrote, and whether no call of the other kind overlapped.
Call == [kind : {"pause", "resume"}, listed : BOOLEAN,
         todo : SUBSET Folder, done : SUBSET Folder, alone : BOOLEAN]

Bounds == [calls |-> MaxCalls, failures |-> MaxFailures, restarts |-> MaxRestarts]

TypeOK ==
  /\ folders \in [Folder -> {"new", "active", "paused", "removed"}]
  /\ hasFiles \subseteq Folder
  /\ pause \in BOOLEAN
  /\ rx \in Seq(Folder) /\ pending \in Seq(Folder)
  /\ watched \subseteq Folder
  /\ at \in {"select", "drain", "lookup", "cycle"}
  /\ current \in Folder \cup {None}
  /\ tokens \in 0..Capacity
  /\ calls \in [Caller -> Call \cup {None}]
  /\ owed \subseteq Folder /\ standing \subseteq Folder
  /\ left \in [{"calls", "failures", "restarts"} -> Nat]

Init ==
  /\ folders \in [Folder -> {"new", "active"}]
  /\ hasFiles = {}
  /\ pause = FALSE
  /\ rx = <<>> /\ pending = <<>>
  /\ watched = Listed
  /\ at = "select" /\ current = None /\ tokens = Capacity
  /\ calls = [c \in Caller |-> None]
  /\ owed = {} /\ standing = {}
  /\ left = Bounds

Spend(k) == left[k] > 0 /\ left' = [left EXCEPT ![k] = @ - 1]

\* Every request goes through the unbounded channel.
Send(f) ==
  /\ Len(rx) < MaxRequests
  /\ rx' = Append(rx, f)
  /\ owed' = owed \cup {f}

-----------------------------------------------------------------------------
(***************************************************************************)
(* Scheduler::run                                                          *)
(***************************************************************************)

\* One branch of the select: a request.
Receive ==
  /\ at = "select" /\ rx # <<>>
  /\ rx' = Tail(rx)
  /\ pending' = IF Head(rx) \in Range(pending) THEN pending ELSE Append(pending, Head(rx))
  /\ at' = "drain"
  /\ UNCHANGED <<database, pause, watched, current, tokens, calls, owed, standing, left>>

\* A faulty variant: folders with a watcher are left to their watcher.
Poll_Unwatched ==
  /\ at = "select"
  /\ \E order \in SetToSeqs({f \in Folder \ watched : folders[f] = "active"} \ Range(pending)) :
       pending' = pending \o order
  /\ at' = "drain"
  /\ UNCHANGED <<database, pause, rx, watched, current, tokens, calls, owed, standing, left>>

\* The other branch: the poll tick queues every folder that is not paused,
\* in the order of random ids.
Poll ==
  /\ at = "select"
  /\ \E order \in SetToSeqs({f \in Folder : folders[f] = "active"} \ Range(pending)) :
       pending' = pending \o order
  /\ at' = "drain"
  /\ UNCHANGED <<database, pause, rx, watched, current, tokens, calls, owed, standing, left>>

\* A faulty variant: the folder that gets no token is forgotten.
PopFront_Forgets ==
  /\ at = "drain" /\ pending # <<>>
  /\ pending' = Tail(pending)
  /\ IF tokens > 0
     THEN tokens' = tokens - 1 /\ current' = Head(pending) /\ at' = "lookup"
     ELSE UNCHANGED <<tokens, current, at>>
  /\ UNCHANGED <<database, pause, rx, watched, calls, owed, standing, left>>

\* A faulty variant: the limiter counts below zero.
PopFront_Overdraws ==
  /\ at = "drain" /\ pending # <<>>
  /\ pending' = Tail(pending) /\ current' = Head(pending)
  /\ tokens' = tokens - 1 /\ at' = "lookup"
  /\ UNCHANGED <<database, pause, rx, watched, calls, owed, standing, left>>

\* The drain loop pops a folder and takes a token for it; without a token it
\* puts the folder back in front and sleeps.
PopFront ==
  /\ at = "drain" /\ pending # <<>>
  /\ tokens > 0
  /\ pending' = Tail(pending) /\ current' = Head(pending)
  /\ tokens' = tokens - 1 /\ at' = "lookup"
  /\ UNCHANGED <<database, pause, rx, watched, calls, owed, standing, left>>

\* A second has passed since the last refill: tokens are capped at capacity.
Refill ==
  /\ tokens < Capacity
  /\ tokens' = Capacity
  /\ UNCHANGED <<database, pause, rx, watched, pending, at, current, calls, owed,
                 standing, left>>

Drained ==
  /\ at = "drain" /\ pending = <<>>
  /\ at' = "select"
  /\ UNCHANGED <<database, pause, rx, watched, pending, current, tokens, calls, owed,
                 standing, left>>

\* The rest of a step that starts a cycle or skips the folder it popped.
Answer ==
  /\ owed' = owed \ {current}
  /\ UNCHANGED <<database, pause, rx, watched, pending, tokens, calls, standing>>

\* A faulty variant: the row's paused column is not looked at.
Lookup_IgnoresPaused ==
  /\ at = "lookup"
  /\ \/ /\ current \in Listed
        /\ at' = "cycle" /\ UNCHANGED <<current, left>>
     \/ /\ current \notin Listed
        /\ at' = "drain" /\ current' = None /\ UNCHANGED left
  /\ Answer

\* get_by_id: a row that is not paused starts a cycle; no row, a paused one and
\* a failed query skip the folder.
Lookup ==
  /\ at = "lookup"
  /\ \/ /\ folders[current] = "active"
        /\ at' = "cycle" /\ UNCHANGED <<current, left>>
     \/ /\ folders[current] # "active"
        /\ at' = "drain" /\ current' = None /\ UNCHANGED left
     \/ /\ Spend("failures")
        /\ at' = "drain" /\ current' = None
  /\ Answer

\* SyncExecutor::run takes up one more action of the cycle: only while the flag
\* is clear.  Its row refers to the folder's, which must still exist.
Work ==
  /\ at = "cycle"
  /\ ~pause
  /\ current \in Listed
  /\ hasFiles' = hasFiles \cup {current}
  /\ UNCHANGED <<folders, pause, rx, watched, scheduler, calls, owed, standing, left>>

CycleEnds ==
  /\ at = "cycle"
  /\ current \notin Broken
  /\ at' = "drain" /\ current' = None
  /\ UNCHANGED <<database, pause, rx, watched, pending, tokens, calls, owed, standing, left>>

\* An error of the cycle: the folder goes to the back of the queue.  The row of
\* a folder removed meanwhile cannot be written, which is such an error.
CycleFails ==
  /\ at = "cycle"
  /\ \/ current \in Broken /\ UNCHANGED left
     \/ current \notin Listed /\ UNCHANGED left
     \/ Spend("failures")
  /\ pending' = Append(pending, current)
  /\ at' = "drain" /\ current' = None
  /\ UNCHANGED <<database, pause, rx, watched, tokens, calls, owed, standing>>

-----------------------------------------------------------------------------
(***************************************************************************)
(* Watchers and D-Bus handlers                                             *)
(***************************************************************************)

WatchEvent(f) ==
  /\ f \in watched
  /\ Send(f)
  /\ UNCHANGED <<database, pause, watched, scheduler, calls, standing, left>>

\* pause_sync and resume_sync store the flag first.  A resume voids what a
\* pause, also one still under way, would have promised.
Begin(c, kind) ==
  /\ calls[c] = None /\ Spend("calls")
  /\ pause' = (kind = "pause")
  /\ LET others == {d \in Caller : calls[d] # None /\ calls[d].kind # kind}
         voided == [d \in Caller |-> IF d \in others THEN [calls[d] EXCEPT !.alone = FALSE]
                                                     ELSE calls[d]]
     IN  calls' = [voided EXCEPT ![c] =
                     [kind |-> kind, listed |-> FALSE, todo |-> {}, done |-> {},
                      alone |-> others = {}]]
  /\ standing' = IF kind = "resume" THEN {} ELSE standing
  /\ UNCHANGED <<database, rx, watched, scheduler, owed>>

\* list_all_folders; an error ends the call, with the flag as it is.
List(c) ==
  /\ calls[c] # None /\ ~calls[c].listed
  /\ \/ /\ calls' = [calls EXCEPT ![c].listed = TRUE, ![c].todo = Listed]
        /\ UNCHANGED left
     \/ Spend("failures") /\ calls' = [calls EXCEPT ![c] = None]
  /\ UNCHANGED <<database, pause, rx, watched, scheduler, owed, standing>>

\* set_paused on one of the listed folders: an UPDATE that finds no row when the
\* folder is gone, and whose failure is only logged.
SetPaused(c, f) ==
  /\ calls[c] # None /\ f \in calls[c].todo
  /\ \/ /\ folders' = [folders EXCEPT ![f] =
                         IF f \in Listed
                         THEN IF calls[c].kind = "pause" THEN "paused" ELSE "active"
                         ELSE @]
        /\ calls' = [calls EXCEPT ![c].todo = @ \ {f}, ![c].done = @ \cup {f}]
        /\ UNCHANGED left
     \/ /\ Spend("failures")
        /\ calls' = [calls EXCEPT ![c].todo = @ \ {f}]
        /\ UNCHANGED folders
  /\ UNCHANGED <<hasFiles, pause, rx, watched, scheduler, owed, standing>>

Return(c) ==
  /\ calls[c] # None /\ calls[c].listed /\ calls[c].todo = {}
  /\ calls' = [calls EXCEPT ![c] = None]
  /\ standing' = IF calls[c].kind = "pause" /\ calls[c].alone
                 THEN standing \cup calls[c].done ELSE standing
  /\ UNCHANGED <<database, pause, rx, watched, scheduler, owed, left>>

\* force_sync: the first listed folder the given path matches, paused or not.
ForceSync(f) ==
  /\ f \in Listed /\ Spend("calls")
  /\ Send(f)
  /\ UNCHANGED <<database, pause, watched, scheduler, calls, standing>>

\* add_sync_folder: the new row is never paused, and no watcher is started.
AddSyncFolder(f) ==
  /\ folders[f] = "new" /\ Spend("calls")
  /\ folders' = [folders EXCEPT ![f] = "active"]
  /\ Send(f)
  /\ UNCHANGED <<hasFiles, pause, watched, scheduler, calls, standing>>

\* remove_sync_folder: the DELETE is refused while file_states rows refer to it.
RemoveSyncFolder(f) ==
  /\ f \in Listed \ hasFiles /\ Spend("calls")
  /\ folders' = [folders EXCEPT ![f] = "removed"]
  /\ UNCHANGED <<hasFiles, pause, rx, watched, scheduler, calls, owed, standing>>

\* The daemon stops, at whatever it does, and starts again: what the database
\* holds stays, the flag is clear, and the folders that are not paused and whose
\* directory can be watched get a watcher.
Restart(W) ==
  /\ Spend("restarts")
  /\ W \subseteq {f \in Folder : folders[f] = "active"}
  /\ pause' = FALSE /\ rx' = <<>> /\ watched' = W
  /\ pending' = <<>> /\ at' = "select" /\ current' = None /\ tokens' = Capacity
  /\ calls' = [c \in Caller |-> None]
  /\ owed' = {}
  /\ UNCHANGED <<database, standing>>

-----------------------------------------------------------------------------
Handlers(c) ==
  \/ \E kind \in {"pause", "resume"} : Begin(c, kind)
  \/ List(c)
  \/ \E f \in Folder : SetPaused(c, f)
  \/ Return(c)

Next ==
  \/ Receive \/ Poll \/ PopFront \/ Refill \/ Drained \/ Lookup
  \/ Work \/ CycleEnds \/ CycleFails
  \/ \E c \in Caller : Handlers(c)
  \/ \E f \in Folder : WatchEvent(f) \/ ForceSync(f) \/ AddSyncFolder(f) \/ RemoveSyncFolder(f)
  \/ \E W \in SUBSET Folder : Restart(W)

Spec == Init /\ [][Next]_vars

\* The scheduler task runs, time passes, and a cycle ends.  The select chooses
\* among its ready branches at random, so that none is passed over forever.
FairSpec ==
  /\ Spec
  /\ WF_vars(PopFront \/ Drained \/ Lookup) /\ WF_vars(CycleEnds \/ CycleFails)
  /\ WF_vars(Refill)
  /\ SF_vars(Receive) /\ SF_vars(Poll)

-----------------------------------------------------------------------------
(***************************************************************************)
(* Properties                                                              *)
(***************************************************************************)

\* A folder is queued once at most, and not while its own cycle runs, although
\* requests, polls, a missing token and failed cycles all push it: the queue is
\* never longer than the number of folders.
PendingDistinct ==
  /\ IsInjective(pending)
  /\ current \notin Range(pending)

\* A request that no cycle has answered is still somewhere on its way, whatever
\* the order of duplicates, missing tokens, failed cycles and pauses.
NoRequestLost ==
  owed \subseteq Range(rx) \cup Range(pending) \cup {current}

\* A pause holds (TODO.md:131, "pauses all sync queues, persists state to DB"):
\* once pause_sync has returned, no action of a folder it paused is taken up
\* until a resume, through queued requests, running cycles and restarts.
PauseStands == [][Work => current \notin standing]_vars

\* Every folder keeps being synchronised (TODO.md:152, the poll scheduler): as
\* long as it is active, cycles of it keep starting.
FolderServed ==
  \A f \in Folder : []<>(folders[f] # "active" \/ (at = "cycle" /\ current = f))
=============================================================================
