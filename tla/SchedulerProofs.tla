-------------------------- MODULE SchedulerProofs --------------------------
(***************************************************************************)
(* Proofs about Scheduler for every finite set of folders, every set of    *)
(* D-Bus clients and every bound: its types, that the queue holds a folder *)
(* once, that no request is lost, and that a pause stands.                 *)
(***************************************************************************)
EXTENDS Scheduler, FiniteSetTheorems, TLAPS

-----------------------------------------------------------------------------
(* What the sequence operators of the scheduler do to the set of elements. *)

LEMMA AppendFacts ==
  ASSUME NEW S, NEW s \in Seq(S), NEW e \in S
  PROVE  /\ Append(s, e) \in Seq(S)
         /\ Range(Append(s, e)) = Range(s) \cup {e}
         /\ IsInjective(s) /\ e \notin Range(s) => IsInjective(Append(s, e))
<1>1. /\ Append(s, e) \in Seq(S)
      /\ DOMAIN Append(s, e) = 1..(Len(s) + 1) /\ DOMAIN s = 1..Len(s) /\ Len(s) \in Nat
      /\ \A i \in 1..Len(s) : Append(s, e)[i] = s[i]
      /\ Append(s, e)[Len(s) + 1] = e
  OBVIOUS
<1>2. Range(Append(s, e)) = Range(s) \cup {e}
  <2>1. ASSUME NEW x \in Range(Append(s, e)) PROVE x \in Range(s) \cup {e}
    BY <1>1 DEF Range
  <2>2. ASSUME NEW x \in Range(s) PROVE x \in Range(Append(s, e))
    <3>1. PICK i \in 1..Len(s) : x = s[i]
      BY <1>1 DEF Range
    <3>2. i \in DOMAIN Append(s, e) /\ x = Append(s, e)[i]
      BY <1>1, <3>1
    <3>3. QED
      BY <3>2 DEF Range
  <2>3. e \in Range(Append(s, e))
    <3>1. Len(s) + 1 \in DOMAIN Append(s, e)
      BY <1>1
    <3>2. QED
      BY <1>1, <3>1 DEF Range
  <2>4. QED
    BY <2>1, <2>2, <2>3
<1>3. ASSUME IsInjective(s), e \notin Range(s),
             NEW i \in DOMAIN Append(s, e), NEW j \in DOMAIN Append(s, e),
             Append(s, e)[i] = Append(s, e)[j]
      PROVE  i = j
  BY <1>1, <1>3 DEF Range, IsInjective
<1>4. QED
  BY <1>1, <1>2, <1>3 DEF IsInjective

LEMMA TailFacts ==
  ASSUME NEW S, NEW s \in Seq(S), s # <<>>
  PROVE  /\ Tail(s) \in Seq(S) /\ Head(s) \in S
         /\ Range(s) = Range(Tail(s)) \cup {Head(s)}
         /\ IsInjective(s) => IsInjective(Tail(s)) /\ Head(s) \notin Range(Tail(s))
<1>1. /\ Tail(s) \in Seq(S) /\ Head(s) \in S /\ Head(s) = s[1]
      /\ DOMAIN s = 1..Len(s) /\ Len(s) \in Nat \ {0}
      /\ DOMAIN Tail(s) = 1..(Len(s) - 1)
      /\ \A i \in 1..(Len(s) - 1) : Tail(s)[i] = s[i + 1]
  OBVIOUS
<1>2. Range(s) = Range(Tail(s)) \cup {Head(s)}
  <2>1. ASSUME NEW i \in DOMAIN s PROVE s[i] \in Range(Tail(s)) \cup {Head(s)}
    <3>1. CASE i = 1
      BY <1>1, <3>1
    <3>2. CASE i # 1
      <4>1. i - 1 \in DOMAIN Tail(s) /\ Tail(s)[i - 1] = s[i]
        BY <1>1, <3>2
      <4>2. QED
        BY <4>1 DEF Range
    <3>3. QED
      BY <3>1, <3>2
  <2>2. ASSUME NEW i \in DOMAIN Tail(s) PROVE Tail(s)[i] \in Range(s)
    <3>1. i + 1 \in DOMAIN s /\ Tail(s)[i] = s[i + 1]
      BY <1>1
    <3>2. QED
      BY <3>1 DEF Range
  <2>3. Head(s) \in Range(s)
    BY <1>1 DEF Range
  <2>4. QED
    BY <2>1, <2>2, <2>3 DEF Range
<1>3. ASSUME IsInjective(s) PROVE IsInjective(Tail(s)) /\ Head(s) \notin Range(Tail(s))
  BY <1>1, <1>3 DEF IsInjective, Range
<1>4. QED
  BY <1>1, <1>2, <1>3

\* The rows a poll appends to an empty queue, in any order.
LEMMA OrderFacts ==
  ASSUME NEW S \in SUBSET Folder, NEW order \in SetToSeqs(S)
  PROVE  /\ <<>> \o order = order
         /\ order \in Seq(Folder)
         /\ IsInjective(order)
<1>1. Cardinality(S) \in Nat
  BY SchedulerAssumption, FS_Subset, FS_CardinalityType
<1>2. order \in [1..Cardinality(S) -> S] /\ IsInjective(order)
  BY DEF SetToSeqs, IsInjective
<1>3. order \in Seq(Folder)
  BY <1>1, <1>2
<1>4. QED
  BY <1>2, <1>3

-----------------------------------------------------------------------------
(***************************************************************************)
(* Types and the queue.  The queue is empty while the scheduler listens,   *)
(* which is why a request or a poll cannot queue a folder twice, and a     *)
(* folder is popped exactly from its lookup to the end of its cycle.       *)
(***************************************************************************)

QueueInv ==
  /\ PendingDistinct
  /\ at = "select" => pending = <<>>
  /\ current # None <=> at \in {"lookup", "cycle"}

TypeInv == TypeOK /\ QueueInv

LEMMA TypeInvInit == Init => TypeInv
<1> SUFFICES ASSUME Init PROVE TypeInv
  OBVIOUS
<1> USE SchedulerAssumption DEF Init
<1>1. folders \in [Folder -> {"new", "active", "paused", "removed"}]
  OBVIOUS
<1>2. left \in [{"calls", "failures", "restarts"} -> Nat]
  BY DEF Bounds
<1>3. watched \subseteq Folder
  BY DEF Listed
<1>4. calls \in [Caller -> Call \cup {None}]
  OBVIOUS
<1>5. tokens \in 0..Capacity /\ rx \in Seq(Folder) /\ pending \in Seq(Folder)
  OBVIOUS
<1>6. TypeOK
  BY <1>1, <1>2, <1>3, <1>4, <1>5 DEF TypeOK
<1>7. QueueInv
  BY DEF QueueInv, PendingDistinct, IsInjective, Range
<1>8. QED
  BY <1>6, <1>7 DEF TypeInv

\* A bounded step leaves the bounds typed, and a request the channel.
LEMMA SpendOK ==
  ASSUME TypeOK, NEW k \in {"calls", "failures", "restarts"}, Spend(k)
  PROVE  left' \in [{"calls", "failures", "restarts"} -> Nat]
BY DEF TypeOK, Spend

LEMMA SendOK ==
  ASSUME TypeOK, NEW f \in Folder, Send(f)
  PROVE  /\ rx' \in Seq(Folder)
         /\ Range(rx') = Range(rx) \cup {f}
         /\ owed' = owed \cup {f}
BY AppendFacts DEF TypeOK, Send

LEMMA QueueKept == QueueInv /\ UNCHANGED scheduler => QueueInv'
BY DEF QueueInv, PendingDistinct, scheduler

\* The steps of the scheduler task.
LEMMA TypeInvScheduler ==
  ASSUME TypeInv,
         \/ Receive \/ Poll \/ PopFront \/ Refill \/ Drained \/ Lookup
         \/ Work \/ CycleEnds \/ CycleFails
  PROVE  TypeInv'
<1> USE SchedulerAssumption DEF TypeInv, database
<1>1. CASE Receive
  <2> USE <1>1 DEF Receive
  <2>1. pending = <<>> /\ current = None
    BY DEF QueueInv
  <2>2. Head(rx) \in Folder /\ Tail(rx) \in Seq(Folder)
    BY TailFacts DEF TypeOK
  <2>3. pending \in Seq(Folder) /\ Range(pending) = {} /\ IsInjective(pending)
    BY <2>1 DEF Range, IsInjective
  <2>4. pending' \in Seq(Folder) /\ IsInjective(pending') /\ Range(pending') = {Head(rx)}
    <3>1. pending' = Append(pending, Head(rx))
      BY <2>3
    <3>2. QED
      BY <3>1, <2>2, <2>3, AppendFacts
  <2>5. TypeOK'
    BY <2>2, <2>4 DEF TypeOK
  <2>6. QueueInv'
    BY <2>1, <2>2, <2>4 DEF QueueInv, PendingDistinct
  <2>7. QED
    BY <2>5, <2>6
<1>2. CASE Poll
  <2> USE <1>2 DEF Poll
  <2>1. pending = <<>> /\ current = None
    BY DEF QueueInv
  <2>2. PICK order \in SetToSeqs({f \in Folder : folders[f] = "active"} \ Range(pending)) :
          pending' = pending \o order
    OBVIOUS
  <2>3. pending' = order /\ order \in Seq(Folder) /\ IsInjective(order)
    BY <2>1, <2>2, OrderFacts
  <2>4. None \notin Range(order)
    BY <2>3 DEF Range
  <2>5. TypeOK'
    BY <2>3 DEF TypeOK
  <2>6. QueueInv'
    BY <2>1, <2>3, <2>4 DEF QueueInv, PendingDistinct
  <2>7. QED
    BY <2>5, <2>6
<1>3. CASE PopFront
  <2> USE <1>3 DEF PopFront
  <2>1. /\ Tail(pending) \in Seq(Folder) /\ Head(pending) \in Folder
        /\ IsInjective(Tail(pending)) /\ Head(pending) \notin Range(Tail(pending))
    BY TailFacts DEF TypeOK, QueueInv, PendingDistinct
  <2>2. TypeOK'
    BY <2>1 DEF TypeOK
  <2>3. QueueInv'
    BY <2>1 DEF QueueInv, PendingDistinct
  <2>4. QED
    BY <2>2, <2>3
<1>4. CASE Refill
  BY <1>4 DEF Refill, TypeOK, QueueInv, PendingDistinct
<1>5. CASE Drained
  BY <1>5 DEF Drained, TypeOK, QueueInv, PendingDistinct
<1>6. CASE Lookup
  <2> USE <1>6 DEF Lookup, Answer
  <2>1. left' \in [{"calls", "failures", "restarts"} -> Nat]
    BY SpendOK DEF TypeOK
  <2>2. None \notin Range(pending)
    BY DEF TypeOK, Range
  <2>3. TypeOK'
    BY <2>1 DEF TypeOK
  <2>4. QueueInv'
    BY <2>2 DEF QueueInv, PendingDistinct
  <2>5. QED
    BY <2>3, <2>4
<1>7. CASE Work
  <2>1. QueueInv'
    BY <1>7, QueueKept DEF Work
  <2>2. TypeOK'
    BY <1>7 DEF Work, TypeOK, Listed, scheduler
  <2>3. QED
    BY <2>1, <2>2
<1>8. CASE CycleEnds
  <2>1. None \notin Range(pending)
    BY DEF TypeOK, Range
  <2>2. QED
    BY <1>8, <2>1 DEF CycleEnds, TypeOK, QueueInv, PendingDistinct
<1>9. CASE CycleFails
  <2> USE <1>9 DEF CycleFails
  <2>1. current \in Folder /\ current \notin Range(pending) /\ IsInjective(pending)
    BY DEF TypeOK, QueueInv, PendingDistinct
  <2>2. /\ pending' \in Seq(Folder) /\ IsInjective(pending')
        /\ Range(pending') = Range(pending) \cup {current}
    BY <2>1, AppendFacts DEF TypeOK
  <2>3. None \notin Range(pending')
    BY <2>1, <2>2 DEF TypeOK, Range
  <2>4. left' \in [{"calls", "failures", "restarts"} -> Nat]
    BY SpendOK DEF TypeOK
  <2>5. TypeOK'
    BY <2>2, <2>4 DEF TypeOK
  <2>6. QueueInv'
    BY <2>2, <2>3 DEF QueueInv, PendingDistinct
  <2>7. QED
    BY <2>5, <2>6
<1>10. QED
  BY <1>1, <1>2, <1>3, <1>4, <1>5, <1>6, <1>7, <1>8, <1>9

\* The steps of watchers, D-Bus handlers and restarts.
LEMMA TypeInvHandlers ==
  ASSUME TypeInv, NEW c \in Caller, Handlers(c)
  PROVE  TypeInv'
<1> USE SchedulerAssumption DEF TypeInv, database, scheduler
<1>1. ASSUME NEW kind \in {"pause", "resume"}, Begin(c, kind)
      PROVE  TypeInv'
  <2> DEFINE new == [kind |-> kind, listed |-> FALSE, todo |-> {}, done |-> {},
                     alone |-> {d \in Caller : calls[d] # None /\ calls[d].kind # kind} = {}]
             voided(d) == IF calls[d] # None /\ calls[d].kind # kind
                          THEN [calls[d] EXCEPT !.alone = FALSE] ELSE calls[d]
  <2>1. new \in Call
    BY DEF Call
  <2>2. \A d \in Caller : voided(d) \in Call \cup {None}
    BY DEF TypeOK, Call
  <2>3. calls' = [[d \in Caller |-> voided(d)] EXCEPT ![c] = new]
    BY <1>1 DEF Begin
  <2>4. calls' \in [Caller -> Call \cup {None}]
    BY <2>1, <2>2, <2>3
  <2>5. left' \in [{"calls", "failures", "restarts"} -> Nat]
    BY <1>1, SpendOK DEF Begin
  <2>6. TypeOK'
    BY <1>1, <2>4, <2>5 DEF Begin, TypeOK
  <2>7. QED
    BY <1>1, <2>6, QueueKept DEF Begin
<1>2. CASE List(c)
  <2>1. calls' \in [Caller -> Call \cup {None}]
    <3>1. CASE calls' = [calls EXCEPT ![c] = None]
      BY <3>1 DEF TypeOK
    <3>2. CASE calls' = [calls EXCEPT ![c].listed = TRUE, ![c].todo = Listed]
      <4>1. calls[c] \in Call
        BY <1>2 DEF List, TypeOK
      <4>2. [calls[c] EXCEPT !.listed = TRUE, !.todo = Listed] \in Call
        BY <4>1 DEF Call, Listed
      <4>3. calls' = [calls EXCEPT ![c] = [calls[c] EXCEPT !.listed = TRUE, !.todo = Listed]]
        BY <3>2 DEF TypeOK
      <4>4. QED
        BY <4>2, <4>3 DEF TypeOK
    <3>3. QED
      BY <1>2, <3>1, <3>2 DEF List
  <2>2. left' \in [{"calls", "failures", "restarts"} -> Nat]
    BY <1>2, SpendOK DEF List, TypeOK
  <2>3. QED
    BY <1>2, <2>1, <2>2, QueueKept DEF List, TypeOK
<1>3. ASSUME NEW f \in Folder, SetPaused(c, f)
      PROVE  TypeInv'
  <2>1. calls[c] \in Call
    BY <1>3 DEF SetPaused, TypeOK
  <2>2. calls' \in [Caller -> Call \cup {None}]
    <3>1. [calls[c] EXCEPT !.todo = @ \ {f}, !.done = @ \cup {f}] \in Call
      BY <2>1 DEF Call
    <3>2. [calls[c] EXCEPT !.todo = @ \ {f}] \in Call
      BY <2>1 DEF Call
    <3>3. \/ calls' = [calls EXCEPT ![c] = [calls[c] EXCEPT !.todo = @ \ {f}, !.done = @ \cup {f}]]
          \/ calls' = [calls EXCEPT ![c] = [calls[c] EXCEPT !.todo = @ \ {f}]]
      BY <1>3 DEF SetPaused, TypeOK
    <3>4. QED
      BY <3>1, <3>2, <3>3 DEF TypeOK
  <2>3. folders' \in [Folder -> {"new", "active", "paused", "removed"}]
    BY <1>3 DEF SetPaused, TypeOK
  <2>4. left' \in [{"calls", "failures", "restarts"} -> Nat]
    BY <1>3, SpendOK DEF SetPaused, TypeOK
  <2>5. QED
    BY <1>3, <2>2, <2>3, <2>4, QueueKept DEF SetPaused, TypeOK
<1>4. CASE Return(c)
  <2>1. calls[c] \in Call
    BY <1>4 DEF Return, TypeOK
  <2>2. QED
    BY <1>4, <2>1, QueueKept DEF Return, TypeOK, Call
<1>5. QED
  BY <1>1, <1>2, <1>3, <1>4 DEF Handlers

LEMMA TypeInvRequests ==
  ASSUME TypeInv, NEW f \in Folder,
         WatchEvent(f) \/ ForceSync(f) \/ AddSyncFolder(f) \/ RemoveSyncFolder(f)
  PROVE  TypeInv'
<1> USE DEF TypeInv, database, scheduler
<1>1. CASE WatchEvent(f)
  BY <1>1, SendOK, QueueKept DEF WatchEvent, TypeOK
<1>2. CASE ForceSync(f)
  BY <1>2, SendOK, SpendOK, QueueKept DEF ForceSync, TypeOK
<1>3. CASE AddSyncFolder(f)
  BY <1>3, SendOK, SpendOK, QueueKept DEF AddSyncFolder, TypeOK
<1>4. CASE RemoveSyncFolder(f)
  BY <1>4, SpendOK, QueueKept DEF RemoveSyncFolder, TypeOK
<1>5. QED
  BY <1>1, <1>2, <1>3, <1>4

LEMMA TypeInvRestart ==
  ASSUME TypeInv, NEW W \in SUBSET Folder, Restart(W)
  PROVE  TypeInv'
<1> USE SchedulerAssumption DEF TypeInv, Restart, database
<1>1. left' \in [{"calls", "failures", "restarts"} -> Nat]
  BY SpendOK
<1>2. calls' \in [Caller -> Call \cup {None}]
  OBVIOUS
<1>3. <<>> \in Seq(Folder) /\ Capacity \in 0..Capacity /\ W \subseteq Folder
  OBVIOUS
<1>4. TypeOK'
  BY <1>1, <1>2, <1>3 DEF TypeOK
<1>5. QueueInv'
  BY DEF QueueInv, PendingDistinct, IsInjective, Range
<1>6. QED
  BY <1>4, <1>5

LEMMA TypeInvStep == TypeInv /\ [Next]_vars => TypeInv'
<1> SUFFICES ASSUME TypeInv, [Next]_vars PROVE TypeInv'
  OBVIOUS
<1>1. CASE UNCHANGED vars
  BY <1>1 DEF vars, database, scheduler, TypeInv, TypeOK, QueueInv, PendingDistinct
<1>2. CASE Next
  BY <1>2, TypeInvScheduler, TypeInvHandlers, TypeInvRequests, TypeInvRestart DEF Next
<1>3. QED
  BY <1>1, <1>2

\* Every reachable state of scheduler, channel, rows and D-Bus calls is well typed.
THEOREM TypeCorrect == Spec => []TypeOK
<1>1. TypeInv => TypeOK
  BY DEF TypeInv
<1>2. QED
  BY <1>1, TypeInvInit, TypeInvStep, PTL DEF Spec

\* Requests, polls, missing tokens and failed cycles never queue a folder twice,
\* nor the folder whose cycle runs.
THEOREM PendingDistinctHolds == Spec => []PendingDistinct
<1>1. TypeInv => PendingDistinct
  BY DEF TypeInv, QueueInv
<1>2. QED
  BY <1>1, TypeInvInit, TypeInvStep, PTL DEF Spec

-----------------------------------------------------------------------------
(***************************************************************************)
(* Requests.  Only the lookup answers one, so that until then its folder   *)
(* is in the channel, in the queue, or popped.                             *)
(***************************************************************************)

Popped == IF at = "lookup" THEN {current} ELSE {}

RequestInv == owed \subseteq Range(rx) \cup Range(pending) \cup Popped

LEMMA RequestInvScheduler ==
  ASSUME TypeInv, RequestInv,
         \/ Receive \/ Poll \/ PopFront \/ Refill \/ Drained \/ Lookup
         \/ Work \/ CycleEnds \/ CycleFails
  PROVE  RequestInv'
<1> USE DEF RequestInv, Popped
<1>1. CASE Receive
  <2> USE <1>1 DEF Receive
  <2>1. Range(rx) = Range(Tail(rx)) \cup {Head(rx)} /\ Head(rx) \in Folder
    BY TailFacts DEF TypeInv, TypeOK
  <2>2. Range(pending') = Range(pending) \cup {Head(rx)}
    BY <2>1, AppendFacts DEF TypeInv, TypeOK
  <2>3. QED
    BY <2>1, <2>2
<1>2. CASE Poll
  <2> USE <1>2 DEF Poll
  <2>1. Range(pending) = {}
    BY DEF TypeInv, QueueInv, Range
  <2>2. QED
    BY <2>1
<1>3. CASE PopFront
  <2> USE <1>3 DEF PopFront
  <2>1. Range(pending) = Range(Tail(pending)) \cup {Head(pending)}
    BY TailFacts DEF TypeInv, TypeOK
  <2>2. QED
    BY <2>1
<1>4. CASE Refill \/ Drained \/ Work \/ CycleEnds
  BY <1>4 DEF Refill, Drained, Work, CycleEnds, scheduler
<1>5. CASE Lookup
  BY <1>5 DEF Lookup, Answer
<1>6. CASE CycleFails
  <2> USE <1>6 DEF CycleFails
  <2>1. current \in Folder
    BY DEF TypeInv, TypeOK, QueueInv
  <2>2. Range(pending') = Range(pending) \cup {current}
    BY <2>1, AppendFacts DEF TypeInv, TypeOK
  <2>3. QED
    BY <2>2
<1>7. QED
  BY <1>1, <1>2, <1>3, <1>4, <1>5, <1>6

LEMMA RequestInvStep == TypeInv /\ RequestInv /\ [Next]_vars => RequestInv'
<1> SUFFICES ASSUME TypeInv, RequestInv, [Next]_vars PROVE RequestInv'
  OBVIOUS
<1> USE DEF RequestInv, Popped
<1>1. CASE UNCHANGED vars
  BY <1>1 DEF vars, scheduler
<1>2. ASSUME NEW c \in Caller, Handlers(c)
      PROVE  RequestInv'
  BY <1>2 DEF Handlers, Begin, List, SetPaused, Return, scheduler
<1>3. ASSUME NEW f \in Folder, Send(f), UNCHANGED scheduler
      PROVE  RequestInv'
  BY <1>3, SendOK DEF TypeInv, scheduler
<1>4. ASSUME NEW f \in Folder, WatchEvent(f) \/ ForceSync(f) \/ AddSyncFolder(f)
      PROVE  RequestInv'
  BY <1>3, <1>4 DEF WatchEvent, ForceSync, AddSyncFolder
<1>5. ASSUME NEW f \in Folder, RemoveSyncFolder(f)
      PROVE  RequestInv'
  BY <1>5 DEF RemoveSyncFolder, scheduler
<1>6. ASSUME NEW W \in SUBSET Folder, Restart(W)
      PROVE  RequestInv'
  BY <1>6 DEF Restart
<1>7. QED
  BY <1>1, <1>2, <1>4, <1>5, <1>6, RequestInvScheduler DEF Next

\* A request stays on its way until a cycle or a skip answers it, in every order of
\* duplicates, polls, missing tokens, failed cycles and D-Bus calls.
THEOREM NoRequestLostHolds == Spec => []NoRequestLost
<1>1. Init => RequestInv
  BY DEF Init, RequestInv
<1>2. RequestInv => NoRequestLost
  BY DEF RequestInv, Popped, NoRequestLost
<1>3. QED
  BY <1>1, <1>2, TypeInvInit, TypeInvStep, RequestInvStep, PTL DEF Spec

-----------------------------------------------------------------------------
(***************************************************************************)
(* Pauses.  A call that pauses alone keeps every resume out and the flag   *)
(* set; what it has written, and what it leaves standing, is not active,   *)
(* so that a cycle of such a folder is one that started before, and the    *)
(* flag that stops it is still set.                                        *)
(***************************************************************************)

AlonePause(c) == calls[c] # None /\ calls[c].kind = "pause" /\ calls[c].alone

Promised(f) == f \in standing \/ \E c \in Caller : AlonePause(c) /\ f \in calls[c].done

Resuming == \E c \in Caller : calls[c] # None /\ calls[c].kind = "resume"

PromisedStopped == \A f \in Folder : Promised(f) => folders[f] \in {"paused", "removed"}
NoResume        == (standing # {} \/ \E c \in Caller : AlonePause(c)) => ~Resuming
FlagSet         == (\E c \in Caller : AlonePause(c)) => pause
CycleStopped    == at = "cycle" /\ Promised(current) => pause
TodoKnown       == \A c \in Caller : calls[c] # None =>
                     \A f \in calls[c].todo : folders[f] # "new"

PauseInv == PromisedStopped /\ NoResume /\ FlagSet /\ CycleStopped /\ TodoKnown

\* The steps that touch neither rows nor flag nor calls, and start no cycle.
LEMMA PauseInvFrame ==
  ASSUME PauseInv, UNCHANGED <<folders, pause, calls, standing>>,
         at' = "cycle" => at = "cycle" /\ current' = current
  PROVE  PauseInv'
<1>1. \A f : Promised(f)' <=> Promised(f)
  BY DEF Promised, AlonePause
<1>2. QED
  BY <1>1 DEF PauseInv, PromisedStopped, NoResume, FlagSet, CycleStopped, TodoKnown,
                 Promised, AlonePause, Resuming

LEMMA PauseInvScheduler ==
  ASSUME TypeInv, PauseInv,
         \/ Receive \/ Poll \/ PopFront \/ Refill \/ Drained \/ Lookup
         \/ Work \/ CycleEnds \/ CycleFails
  PROVE  PauseInv'
<1> USE DEF database
<1>1. CASE Receive \/ Poll \/ PopFront \/ Refill \/ Drained
  BY <1>1, PauseInvFrame DEF Receive, Poll, PopFront, Refill, Drained
<1>2. CASE Work \/ CycleEnds \/ CycleFails
  BY <1>2, PauseInvFrame DEF Work, CycleEnds, CycleFails, scheduler
<1>3. CASE Lookup
  <2> USE <1>3 DEF Lookup, Answer
  <2>1. CASE at' = "drain"
    BY <2>1, PauseInvFrame
  <2>2. CASE at' = "cycle"
    <3>1. folders[current] = "active" /\ current' = current /\ current \in Folder
      BY <2>2 DEF TypeInv, TypeOK, QueueInv
    <3>2. \A f : Promised(f)' <=> Promised(f)
      BY DEF Promised, AlonePause
    <3>3. ~Promised(current)
      BY <3>1 DEF PauseInv, PromisedStopped
    <3>4. QED
      BY <3>1, <3>2, <3>3 DEF PauseInv, PromisedStopped, NoResume, FlagSet, CycleStopped,
                              TodoKnown, Promised, AlonePause, Resuming
  <2>3. QED
    BY <2>1, <2>2
<1>4. QED
  BY <1>1, <1>2, <1>3

LEMMA PauseInvBegin ==
  ASSUME TypeInv, PauseInv, NEW c \in Caller, NEW kind \in {"pause", "resume"},
         Begin(c, kind)
  PROVE  PauseInv'
<1> USE DEF Begin, database, scheduler, AlonePause, Promised, Resuming
<1> DEFINE others == {d \in Caller : calls[d] # None /\ calls[d].kind # kind}
<1>1. /\ calls'[c].kind = kind /\ calls'[c].done = {} /\ calls'[c].todo = {}
      /\ calls'[c].alone = (others = {})
  BY DEF TypeInv, TypeOK
<1>2. ASSUME NEW d \in Caller, d # c, calls'[d] # None
      PROVE  /\ calls[d] # None
             /\ calls'[d].kind = calls[d].kind
             /\ calls'[d].done = calls[d].done
             /\ calls'[d].todo = calls[d].todo
             /\ calls'[d].alone => calls[d].alone /\ calls[d].kind = kind
  <2>1. calls[d] \in Call \cup {None}
    BY DEF TypeInv, TypeOK
  <2>2. CASE d \in others
    <3>1. calls'[d] = [calls[d] EXCEPT !.alone = FALSE] /\ calls[d] \in Call
      BY <1>2, <2>1, <2>2
    <3>2. QED
      BY <2>2, <3>1 DEF Call
  <2>3. CASE d \notin others
    BY <1>2, <2>3
  <2>4. QED
    BY <2>2, <2>3
<1>3. TodoKnown'
  BY <1>1, <1>2 DEF PauseInv, TodoKnown
<1>4. CASE kind = "resume"
  <2>1. standing' = {} /\ \A d \in Caller : ~AlonePause(d)'
    BY <1>1, <1>2, <1>4
  <2>2. QED
    BY <1>3, <2>1 DEF PauseInv, PromisedStopped, NoResume, FlagSet, CycleStopped
<1>5. CASE kind = "pause"
  <2>1. pause' /\ standing' = standing
    BY <1>5
  <2>2. \A f : Promised(f)' => Promised(f)
    BY <1>1, <1>2, <2>1
  <2>3. PromisedStopped'
    BY <2>2 DEF PauseInv, PromisedStopped
  <2>4. Resuming' => Resuming
    BY <1>1, <1>2, <1>5
  <2>5. Resuming => others # {}
    BY <1>5
  <2>6. NoResume'
    BY <1>1, <1>2, <2>1, <2>4, <2>5 DEF PauseInv, NoResume
  <2>7. QED
    BY <1>3, <2>1, <2>3, <2>6 DEF PauseInv, FlagSet, CycleStopped
<1>6. QED
  BY <1>4, <1>5

LEMMA PauseInvSetPaused ==
  ASSUME TypeInv, PauseInv, NEW c \in Caller, NEW f \in Folder, SetPaused(c, f)
  PROVE  PauseInv'
<1> USE DEF SetPaused, scheduler, AlonePause, Promised, Resuming
<1>1. calls[c] # None /\ calls[c] \in Call /\ f \in calls[c].todo /\ folders[f] # "new"
  BY DEF TypeInv, TypeOK, PauseInv, TodoKnown
<1>2. /\ calls'[c].kind = calls[c].kind /\ calls'[c].alone = calls[c].alone
      /\ calls'[c].todo \subseteq calls[c].todo
      /\ \/ calls'[c].done = calls[c].done
         \/ /\ calls'[c].done = calls[c].done \cup {f}
            /\ folders' = [folders EXCEPT ![f] =
                 IF f \in Listed
                 THEN IF calls[c].kind = "pause" THEN "paused" ELSE "active"
                 ELSE @]
  BY <1>1 DEF Call, TypeInv, TypeOK
<1>3. \A d \in Caller \ {c} : calls'[d] = calls[d]
  BY DEF TypeInv, TypeOK
<1>4. \A d \in Caller : AlonePause(d)' => AlonePause(d)
  BY <1>1, <1>2, <1>3
<1>5. Resuming' => Resuming
  BY <1>1, <1>2, <1>3
<1>6. NoResume' /\ FlagSet'
  BY <1>4, <1>5 DEF PauseInv, NoResume, FlagSet
<1>7. /\ \A g \in Folder \ {f} : folders'[g] = folders[g]
      /\ folders'[f] # "new"
      /\ folders'[f] = folders[f] \/ folders'[f] = (IF calls[c].kind = "pause" THEN "paused" ELSE "active")
  BY <1>1 DEF TypeInv, TypeOK, Listed
<1>8. TodoKnown'
  BY <1>1, <1>2, <1>3, <1>7 DEF PauseInv, TodoKnown, TypeInv, TypeOK, Call
<1>9. CASE calls[c].kind = "resume"
  <2>1. standing' = {} /\ \A d \in Caller : ~AlonePause(d)'
    BY <1>1, <1>4, <1>9 DEF PauseInv, NoResume
  <2>2. QED
    BY <1>6, <1>8, <2>1 DEF PauseInv, PromisedStopped, CycleStopped
<1>10. CASE calls[c].kind # "resume"
  <2>1. calls[c].kind = "pause"
    BY <1>1, <1>10 DEF Call
  <2>2. ASSUME NEW g, Promised(g)', ~Promised(g)
        PROVE  /\ g = f /\ AlonePause(c)
               /\ folders'[f] \in {"paused", "removed"}
    <3>1. AlonePause(c) /\ g \in calls'[c].done /\ g \notin calls[c].done
      BY <1>3, <1>4, <2>2
    <3>2. calls'[c].done = calls[c].done \cup {f} /\ g = f
      BY ONLY <1>2, <3>1
    <3>3. folders'[f] = IF f \in Listed THEN "paused" ELSE folders[f]
      BY ONLY <1>2, <2>1, <3>1, TypeInv DEF TypeInv, TypeOK
    <3>4. folders'[f] \in {"paused", "removed"}
      BY ONLY <1>1, <3>3, TypeInv DEF TypeInv, TypeOK, Listed
    <3>5. QED
      BY <3>1, <3>2, <3>4
  <2>3. PromisedStopped'
    <3>1. ASSUME NEW g \in Folder, Promised(g)'
          PROVE  folders'[g] \in {"paused", "removed"}
      <4>1. CASE Promised(g)
        BY <4>1, <1>7, <2>1 DEF PauseInv, PromisedStopped
      <4>2. CASE ~Promised(g)
        BY <3>1, <4>2, <2>2
      <4>3. QED
        BY <4>1, <4>2
    <3>2. QED
      BY <3>1 DEF PromisedStopped
  <2>4. CycleStopped'
    BY <2>2 DEF PauseInv, FlagSet, CycleStopped
  <2>5. QED
    BY <1>6, <1>8, <2>3, <2>4 DEF PauseInv
<1>11. QED
  BY <1>9, <1>10

LEMMA PauseInvStep == TypeInv /\ PauseInv /\ [Next]_vars => PauseInv'
<1> SUFFICES ASSUME TypeInv, PauseInv, [Next]_vars PROVE PauseInv'
  OBVIOUS
<1> USE DEF database, scheduler
<1>1. CASE UNCHANGED vars
  BY <1>1, PauseInvFrame DEF vars
<1>2. ASSUME NEW c \in Caller, List(c)
      PROVE  PauseInv'
  <2> USE DEF AlonePause, Promised, Resuming
  <2>1. CASE calls' = [calls EXCEPT ![c] = None]
    <3>1. \A d \in Caller : calls'[d] # None => calls'[d] = calls[d]
      BY <2>1 DEF TypeInv, TypeOK
    <3>2. QED
      BY <1>2, <3>1 DEF List, PauseInv, PromisedStopped, NoResume, FlagSet, CycleStopped,
                        TodoKnown
  <2>2. CASE calls' = [calls EXCEPT ![c].listed = TRUE, ![c].todo = Listed]
    <3>1. calls[c] \in Call /\ calls[c] # None
      BY <1>2 DEF List, TypeInv, TypeOK
    <3>2. /\ calls'[c].kind = calls[c].kind /\ calls'[c].alone = calls[c].alone
          /\ calls'[c].done = calls[c].done /\ calls'[c].todo = Listed
      BY <2>2, <3>1 DEF Call, TypeInv, TypeOK
    <3>3. \A d \in Caller \ {c} : calls'[d] = calls[d]
      BY <2>2 DEF TypeInv, TypeOK
    <3>4. UNCHANGED <<folders, pause, standing, at, current>>
      BY <1>2 DEF List
    <3>5. \A d \in Caller : AlonePause(d)' => AlonePause(d) /\ calls'[d].done = calls[d].done
      BY <3>1, <3>2, <3>3
    <3>6. TodoKnown'
      BY <3>2, <3>3, <3>4 DEF PauseInv, TodoKnown, Listed
    <3>7. NoResume' /\ FlagSet'
      BY <3>1, <3>2, <3>3, <3>4, <3>5 DEF PauseInv, NoResume, FlagSet
    <3>8. PromisedStopped' /\ CycleStopped'
      BY <3>4, <3>5 DEF PauseInv, PromisedStopped, CycleStopped
    <3>9. QED
      BY <3>6, <3>7, <3>8 DEF PauseInv
  <2>3. QED
    BY <1>2, <2>1, <2>2 DEF List
<1>3. ASSUME NEW c \in Caller, Return(c)
      PROVE  PauseInv'
  <2> USE DEF AlonePause, Promised, Resuming
  <2>1. \A d \in Caller : calls'[d] # None => calls'[d] = calls[d]
    BY <1>3 DEF Return, TypeInv, TypeOK
  <2>2. \A f : Promised(f)' => Promised(f)
    BY <1>3, <2>1 DEF Return
  <2>3. standing' = standing \/ AlonePause(c)
    BY <1>3 DEF Return
  <2>4. QED
    BY <1>3, <2>1, <2>2, <2>3 DEF Return, PauseInv, PromisedStopped, NoResume, FlagSet,
                                  CycleStopped, TodoKnown
<1>4. ASSUME NEW c \in Caller, Handlers(c)
      PROVE  PauseInv'
  BY <1>2, <1>3, <1>4, PauseInvBegin, PauseInvSetPaused DEF Handlers
<1>5. ASSUME NEW f \in Folder, WatchEvent(f) \/ ForceSync(f)
      PROVE  PauseInv'
  BY <1>5, PauseInvFrame DEF WatchEvent, ForceSync
<1>6. ASSUME NEW f \in Folder, AddSyncFolder(f) \/ RemoveSyncFolder(f)
      PROVE  PauseInv'
  <2>1. /\ UNCHANGED <<pause, at, current, calls, standing>>
        /\ \A g \in Folder : folders'[g] # folders[g] =>
             g = f /\ (folders[f] = "new" \/ folders'[f] = "removed") /\ folders'[f] # "new"
    BY <1>6 DEF AddSyncFolder, RemoveSyncFolder, TypeInv, TypeOK
  <2>2. \A g : Promised(g)' <=> Promised(g)
    BY <2>1 DEF Promised, AlonePause
  <2>3. PromisedStopped'
    BY <2>1, <2>2 DEF PauseInv, PromisedStopped
  <2>4. NoResume' /\ FlagSet' /\ CycleStopped'
    BY <2>1, <2>2 DEF PauseInv, NoResume, FlagSet, CycleStopped, Promised, AlonePause, Resuming
  <2>5. TodoKnown'
    BY <2>1 DEF PauseInv, TodoKnown, TypeInv, TypeOK, Call
  <2>6. QED
    BY <2>3, <2>4, <2>5 DEF PauseInv
<1>7. ASSUME NEW W \in SUBSET Folder, Restart(W)
      PROVE  PauseInv'
  BY <1>7 DEF Restart, PauseInv, PromisedStopped, NoResume, FlagSet, CycleStopped, TodoKnown,
              Promised, AlonePause, Resuming
<1>8. QED
  BY <1>1, <1>4, <1>5, <1>6, <1>7, PauseInvScheduler DEF Next

\* A pause stands: whatever is queued, forced, added or retried, and whatever fails or
\* restarts, no action of a folder that pause_sync stopped is taken up before a resume.
THEOREM PauseStandsHolds == Spec => PauseStands
<1>1. Init => PauseInv
  BY DEF Init, PauseInv, PromisedStopped, NoResume, FlagSet, CycleStopped, TodoKnown,
         Promised, AlonePause, Resuming
<1>2. PauseInv => (Work => current \notin standing)
  BY DEF PauseInv, CycleStopped, Promised, Work
<1>3. QED
  BY <1>1, <1>2, TypeInvInit, TypeInvStep, PauseInvStep, PTL DEF Spec, PauseStands
=============================================================================
