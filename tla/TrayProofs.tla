----------------------------- MODULE TrayProofs -----------------------------
(* Proofs about Tray for any number of cycles, calls and faults: its types,  *)
(* and that the first sync's marker never stands for an announcement that    *)
(* was not made.                                                             *)
EXTENDS Tray, SequenceTheorems, TLAPS

(* The types by the part of the tray they belong to, with what TypeOK leaves  *)
(* out: the queues are sequences, a cycle that runs has a number, the signal  *)
(* task has a signal in hand unless it waits for one, and a redrawing is for  *)
(* somebody.                                                                  *)
DaemonTyped ==
  /\ daemon \in [up : BOOLEAN, paused : BOOLEAN, conflict : BOOLEAN,
                 cycle : {"none", "running", "failing"}]
  /\ cycles \in Cycle \cup {0}
  /\ daemon.cycle # "none" => cycles \in Cycle
  /\ channel \subseteq Cycle /\ completed \subseteq Cycle
  /\ wire \in Seq(Signal)

ToldTyped ==
  /\ logged \subseteq Cycle
  /\ nmLock \in Task \cup {None}
  /\ signals \in [at : {"receive", "log", "lock", "notify", "mark", "update"},
                  signal : Signal \cup {None}, lately : BOOLEAN]
  /\ signals.at # "receive" => signals.signal \in Signal
  /\ marker \in BOOLEAN /\ announced \in BOOLEAN

DrawTyped ==
  /\ asks \in Seq(Task)
  /\ drawing \in BOOLEAN
  /\ drawing => asks # <<>>
  /\ shown \in [tip : TrayStatusKind \cup {"blank"}, item : {"Pause", "Resume"}]

MainTyped == clicks \in Seq(TrayAction) /\ dialog \in BOOLEAN

StateTyped ==
  /\ ui \in [connected : BOOLEAN, status : Status \cup {"offline"}]
  /\ uiLock \in Task \cup {None}
  /\ turn \subseteq Task \cup {"ksni"}
  /\ refresh \in [at : {"tick", "lock", "calls", "update"}, reply : Status \cup {None}]

LeftTyped == left \in [{"calls", "faults"} -> Nat]

TypeInv == DaemonTyped /\ ToldTyped /\ DrawTyped /\ MainTyped /\ StateTyped /\ LeftTyped

(* The marker is written by a task whose announcement was taken. *)
MarkInv ==
  /\ AnnouncementNotLost
  /\ signals.at = "mark" => announced

-----------------------------------------------------------------------------
(* Types. *)

LEMMA Elements ==
  ASSUME NEW S, NEW seq \in Seq(S)
  PROVE  \A i \in DOMAIN seq : seq[i] \in S
BY ElementOfSeq, LenProperties

LEMMA TypeInvTypes == TypeInv => TypeOK
<1> SUFFICES ASSUME TypeInv PROVE TypeOK
  OBVIOUS
<1>1. /\ \A i \in DOMAIN wire : wire[i] \in Signal
      /\ \A i \in DOMAIN asks : asks[i] \in Task
      /\ \A i \in DOMAIN clicks : clicks[i] \in TrayAction
  BY Elements DEF TypeInv, DaemonTyped, DrawTyped, MainTyped
<1>2. QED
  BY <1>1 DEF TypeInv, DaemonTyped, ToldTyped, DrawTyped, MainTyped, StateTyped, LeftTyped,
              TypeOK

LEMMA TypeInit == Init => TypeInv
<1> SUFFICES ASSUME Init PROVE TypeInv
  OBVIOUS
<1>1. DaemonTyped /\ ToldTyped
  BY EmptySeq DEF Init, DaemonTyped, ToldTyped
<1>2. DrawTyped /\ MainTyped
  BY EmptySeq DEF Init, DrawTyped, MainTyped, TrayStatusKind
<1>3. StateTyped /\ LeftTyped
  BY TrayAssumption DEF Init, StateTyped, LeftTyped
<1>4. QED
  BY <1>1, <1>2, <1>3 DEF TypeInv

(* What is left alone keeps its type. *)
LEMMA Framed ==
  ASSUME TypeInv
  PROVE  /\ UNCHANGED daemonVars => DaemonTyped'
         /\ UNCHANGED toldVars => ToldTyped'
         /\ UNCHANGED drawVars => DrawTyped'
         /\ UNCHANGED mainVars => MainTyped'
         /\ UNCHANGED <<ui, uiLock, turn, refresh>> => StateTyped'
         /\ UNCHANGED left => LeftTyped'
BY DEF TypeInv, DaemonTyped, ToldTyped, DrawTyped, MainTyped, StateTyped, LeftTyped,
       daemonVars, toldVars, drawVars, mainVars

LEMMA Spent ==
  ASSUME TypeInv, NEW kind \in {"calls", "faults"}, Spend(kind)
  PROVE  LeftTyped'
BY DEF TypeInv, LeftTyped, Spend

LEMMA Emitted ==
  ASSUME TypeInv, NEW n \in Cycle, NEW members \in Seq(Member), Emit(n, members)
  PROVE  wire' \in Seq(Signal)
<1> DEFINE sent == [i \in DOMAIN members |-> [member |-> members[i], cycle |-> n]]
<1>1. sent \in Seq(Signal)
  <2>1. DOMAIN members = 1..Len(members) /\ Len(members) \in Nat
    BY LenProperties
  <2>2. \A i \in DOMAIN members : members[i] \in Member
    BY Elements
  <2>3. \A i \in DOMAIN members : [member |-> members[i], cycle |-> n] \in Signal
    BY <2>2 DEF Signal
  <2>4. QED
    BY <2>1, <2>3, SeqDef
<1>2. QED
  BY <1>1, ConcatProperties DEF Emit, TypeInv, DaemonTyped

(* Somebody more in handle.update. *)
LEMMA Asked ==
  ASSUME TypeInv, NEW t \in Task, asks' = Append(asks, t), UNCHANGED <<drawing, shown>>
  PROVE  DrawTyped'
<1>1. asks' \in Seq(Task) /\ asks' # <<>>
  BY AppendProperties DEF TypeInv, DrawTyped
<1>2. QED
  BY <1>1 DEF TypeInv, DrawTyped

LEMMA TypeCycle ==
  ASSUME TypeInv, TrayAssumption,
         BeginCycle \/ SendConflict \/ EndCycle \/ FailCycle \/ AbortConflicts
  PROVE  TypeInv'
<1>1. CASE BeginCycle
  <2>1. cycles + 1 \in Cycle
    BY <1>1 DEF BeginCycle, TypeInv, DaemonTyped, Cycle, TrayAssumption
  <2>2. <<"SyncStarted", "StatusChanged">> \in Seq(Member)
    BY DEF Member
  <2>3. wire' \in Seq(Signal)
    BY <1>1, <2>1, <2>2, Emitted DEF BeginCycle
  <2>4. DaemonTyped'
    BY <1>1, <2>1, <2>3 DEF BeginCycle, TypeInv, DaemonTyped
  <2>5. QED
    BY <1>1, <2>4, Framed DEF BeginCycle, TypeInv
<1>2. CASE SendConflict
  <2>1. DaemonTyped'
    BY <1>2 DEF SendConflict, TypeInv, DaemonTyped
  <2>2. QED
    BY <1>2, <2>1, Framed DEF SendConflict, TypeInv
<1>3. CASE EndCycle
  <2>1. cycles \in Cycle
    BY <1>3 DEF EndCycle, TypeInv, DaemonTyped
  <2>2. <<"SyncCompleted", "StatusChanged">> \in Seq(Member)
    BY DEF Member
  <2>3. wire' \in Seq(Signal)
    BY <1>3, <2>1, <2>2, Emitted DEF EndCycle
  <2>4. DaemonTyped'
    BY <1>3, <2>1, <2>3 DEF EndCycle, TypeInv, DaemonTyped
  <2>5. QED
    BY <1>3, <2>4, Framed DEF EndCycle, TypeInv
<1>4. CASE FailCycle
  <2>1. cycles \in Cycle
    BY <1>4 DEF FailCycle, TypeInv, DaemonTyped
  <2>2. <<"StatusChanged", "SyncError">> \in Seq(Member)
    BY DEF Member
  <2>3. wire' \in Seq(Signal)
    BY <1>4, <2>1, <2>2, Emitted DEF FailCycle
  <2>4. DaemonTyped'
    BY <1>4, <2>1, <2>3 DEF FailCycle, TypeInv, DaemonTyped
  <2>5. QED
    BY <1>4, <2>4, Framed, Spent DEF FailCycle, TypeInv
<1>5. CASE AbortConflicts
  <2>1. DaemonTyped'
    BY <1>5 DEF AbortConflicts, TypeInv, DaemonTyped
  <2>2. QED
    BY <1>5, <2>1, Framed DEF AbortConflicts, TypeInv
<1>6. QED
  BY <1>1, <1>2, <1>3, <1>4, <1>5

LEMMA TypeDaemon ==
  ASSUME TypeInv, ConflictTask \/ OtherClient \/ DaemonStops \/ DaemonStarts
  PROVE  TypeInv'
<1>1. CASE ConflictTask
  <2>1. PICK n \in Cycle : EmitConflict(n)
    BY <1>1 DEF ConflictTask
  <2>2. <<"ConflictDetected">> \in Seq(Member)
    BY DEF Member
  <2>3. wire' \in Seq(Signal)
    BY <2>1, <2>2, Emitted DEF EmitConflict
  <2>4. DaemonTyped'
    BY <2>1, <2>3 DEF EmitConflict, TypeInv, DaemonTyped
  <2>5. QED
    BY <2>1, <2>4, Framed DEF EmitConflict, TypeInv
<1>2. CASE OtherClient
  <2>1. DaemonTyped'
    BY <1>2 DEF OtherClient, TypeInv, DaemonTyped
  <2>2. QED
    BY <1>2, <2>1, Framed, Spent DEF OtherClient, TypeInv
<1>3. CASE DaemonStops
  <2>1. DaemonTyped'
    BY <1>3 DEF DaemonStops, TypeInv, DaemonTyped
  <2>2. QED
    BY <1>3, <2>1, Framed, Spent DEF DaemonStops, TypeInv
<1>4. CASE DaemonStarts
  <2>1. DaemonTyped'
    BY <1>4 DEF DaemonStarts, TypeInv, DaemonTyped
  <2>2. QED
    BY <1>4, <2>1, Framed, Spent DEF DaemonStarts, TypeInv
<1>5. QED
  BY <1>1, <1>2, <1>3, <1>4

LEMMA TypeRefresh ==
  ASSUME TypeInv, RefreshTask
  PROVE  TypeInv'
<1>0. "refresh" \in Task
  BY DEF Task
<1>1. CASE AskStatus
  <2>1. GetStatus \in Status
    BY DEF GetStatus, Status
  <2>2. StateTyped'
    BY <1>1, <2>1 DEF AskStatus, TypeInv, StateTyped
  <2>3. QED
    BY <1>1, <2>2, Framed DEF AskStatus, TypeInv
<1>2. CASE SetStatus
  <2>1. StateTyped'
    <3>1. ui' \in [connected : BOOLEAN, status : Status \cup {"offline"}]
      <4>1. ui.status \in Status \cup {"offline"} /\ refresh.reply \in Status \cup {None}
        BY DEF TypeInv, StateTyped
      <4>2. CASE refresh.reply = None
        <5>1. PICK status \in {ui.status, "offline"} :
                ui' = [connected |-> FALSE, status |-> status]
          BY <1>2, <4>2 DEF SetStatus
        <5>2. status \in Status \cup {"offline"}
          BY <4>1, <5>1
        <5>3. QED
          BY <5>1, <5>2
      <4>3. CASE refresh.reply # None
        <5>1. ui' = [connected |-> TRUE, status |-> refresh.reply]
          BY <1>2, <4>3 DEF SetStatus
        <5>2. refresh.reply \in Status \cup {"offline"}
          BY <4>1, <4>3
        <5>3. QED
          BY <5>1, <5>2
      <4>4. QED
        BY <4>2, <4>3
    <3>2. /\ uiLock' \in Task \cup {None} /\ turn' = turn
          /\ refresh' \in [at : {"tick", "lock", "calls", "update"}, reply : Status \cup {None}]
      BY <1>0, <1>2 DEF SetStatus, TypeInv, StateTyped
    <3>3. QED
      BY <3>1, <3>2 DEF TypeInv, StateTyped
  <2>2. DrawTyped'
    <3>1. CASE refresh.reply = None
      BY <1>0, <1>2, <3>1, Asked DEF SetStatus
    <3>2. CASE refresh.reply # None
      BY <1>2, <3>2, Framed DEF SetStatus, drawVars
    <3>3. QED
      BY <3>1, <3>2
  <2>3. QED
    BY <1>2, <2>1, <2>2, Framed DEF SetStatus, TypeInv
<1>3. CASE CallsAnswered
  <2>1. turn' \subseteq Task \cup {"ksni"}
    BY <1>3 DEF CallsAnswered, Waiting, Task
  <2>2. StateTyped'
    BY <1>3, <2>1 DEF CallsAnswered, TypeInv, StateTyped
  <2>3. DrawTyped'
    BY <1>0, <1>3, Asked DEF CallsAnswered
  <2>4. QED
    BY <1>3, <2>2, <2>3, Framed DEF CallsAnswered, TypeInv
<1>4. CASE RefreshUpdated
  <2>1. StateTyped'
    BY <1>4 DEF RefreshUpdated, TypeInv, StateTyped
  <2>2. QED
    BY <1>4, <2>1, Framed DEF RefreshUpdated, TypeInv
<1>5. QED
  BY <1>1, <1>2, <1>3, <1>4 DEF RefreshTask

LEMMA TypeKsni ==
  ASSUME TypeInv, Ksni
  PROVE  TypeInv'
<1>1. CASE DrawTip
  <2>1. TrayKind \in TrayStatusKind
    BY DEF TrayKind, TrayStatusKind
  <2>2. DrawTyped'
    BY <1>1, <2>1 DEF DrawTip, TypeInv, DrawTyped
  <2>3. QED
    BY <1>1, <2>2, Framed DEF DrawTip, TypeInv
<1>2. CASE DrawMenu
  <2>1. Tail(asks) \in Seq(Task)
    BY <1>2, HeadTailProperties DEF DrawMenu, TypeInv, DrawTyped
  <2>2. DrawTyped'
    BY <1>2, <2>1 DEF DrawMenu, TypeInv, DrawTyped
  <2>3. StateTyped'
    BY <1>2 DEF DrawMenu, TypeInv, StateTyped
  <2>4. QED
    BY <1>2, <2>2, <2>3, Framed DEF DrawMenu, TypeInv
<1>3. QED
  BY <1>1, <1>2 DEF Ksni

(* Every step of the signal task leaves it at a step it has. *)
LEMMA SignalsGo ==
  ASSUME TypeInv
  PROVE  /\ \A at \in {"lock", "mark"} :
              Goes(at) /\ signals.at # "receive"
              => signals' \in [at : {"receive", "log", "lock", "notify", "mark", "update"},
                              signal : Signal \cup {None}, lately : BOOLEAN]
                 /\ signals'.signal \in Signal
         /\ Done => signals' \in [at : {"receive", "log", "lock", "notify", "mark", "update"},
                                  signal : Signal \cup {None}, lately : BOOLEAN]
                    /\ signals'.at = "receive"
BY DEF TypeInv, ToldTyped, Goes, Done

LEMMA TypeSignals ==
  ASSUME TypeInv, SignalTask
  PROVE  TypeInv'
<1>1. CASE Receive
  <2>1. Head(wire) \in Signal /\ Tail(wire) \in Seq(Signal)
    BY <1>1, HeadTailProperties DEF Receive, TypeInv, DaemonTyped
  <2>2. DaemonTyped'
    BY <1>1, <2>1 DEF Receive, TypeInv, DaemonTyped
  <2>3. ToldTyped'
    BY <1>1, <2>1 DEF Receive, TypeInv, ToldTyped
  <2>4. DrawTyped'
    <3>1. CASE Head(wire).member = "StatusChanged"
      BY <1>1, <3>1, Asked DEF Receive, Task
    <3>2. CASE Head(wire).member # "StatusChanged"
      BY <1>1, <3>2, Framed DEF Receive, drawVars
    <3>3. QED
      BY <3>1, <3>2
  <2>5. QED
    BY <1>1, <2>2, <2>3, <2>4, Framed DEF Receive, TypeInv
<1>2. CASE SignalsUpdated
  <2>1. ToldTyped'
    BY <1>2, SignalsGo DEF SignalsUpdated, TypeInv, ToldTyped
  <2>2. QED
    BY <1>2, <2>1, Framed DEF SignalsUpdated, TypeInv
<1>3. CASE PushActivity
  <2>1. signals.signal \in Signal
    BY <1>3 DEF PushActivity, TypeInv, ToldTyped
  <2>2. logged' \subseteq Cycle
    BY <1>3, <2>1 DEF PushActivity, TypeInv, ToldTyped, Signal
  <2>3. ToldTyped'
    BY <1>3, <2>2, SignalsGo DEF PushActivity, TypeInv, ToldTyped
  <2>4. StateTyped'
    BY <1>3 DEF PushActivity, TypeInv, StateTyped
  <2>5. QED
    BY <1>3, <2>3, <2>4, Framed DEF PushActivity, TypeInv
<1>4. CASE LockNotifications
  <2>1. ToldTyped'
    <3>1. CASE Done
      BY <1>4, <3>1, SignalsGo DEF LockNotifications, TypeInv, ToldTyped, Task
    <3>2. CASE ~Silent
      BY <1>4, <3>2 DEF LockNotifications, TypeInv, ToldTyped, Task
    <3>3. QED
      BY <1>4, <3>1, <3>2 DEF LockNotifications
  <2>2. QED
    BY <1>4, <2>1, Framed DEF LockNotifications, TypeInv
<1>5. CASE Notify
  <2>1. ToldTyped'
    <3>1. CASE Done
      BY <1>5, <3>1, SignalsGo DEF Notify, TypeInv, ToldTyped
    <3>2. CASE Goes("mark")
      BY <1>5, <3>2, SignalsGo DEF Notify, TypeInv, ToldTyped
    <3>3. QED
      BY <1>5, <3>1, <3>2 DEF Notify
  <2>2. LeftTyped'
    BY <1>5, Spent, Framed DEF Notify
  <2>3. QED
    BY <1>5, <2>1, <2>2, Framed DEF Notify, TypeInv
<1>6. CASE Mark
  <2>1. ToldTyped'
    BY <1>6, SignalsGo DEF Mark, TypeInv, ToldTyped
  <2>2. LeftTyped'
    BY <1>6, Spent, Framed DEF Mark
  <2>3. QED
    BY <1>6, <2>1, <2>2, Framed DEF Mark, TypeInv
<1>7. QED
  BY <1>1, <1>2, <1>3, <1>4, <1>5, <1>6 DEF SignalTask

LEMMA TypeNotifications ==
  ASSUME TypeInv, ErrorWindowEnds \/ QuotaLocks \/ QuotaNotified
  PROVE  TypeInv'
<1>1. CASE ErrorWindowEnds
  <2>1. ToldTyped'
    BY <1>1 DEF ErrorWindowEnds, TypeInv, ToldTyped
  <2>2. QED
    BY <1>1, <2>1, Framed DEF ErrorWindowEnds, TypeInv
<1>2. CASE QuotaLocks
  <2>1. ToldTyped'
    BY <1>2 DEF QuotaLocks, TypeInv, ToldTyped, Task
  <2>2. QED
    BY <1>2, <2>1, Framed, Spent DEF QuotaLocks, TypeInv
<1>3. CASE QuotaNotified
  <2>1. ToldTyped'
    BY <1>3 DEF QuotaNotified, TypeInv, ToldTyped
  <2>2. QED
    BY <1>3, <2>1, Framed DEF QuotaNotified, TypeInv
<1>4. QED
  BY <1>1, <1>2, <1>3

LEMMA Taken ==
  ASSUME TypeInv, NEW a, Takes(a)
  PROVE  clicks' \in Seq(TrayAction)
BY HeadTailProperties DEF Takes, IsNext, TypeInv, MainTyped

LEMMA TypeMain ==
  ASSUME TypeInv, MainTask \/ Click \/ ClosePreferences
  PROVE  TypeInv'
<1>1. CASE PauseOrResume
  <2>1. PICK a \in {"Pause", "Resume"} :
          /\ Takes(a)
          /\ daemon' = IF daemon.up THEN [daemon EXCEPT !.paused = (a = "Pause")] ELSE daemon
    BY <1>1 DEF PauseOrResume
  <2>2. MainTyped'
    BY <1>1, <2>1, Taken DEF PauseOrResume, TypeInv, MainTyped
  <2>3. DaemonTyped'
    BY <1>1, <2>1 DEF PauseOrResume, TypeInv, DaemonTyped
  <2>4. QED
    BY <1>1, <2>2, <2>3, Framed DEF PauseOrResume, TypeInv
<1>2. CASE ShowActivity
  <2>1. MainTyped'
    BY <1>2, Taken DEF ShowActivity, TypeInv, MainTyped
  <2>2. StateTyped'
    BY <1>2 DEF ShowActivity, TypeInv, StateTyped
  <2>3. QED
    BY <1>2, <2>1, <2>2, Framed DEF ShowActivity, TypeInv
<1>3. CASE OpenPreferences
  <2>1. MainTyped'
    BY <1>3, Taken DEF OpenPreferences, TypeInv, MainTyped
  <2>2. QED
    BY <1>3, <2>1, Framed DEF OpenPreferences, TypeInv
<1>4. CASE Quit
  <2>1. DaemonTyped' /\ MainTyped'
    BY <1>4, EmptySeq DEF Quit, TypeInv, DaemonTyped, MainTyped
  <2>2. ToldTyped'
    BY <1>4 DEF Quit, TypeInv, ToldTyped
  <2>3. DrawTyped'
    BY <1>4, EmptySeq DEF Quit, DrawTyped, TrayStatusKind
  <2>4. StateTyped'
    BY <1>4 DEF Quit, StateTyped
  <2>5. QED
    BY <1>4, <2>1, <2>2, <2>3, <2>4, Framed DEF Quit, TypeInv
<1>5. CASE Click
  <2>1. PICK a \in {shown.item, "ActivityLog", "Preferences", "Quit"} :
          clicks' = Append(clicks, a)
    BY <1>5 DEF Click
  <2>2. a \in TrayAction
    BY DEF TypeInv, DrawTyped, TrayAction
  <2>3. clicks' \in Seq(TrayAction)
    BY <2>1, <2>2, AppendProperties DEF TypeInv, MainTyped
  <2>4. MainTyped'
    BY <1>5, <2>3 DEF Click, TypeInv, MainTyped
  <2>5. QED
    BY <1>5, <2>4, Framed, Spent DEF Click, TypeInv
<1>6. CASE ClosePreferences
  <2>1. MainTyped'
    BY <1>6 DEF ClosePreferences, TypeInv, MainTyped
  <2>2. DrawTyped'
    BY <1>6, Asked DEF ClosePreferences, Task
  <2>3. QED
    BY <1>6, <2>1, <2>2, Framed DEF ClosePreferences, TypeInv
<1>7. QED
  BY <1>1, <1>2, <1>3, <1>4, <1>5, <1>6 DEF MainTask

LEMMA TypeStep ==
  ASSUME TypeInv, TrayAssumption, [Next]_vars
  PROVE  TypeInv'
<1>1. CASE Next
  BY <1>1, TypeCycle, TypeDaemon, TypeRefresh, TypeKsni, TypeSignals, TypeNotifications, TypeMain
     DEF Next
<1>2. CASE UNCHANGED vars
  BY <1>2, Framed DEF vars, TypeInv
<1>3. QED
  BY <1>1, <1>2

(* Every variable has its type, in every run of tray and daemon. *)
THEOREM TypeCorrect == Spec => []TypeOK
<1>1. Init => TypeInv
  BY TypeInit
<1>2. TypeInv /\ [Next]_vars => TypeInv'
  BY TypeStep, TrayAssumption
<1>3. QED
  BY <1>1, <1>2, TypeInvTypes, PTL DEF Spec

-----------------------------------------------------------------------------
(* The marker. *)

LEMMA MarkStep ==
  ASSUME TypeInv, MarkInv, [Next]_vars
  PROVE  MarkInv'
<1> USE DEF MarkInv, AnnouncementNotLost
<1>1. CASE Receive
  BY <1>1 DEF Receive, TypeInv, ToldTyped
<1>2. CASE SignalsUpdated
  BY <1>2 DEF SignalsUpdated, Done, TypeInv, ToldTyped
<1>3. CASE PushActivity
  BY <1>3 DEF PushActivity, Goes, TypeInv, ToldTyped
<1>4. CASE LockNotifications
  BY <1>4 DEF LockNotifications, Done, TypeInv, ToldTyped
<1>5. CASE Notify
  BY <1>5 DEF Notify, Done, Goes, TypeInv, ToldTyped
<1>6. CASE Mark
  BY <1>6 DEF Mark, Done, TypeInv, ToldTyped
<1>7. CASE ErrorWindowEnds
  BY <1>7 DEF ErrorWindowEnds, TypeInv, ToldTyped
<1>8. CASE QuotaLocks \/ QuotaNotified
  BY <1>8 DEF QuotaLocks, QuotaNotified
<1>9. CASE Quit
  BY <1>9 DEF Quit
<1>10. CASE UNCHANGED toldVars
  BY <1>10 DEF toldVars
<1>11. CASE BeginCycle \/ SendConflict \/ EndCycle \/ FailCycle \/ AbortConflicts
            \/ ConflictTask \/ OtherClient \/ DaemonStops \/ DaemonStarts
  BY <1>10, <1>11 DEF BeginCycle, SendConflict, EndCycle, FailCycle, AbortConflicts,
     ConflictTask, EmitConflict, OtherClient, DaemonStops, DaemonStarts
<1>12. CASE RefreshTask \/ Ksni
  BY <1>10, <1>12 DEF RefreshTask, AskStatus, SetStatus, CallsAnswered, RefreshUpdated,
     Ksni, DrawTip, DrawMenu
<1>13. CASE Click \/ PauseOrResume \/ ShowActivity \/ OpenPreferences \/ ClosePreferences
  BY <1>10, <1>13 DEF Click, PauseOrResume, ShowActivity, OpenPreferences, ClosePreferences
<1>14. QED
  BY <1>1, <1>2, <1>3, <1>4, <1>5, <1>6, <1>7, <1>8, <1>9, <1>10, <1>11, <1>12, <1>13
     DEF Next, SignalTask, MainTask, vars

(* The first sync is announced again rather than not at all: in every run the *)
(* marker that silences it is there only after the server took it, whatever   *)
(* the server, the marker file, the daemon and the user's quitting do         *)
(* (notifications.rs, initial_sync_started).                                  *)
THEOREM AnnouncementNotLostHolds == Spec => []AnnouncementNotLost
<1>1. Init => TypeInv /\ MarkInv
  BY TypeInit DEF Init, MarkInv, AnnouncementNotLost
<1>2. TypeInv /\ MarkInv /\ [Next]_vars => (TypeInv /\ MarkInv)'
  BY TypeStep, MarkStep, TrayAssumption
<1>3. MarkInv => AnnouncementNotLost
  BY DEF MarkInv
<1>4. QED
  BY <1>1, <1>2, <1>3, PTL DEF Spec
=============================================================================
