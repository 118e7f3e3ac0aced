-------------------------------- MODULE Tray --------------------------------
(* gds-kde: the tasks of the tray icon (gds-kde/src/{main,state,tray}.rs) and *)
(* its notifications (notifications.rs), beside what the daemon tells them:   *)
(* the status it answers GetStatus with and the signals of run_sync_loop      *)
(* (gds-daemon/src/{dbus/service,dbus/signals,scheduler/mod}.rs).             *)
(* The session bus, the tray host that ksni serves and the notification       *)
(* server are external. The activity log is there for its conflicts only.     *)
EXTENDS Naturals, Sequences

CONSTANTS
  None,
  MaxCycles,  \* bound on sync cycles, of one conflict each at most
  MaxCalls,   \* bound on clicks and on calls of other clients
  MaxFaults   \* bound on ends of the daemon, failed cycles and failed calls

ASSUME TrayAssumption ==
  /\ None \notin Nat
  /\ MaxCycles \in Nat /\ MaxCalls \in Nat /\ MaxFaults \in Nat

VARIABLES
  daemon,     \* whether it is up, its pause flag, its cycle and a conflict in it
  cycles,     \* cycles begun
  channel,    \* cycles whose conflict waits in the channel of conflict_task
  completed,  \* history: cycles with a conflict that ended well, as did the daemon
  logged,     \* history: cycles whose conflict came into the activity log, or was on its
              \* way there when the tray quit
  wire,       \* signals on their way to the tray
  ui,         \* UiState
  uiLock,     \* the task that holds its lock while it waits for something else
  turn,       \* who waited for that lock when it was last released
  nmLock,     \* the task that holds the NotificationManager's lock
  refresh,    \* the refresh task
  signals,    \* the signal task, and whether an error was notified of late
  asks,       \* tasks in handle.update, which returns when the tray is redrawn for them
  drawing,    \* whether ksni redraws for the first of them
  shown,      \* what the tray host shows
  clicks,     \* tray actions that the main task has not taken
  dialog,     \* whether the main task is in the preferences dialog
  marker,     \* kde_first_sync_notified
  announced,  \* history: whether the first sync has been announced
  left        \* what is left of the bounds

daemonVars == <<daemon, cycles, channel, completed, wire>>
toldVars == <<logged, nmLock, signals, marker, announced>>
drawVars == <<asks, drawing, shown>>
mainVars == <<clicks, dialog>>
vars == <<daemonVars, toldVars, drawVars, mainVars, ui, uiLock, turn, refresh, left>>

Cycle == 1..MaxCycles
Member == {"SyncStarted", "ConflictDetected", "SyncCompleted", "SyncError", "StatusChanged"}
Signal == [member : Member, cycle : Cycle]
Task == {"refresh", "signals", "quota", "actions"}
Status == {"idle", "syncing", "paused"}
TrayStatusKind == {"Disconnected", "Paused", "Syncing", "Idle"}
TrayAction == {"Pause", "Resume", "ActivityLog", "Preferences", "Quit"}

TypeOK ==
  /\ daemon \in [up : BOOLEAN, paused : BOOLEAN, conflict : BOOLEAN,
                 cycle : {"none", "running", "failing"}]
  /\ cycles \in Cycle \cup {0}
  /\ channel \subseteq Cycle /\ completed \subseteq Cycle /\ logged \subseteq Cycle
  /\ \A i \in DOMAIN wire : wire[i] \in Signal
  /\ ui \in [connected : BOOLEAN, status : Status \cup {"offline"}]
  /\ {uiLock, nmLock} \subseteq Task \cup {None}
  /\ turn \subseteq Task \cup {"ksni"}
  /\ refresh \in [at : {"tick", "lock", "calls", "update"}, reply : Status \cup {None}]
  /\ signals \in [at : {"receive", "log", "lock", "notify", "mark", "update"},
                  signal : Signal \cup {None}, lately : BOOLEAN]
  /\ \A i \in DOMAIN asks : asks[i] \in Task
  /\ drawing \in BOOLEAN
  /\ shown \in [tip : TrayStatusKind \cup {"blank"}, item : {"Pause", "Resume"}]
  /\ \A i \in DOMAIN clicks : clicks[i] \in TrayAction
  /\ dialog \in BOOLEAN /\ marker \in BOOLEAN /\ announced \in BOOLEAN
  /\ left \in [{"calls", "faults"} -> Nat]

Init ==
  /\ daemon \in [up : BOOLEAN, paused : {FALSE}, conflict : {FALSE}, cycle : {"none"}]
  /\ cycles = 0 /\ channel = {} /\ completed = {} /\ logged = {} /\ wire = <<>>
  /\ ui = [connected |-> FALSE, status |-> "offline"]
  /\ uiLock = None /\ turn = {} /\ nmLock = None
  /\ refresh = [at |-> "tick", reply |-> None]
  /\ signals = [at |-> "receive", signal |-> None, lately |-> FALSE]
  /\ asks = <<>> /\ drawing = FALSE
  /\ shown = [tip |-> "Disconnected", item |-> "Pause"]
  /\ clicks = <<>> /\ dialog = FALSE
  /\ marker = FALSE /\ announced = FALSE
  /\ left = [calls |-> MaxCalls, faults |-> MaxFaults]

Spend(kind) == left[kind] > 0 /\ left' = [left EXCEPT ![kind] = @ - 1]

Asks(t) == \E i \in DOMAIN asks : asks[i] = t

\* The main task waits for the preferences dialog, and for the update after it.
TakesClicks == ~dialog /\ ~Asks("actions")
IsNext(a) == clicks # <<>> /\ TakesClicks /\ Head(clicks) = a

-----------------------------------------------------------------------------
(* The daemon: the flag, the counter and the signals of its cycles. *)

GetStatus == IF daemon.paused THEN "paused"
             ELSE IF daemon.cycle = "running" THEN "syncing" ELSE "idle"

Emit(n, members) ==
  wire' = wire \o [i \in DOMAIN members |-> [member |-> members[i], cycle |-> n]]

BeginCycle ==
  /\ daemon.up /\ daemon.cycle = "none"
  /\ cycles < MaxCycles
  /\ cycles' = cycles + 1
  /\ daemon' = [daemon EXCEPT !.cycle = "running", !.conflict = FALSE]
  /\ Emit(cycles + 1, <<"SyncStarted", "StatusChanged">>)
  /\ UNCHANGED <<channel, completed, toldVars, drawVars, mainVars, ui, uiLock, turn, refresh, left>>

\* The executor has shelved a local version and sends its name down the channel.
SendConflict ==
  /\ daemon.cycle = "running" /\ ~daemon.conflict
  /\ daemon' = [daemon EXCEPT !.conflict = TRUE]
  /\ channel' = channel \cup {cycles}
  /\ UNCHANGED <<cycles, completed, wire, toldVars, drawVars, mainVars, ui, uiLock, turn, refresh, left>>

\* conflict_task, which outlives a cycle that ends well.
EmitConflict(n) ==
  /\ n \in channel
  /\ channel' = channel \ {n}
  /\ Emit(n, <<"ConflictDetected">>)
  /\ UNCHANGED <<daemon, cycles, completed, toldVars, drawVars, mainVars, ui, uiLock, turn, refresh, left>>

\* Faulty: conflict_task is aborted whatever the cycle's end.
EndCycle_Aborts ==
  /\ daemon.cycle = "running"
  /\ daemon' = [daemon EXCEPT !.cycle = "none"]
  /\ completed' = IF daemon.conflict THEN completed \cup {cycles} ELSE completed
  /\ channel' = channel \ {cycles}
  /\ Emit(cycles, <<"SyncCompleted", "StatusChanged">>)
  /\ UNCHANGED <<cycles, toldVars, drawVars, mainVars, ui, uiLock, turn, refresh, left>>

EndCycle ==
  /\ daemon.cycle = "running"
  /\ daemon' = [daemon EXCEPT !.cycle = "none"]
  /\ completed' = IF daemon.conflict THEN completed \cup {cycles} ELSE completed
  /\ Emit(cycles, <<"SyncCompleted", "StatusChanged">>)
  /\ UNCHANGED <<cycles, channel, toldVars, drawVars, mainVars, ui, uiLock, turn, refresh, left>>

FailCycle ==
  /\ daemon.cycle = "running"
  /\ Spend("faults")
  /\ daemon' = [daemon EXCEPT !.cycle = "failing"]
  /\ Emit(cycles, <<"StatusChanged", "SyncError">>)
  /\ UNCHANGED <<cycles, channel, completed, toldVars, drawVars, mainVars, ui, uiLock, turn, refresh>>

\* conflict_task.abort(): what the channel holds is dropped.
AbortConflicts ==
  /\ daemon.cycle = "failing"
  /\ daemon' = [daemon EXCEPT !.cycle = "none"]
  /\ channel' = channel \ {cycles}
  /\ UNCHANGED <<cycles, completed, wire, toldVars, drawVars, mainVars, ui, uiLock, turn, refresh, left>>

\* PauseSync or ResumeSync of another client, while a cycle runs or not.
OtherClient ==
  /\ daemon.up
  /\ Spend("calls")
  /\ daemon' = [daemon EXCEPT !.paused = ~@]
  /\ UNCHANGED <<cycles, channel, completed, wire, toldVars, drawVars, mainVars, ui, uiLock, turn, refresh>>

\* The flag and the counter are the process's.
DaemonStops ==
  /\ daemon.up
  /\ Spend("faults")
  /\ daemon' = [up |-> FALSE, paused |-> FALSE, conflict |-> FALSE, cycle |-> "none"]
  /\ channel' = {}
  /\ completed' = completed \ channel
  /\ UNCHANGED <<cycles, wire, toldVars, drawVars, mainVars, ui, uiLock, turn, refresh>>

DaemonStarts ==
  /\ ~daemon.up
  /\ Spend("calls")
  /\ daemon' = [daemon EXCEPT !.up = TRUE]
  /\ UNCHANGED <<cycles, channel, completed, wire, toldVars, drawVars, mainVars, ui, uiLock, turn, refresh>>

-----------------------------------------------------------------------------
(* The refresh task: every three seconds. *)

\* Faulty: a call that fails leaves no reply and the old status stands.
AskStatus_FailureIgnored ==
  /\ refresh.at = "tick"
  /\ refresh' = [at |-> IF daemon.up THEN "lock" ELSE "tick",
                 reply |-> IF daemon.up THEN GetStatus ELSE None]
  /\ UNCHANGED <<daemonVars, toldVars, drawVars, mainVars, ui, uiLock, turn, left>>

AskStatus ==
  /\ refresh.at = "tick"
  /\ refresh' = [at |-> "lock", reply |-> IF daemon.up THEN GetStatus ELSE None]
  /\ UNCHANGED <<daemonVars, toldVars, drawVars, mainVars, ui, uiLock, turn, left>>

\* Faulty: a failed call's answer is taken for the status.
SetStatus_Raw ==
  /\ refresh.at = "lock" /\ uiLock = None /\ turn = {}
  /\ ui' = [connected |-> TRUE, status |-> refresh.reply]
  /\ uiLock' = "refresh"
  /\ refresh' = [refresh EXCEPT !.at = "calls"]
  /\ UNCHANGED <<daemonVars, toldVars, mainVars, drawVars, turn, left>>

\* A failed GetStatus leaves the old status, a proxy that cannot be built does not.
SetStatus ==
  /\ refresh.at = "lock" /\ uiLock = None /\ turn = {}
  /\ \/ /\ refresh.reply # None
        /\ ui' = [connected |-> TRUE, status |-> refresh.reply]
        /\ uiLock' = "refresh"
        /\ refresh' = [refresh EXCEPT !.at = "calls"]
        /\ UNCHANGED asks
     \/ /\ refresh.reply = None
        /\ \E status \in {ui.status, "offline"} :
             ui' = [connected |-> FALSE, status |-> status]
        /\ refresh' = [refresh EXCEPT !.at = "update"]
        /\ asks' = Append(asks, "refresh")
        /\ UNCHANGED uiLock
  /\ UNCHANGED <<daemonVars, toldVars, mainVars, drawing, shown, turn, left>>

\* tokio's Mutex is a queue: who waits for it goes before a later request.
Waiting ==
  (IF signals.at = "log" THEN {"signals"} ELSE {})
  \cup (IF drawing THEN {"ksni"} ELSE {})
  \cup (IF IsNext("ActivityLog") THEN {"actions"} ELSE {})

\* Faulty: the lock is kept over the update.
CallsAnswered_KeepsLock ==
  /\ refresh.at = "calls"
  /\ refresh' = [refresh EXCEPT !.at = "update"]
  /\ asks' = Append(asks, "refresh")
  /\ UNCHANGED <<daemonVars, toldVars, mainVars, drawing, shown, ui, uiLock, turn, left>>

\* GetAccounts and GetSyncFolders answer or fail; the lock is held over both.
CallsAnswered ==
  /\ refresh.at = "calls"
  /\ uiLock' = None /\ turn' = Waiting
  /\ refresh' = [refresh EXCEPT !.at = "update"]
  /\ asks' = Append(asks, "refresh")
  /\ UNCHANGED <<daemonVars, toldVars, mainVars, drawing, shown, ui, left>>

RefreshUpdated ==
  /\ refresh.at = "update" /\ ~Asks("refresh")
  /\ refresh' = [at |-> "tick", reply |-> None]
  /\ UNCHANGED <<daemonVars, toldVars, drawVars, mainVars, ui, uiLock, turn, left>>

-----------------------------------------------------------------------------
(* The tray that ksni serves. *)

TrayKind == IF ~ui.connected THEN "Disconnected"
            ELSE IF ui.status = "paused" THEN "Paused"
            ELSE IF ui.status = "syncing" THEN "Syncing" ELSE "Idle"

\* tool_tip does not wait for the lock, menu does.
DrawTip ==
  /\ ~drawing /\ asks # <<>>
  /\ drawing' = TRUE
  /\ shown' = [shown EXCEPT !.tip = IF uiLock = None THEN TrayKind ELSE "blank"]
  /\ UNCHANGED <<daemonVars, toldVars, mainVars, asks, ui, uiLock, turn, refresh, left>>

DrawMenu ==
  /\ drawing /\ uiLock = None
  /\ shown' = [shown EXCEPT !.item = IF ui.status = "paused" THEN "Resume" ELSE "Pause"]
  /\ asks' = Tail(asks)
  /\ drawing' = FALSE
  /\ turn' = turn \ {"ksni"}
  /\ UNCHANGED <<daemonVars, toldVars, mainVars, ui, uiLock, refresh, left>>

-----------------------------------------------------------------------------
(* The signal task and the notifications. *)

\* StatusChanged redraws what the last refresh has stored.
Receive ==
  /\ signals.at = "receive" /\ wire # <<>>
  /\ wire' = Tail(wire)
  /\ LET status == Head(wire).member = "StatusChanged"
     IN  /\ signals' = [signals EXCEPT !.at = IF status THEN "update" ELSE "log",
                                       !.signal = Head(wire)]
         /\ asks' = IF status THEN Append(asks, "signals") ELSE asks
  /\ UNCHANGED <<daemon, cycles, channel, completed, logged, nmLock, marker, announced,
                 drawing, shown, mainVars, ui, uiLock, turn, refresh, left>>

Goes(at) == signals' = [signals EXCEPT !.at = at]
Done == signals' = [signals EXCEPT !.at = "receive", !.signal = None]

SignalsUpdated ==
  /\ signals.at = "update" /\ ~Asks("signals")
  /\ Done
  /\ UNCHANGED <<daemonVars, logged, nmLock, marker, announced, drawVars, mainVars,
                 ui, uiLock, turn, refresh, left>>

PushActivity ==
  /\ signals.at = "log" /\ uiLock = None
  /\ logged' = IF signals.signal.member = "ConflictDetected"
               THEN logged \cup {signals.signal.cycle} ELSE logged
  /\ Goes("lock")
  /\ turn' = turn \ {"signals"}
  /\ UNCHANGED <<daemonVars, nmLock, marker, announced, drawVars, mainVars,
                 ui, uiLock, refresh, left>>

\* The first sync is announced once, an error not again within five minutes.
Silent ==
  \/ signals.signal.member = "SyncStarted" /\ marker
  \/ signals.signal.member = "SyncError" /\ signals.lately

LockNotifications ==
  /\ signals.at = "lock" /\ nmLock = None
  /\ \/ Silent /\ Done /\ UNCHANGED nmLock
     \/ /\ ~Silent
        /\ nmLock' = "signals"
        /\ signals' = [signals EXCEPT !.at = "notify",
                         !.lately = @ \/ signals.signal.member = "SyncError"]
  /\ UNCHANGED <<daemonVars, logged, marker, announced, drawVars, mainVars,
                 ui, uiLock, turn, refresh, left>>

ErrorWindowEnds ==
  /\ signals.lately
  /\ signals' = [signals EXCEPT !.lately = FALSE]
  /\ UNCHANGED <<daemonVars, logged, nmLock, marker, announced, drawVars, mainVars,
                 ui, uiLock, turn, refresh, left>>

\* Faulty: the marker is left whether or not the server took the notification.
Notify_MarksFailure ==
  /\ signals.at = "notify"
  /\ \/ announced' = (announced \/ signals.signal.member = "SyncStarted") /\ UNCHANGED left
     \/ Spend("faults") /\ UNCHANGED announced
  /\ IF signals.signal.member = "SyncStarted"
     THEN Goes("mark") /\ UNCHANGED nmLock
     ELSE Done /\ nmLock' = None
  /\ UNCHANGED <<daemonVars, logged, marker, drawVars, mainVars, ui, uiLock, turn, refresh>>

\* The notification server answers or fails.
Notify ==
  /\ signals.at = "notify"
  /\ \/ /\ signals.signal.member = "SyncStarted"
        /\ announced' = TRUE
        /\ Goes("mark")
        /\ UNCHANGED <<nmLock, left>>
     \/ /\ signals.signal.member # "SyncStarted"
        /\ Done
        /\ nmLock' = None
        /\ UNCHANGED <<announced, left>>
     \/ /\ Spend("faults")
        /\ Done
        /\ nmLock' = None
        /\ UNCHANGED announced
  /\ UNCHANGED <<daemonVars, logged, marker, drawVars, mainVars, ui, uiLock, turn, refresh>>

\* The marker file, unless it cannot be written.
Mark ==
  /\ signals.at = "mark"
  /\ \/ marker' = TRUE /\ UNCHANGED left
     \/ Spend("faults") /\ UNCHANGED marker
  /\ Done
  /\ nmLock' = None
  /\ UNCHANGED <<daemonVars, logged, announced, drawVars, mainVars, ui, uiLock, turn, refresh>>

\* The quota task notifies too.
QuotaLocks ==
  /\ nmLock = None
  /\ Spend("calls")
  /\ nmLock' = "quota"
  /\ UNCHANGED <<daemonVars, logged, signals, marker, announced, drawVars, mainVars,
                 ui, uiLock, turn, refresh>>

QuotaNotified ==
  /\ nmLock = "quota"
  /\ nmLock' = None
  /\ UNCHANGED <<daemonVars, logged, signals, marker, announced, drawVars, mainVars,
                 ui, uiLock, turn, refresh, left>>

-----------------------------------------------------------------------------
(* Clicks and the main task. *)

Click ==
  /\ Spend("calls")
  /\ \E a \in {shown.item, "ActivityLog", "Preferences", "Quit"} : clicks' = Append(clicks, a)
  /\ UNCHANGED <<daemonVars, toldVars, drawVars, dialog, ui, uiLock, turn, refresh>>

Takes(a) == IsNext(a) /\ clicks' = Tail(clicks)

\* A call to a daemon that is down fails and is forgotten.
PauseOrResume ==
  /\ \E a \in {"Pause", "Resume"} :
       /\ Takes(a)
       /\ daemon' = IF daemon.up THEN [daemon EXCEPT !.paused = (a = "Pause")] ELSE daemon
  /\ UNCHANGED <<cycles, channel, completed, wire, toldVars, drawVars, dialog,
                 ui, uiLock, turn, refresh, left>>

ShowActivity ==
  /\ Takes("ActivityLog") /\ uiLock = None
  /\ turn' = turn \ {"actions"}
  /\ UNCHANGED <<daemonVars, toldVars, drawVars, dialog, ui, uiLock, refresh, left>>

\* The dialog is waited for: the main task takes no other action meanwhile.
OpenPreferences ==
  /\ Takes("Preferences")
  /\ dialog' = TRUE
  /\ UNCHANGED <<daemonVars, toldVars, drawVars, ui, uiLock, turn, refresh, left>>

ClosePreferences ==
  /\ dialog
  /\ dialog' = FALSE
  /\ asks' = Append(asks, "actions")
  /\ UNCHANGED <<daemonVars, toldVars, drawing, shown, clicks, ui, uiLock, turn, refresh, left>>

InHand(n) ==
  LET conflict == [member |-> "ConflictDetected", cycle |-> n]
  IN  signals.signal = conflict \/ \E i \in DOMAIN wire : wire[i] = conflict

\* The process ends at once, whatever its tasks are doing, and is started again.
Quit ==
  /\ IsNext("Quit")
  /\ clicks' = <<>> /\ dialog' = FALSE
  /\ wire' = <<>>
  /\ logged' = logged \cup {n \in Cycle : InHand(n)}
  /\ ui' = [connected |-> FALSE, status |-> "offline"]
  /\ uiLock' = None /\ turn' = {} /\ nmLock' = None
  /\ refresh' = [at |-> "tick", reply |-> None]
  /\ signals' = [at |-> "receive", signal |-> None, lately |-> FALSE]
  /\ asks' = <<>> /\ drawing' = FALSE
  /\ shown' = [tip |-> "Disconnected", item |-> "Pause"]
  /\ UNCHANGED <<daemon, cycles, channel, completed, marker, announced, left>>

-----------------------------------------------------------------------------
RefreshTask == AskStatus \/ SetStatus \/ CallsAnswered \/ RefreshUpdated
Ksni == DrawTip \/ DrawMenu
SignalTask == Receive \/ SignalsUpdated \/ PushActivity \/ LockNotifications \/ Notify \/ Mark
MainTask == PauseOrResume \/ ShowActivity \/ OpenPreferences \/ Quit
ConflictTask == \E n \in Cycle : EmitConflict(n)

Next ==
  \/ BeginCycle \/ SendConflict \/ EndCycle \/ FailCycle \/ AbortConflicts \/ ConflictTask
  \/ OtherClient \/ DaemonStops \/ DaemonStarts
  \/ RefreshTask \/ Ksni \/ SignalTask \/ ErrorWindowEnds
  \/ QuotaLocks \/ QuotaNotified
  \/ Click \/ MainTask \/ ClosePreferences

(* The tasks run, and every call on the bus is answered or fails. Nobody has  *)
(* to click, to close the dialog, to begin a cycle or to end one.             *)
Spec ==
  /\ Init /\ [][Next]_vars
  /\ WF_vars(RefreshTask) /\ WF_vars(Ksni) /\ WF_vars(SignalTask) /\ WF_vars(MainTask)
  /\ WF_vars(ConflictTask) /\ WF_vars(QuotaNotified)

-----------------------------------------------------------------------------
(* The marker is left only when the first sync has been announced: a server   *)
(* that fails, or a tray that quits in between, makes it be announced again   *)
(* and never not at all (notifications.rs, initial_sync_started).             *)
AnnouncementNotLost == marker => announced

(* The status the daemon has, as a tray that knew it would show it. *)
KindOf == IF ~daemon.up THEN "Disconnected"
          ELSE CASE GetStatus = "paused" -> "Paused" [] GetStatus = "syncing" -> "Syncing"
                 [] GetStatus = "idle" -> "Idle"

(* A status that stays is shown in the end, in the tooltip and by the menu's  *)
(* item: no stale answer of a slow call overwrites it for good and no blank   *)
(* tooltip stays (TODO.md:213).                                               *)
TrayFollows ==
  \A kind \in TrayStatusKind :
    <>[](KindOf = kind) =>
      <>[](/\ shown.tip = kind
           /\ kind # "Disconnected" =>
                shown.item = IF kind = "Paused" THEN "Resume" ELSE "Pause")

(* The locks of the state and of the notifications, and the waiting for a     *)
(* redrawing that itself waits for a lock, never stop a task: the refresh     *)
(* comes round, every signal is dealt with, and clicks are taken unless the   *)
(* preferences are open.                                                      *)
TrayResponds ==
  /\ []<>(refresh.at = "tick")
  /\ []<>(wire = <<>>)
  /\ []<>(clicks = <<>> \/ dialog)

(* The user learns of every local version that a cycle shelved, if the cycle  *)
(* and the daemon end well: the conflict's signal may come after the cycle's  *)
(* end but is not dropped (TODO.md:145).                                      *)
ConflictReported == \A n \in Cycle : n \in completed ~> n \in logged \/ n \notin completed
=============================================================================
