----------------------------- MODULE Lifecycle -----------------------------
(* The processes of gds-daemon: how they come up, own the bus name, write and *)
(* remove the PID file and go down (gds-daemon/src/main.rs), and the commands *)
(* of gdrivesync that start, stop and restart them                            *)
(* (gds-cli/src/{daemon_ctl,run}.rs), with or without the systemd user unit   *)
(* of packaging/systemd. The session bus and systemd are external.            *)
EXTENDS Naturals, FiniteSets

CONSTANTS
  None,         \* no process, no command
  Process,      \* process ids; the kernel gives the id of a dead process to a new one
  Cli,          \* command lines that may run at the same time
  MaxCommands,  \* bound on commands and daemons started by hand
  MaxFaults     \* bound on faults

ASSUME LifecycleAssumption ==
  /\ None \notin Process /\ None \notin Nat
  /\ MaxCommands \in Nat /\ MaxFaults \in Nat

VARIABLES
  installed,    \* whether the unit is installed; never changes
  byHand,       \* whether users also run gds-daemon themselves; never changes
  unit,         \* the unit: whether it is to run, and its main process
  daemon,       \* each process id: the daemon that has it
  bus,          \* the owner of org.kde.GDriveSync
  pidFile,      \* what daemon.pid names
  credentials,  \* the version of the OAuth credentials in the database
  cli,          \* the command each command line executes
  before,       \* history: the daemon on the bus when that command began, while it lives
  intent,       \* history: "up" after a command that found a daemon and until the next stop,
                \* "lost" once a scheduler has panicked
  left          \* what is left of the bounds

vars == <<installed, byHand, unit, daemon, bus, pidFile, credentials, cli, before, intent, left>>

Stage == {"none", "boot", "configured", "named", "listed", "serving", "stopping", "leaving"}
Kind == {"unit", "spawned", "foreground"}
Command == {"start", "stop", "restart", "configure", "accountsAdd"}
At == {"save", "look", "stop", "stopping", "start", "wait"}

DaemonState == [stage : Stage, kind : Kind, creds : Nat \cup {None}, pid : BOOLEAN]
CommandState == [cmd : Command, at : At, saved : Nat]

TypeOK ==
  /\ installed \in BOOLEAN /\ byHand \in BOOLEAN
  /\ unit \in [wanted : BOOLEAN, main : Process \cup {None}]
  /\ daemon \in [Process -> DaemonState]
  /\ bus \in Process \cup {None}
  /\ pidFile \in Process \cup {None}
  /\ credentials \in Nat
  /\ cli \in [Cli -> CommandState \cup {None}]
  /\ before \in [Cli -> Process \cup {None}]
  /\ intent \in {"up", "down", "lost"}
  /\ left \in [{"commands", "faults"} -> Nat]

Nobody == [stage |-> "none", kind |-> "spawned", creds |-> None, pid |-> FALSE]

Init ==
  /\ installed \in BOOLEAN /\ byHand \in BOOLEAN
  /\ unit = [wanted |-> FALSE, main |-> None]
  /\ daemon = [i \in Process |-> Nobody]
  /\ bus = None
  /\ pidFile = None
  /\ credentials = 0
  /\ cli = [c \in Cli |-> None]
  /\ before = [c \in Cli |-> None]
  /\ intent = "down"
  /\ left = [commands |-> MaxCommands, faults |-> MaxFaults]

Spend(kind) == /\ left[kind] > 0
               /\ left' = [left EXCEPT ![kind] = @ - 1]

--------------------------------------------------------------------------
(* Processes. *)

Born(i, kind) ==
  /\ daemon[i].stage = "none"
  /\ daemon' = [daemon EXCEPT ![i] = [Nobody EXCEPT !.stage = "boot", !.kind = kind]]
  /\ UNCHANGED <<bus, before>>

(* A process ends: its connection closes and the name is free. systemd takes  *)
(* an end by exit code 0 or by SIGTERM for a success, after which on-failure  *)
(* does not start the unit again.                                             *)
Gone(i, failed) ==
  /\ daemon' = [daemon EXCEPT ![i] = Nobody]
  /\ bus' = IF bus = i THEN None ELSE bus
  /\ before' = [c \in Cli |-> IF before[c] = i THEN None ELSE before[c]]
  /\ unit' = IF unit.main = i
             THEN [wanted |-> unit.wanted /\ failed, main |-> None] ELSE unit

Enters(i, stage) == daemon' = [daemon EXCEPT ![i].stage = stage]

(* SIGTERM. Until the handler is installed it kills the process; once it is,  *)
(* a second signal is ignored. For systemd the unit is then on its way down.  *)
Terminate(i) ==
  \/ daemon[i].stage \in {"boot", "configured", "named", "listed"} /\ Gone(i, FALSE)
  \/ /\ \/ daemon[i].stage = "serving" /\ Enters(i, "stopping")
        \/ daemon[i].stage \in {"none", "stopping", "leaving"} /\ UNCHANGED daemon
     /\ unit' = IF unit.main = i THEN [wanted |-> FALSE, main |-> i] ELSE unit
     /\ UNCHANGED <<bus, before>>

--------------------------------------------------------------------------
(* main of gds-daemon. *)

(* An error of the read leaves the daemon without credentials. *)
ReadCredentials(i) ==
  /\ daemon[i].stage = "boot"
  /\ \/ /\ daemon' = [daemon EXCEPT ![i].stage = "configured", ![i].creds = credentials]
        /\ UNCHANGED left
     \/ Spend("faults") /\ Enters(i, "configured")
  /\ UNCHANGED <<installed, byHand, unit, bus, pidFile, credentials, cli, before, intent>>

\* Faulty: the daemon goes on when the name is taken.
RequestName_Continues(i) ==
  /\ daemon[i].stage = "configured"
  /\ bus' = IF bus = None THEN i ELSE bus
  /\ Enters(i, "named")
  /\ UNCHANGED <<installed, byHand, unit, before, pidFile, credentials, cli, intent, left>>

(* A name that is taken ends the process with an error; scheduler and watchers *)
(* are started after it only.                                                 *)
RequestName(i) ==
  /\ daemon[i].stage = "configured"
  /\ \/ /\ bus = None
        /\ bus' = i
        /\ Enters(i, "named")
        /\ UNCHANGED <<unit, before>>
     \/ bus # None /\ Gone(i, TRUE)
  /\ UNCHANGED <<installed, byHand, pidFile, credentials, cli, intent, left>>

\* Faulty: a PID file that cannot be written ends the daemon.
WritePid_FailureEnds(i) ==
  /\ daemon[i].stage = "named"
  /\ \/ /\ pidFile' = IF daemon[i].kind = "foreground" THEN pidFile ELSE i
        /\ daemon' = [daemon EXCEPT ![i].stage = "listed",
                                    ![i].pid = daemon[i].kind # "foreground"]
        /\ UNCHANGED <<bus, before, unit, left>>
     \/ Spend("faults") /\ Gone(i, FALSE) /\ UNCHANGED pidFile
  /\ UNCHANGED <<installed, byHand, credentials, cli, intent>>

WritePid(i) ==
  /\ daemon[i].stage = "named"
  /\ \/ /\ daemon[i].kind # "foreground"
        /\ pidFile' = i
        /\ daemon' = [daemon EXCEPT ![i].stage = "listed", ![i].pid = TRUE]
        /\ UNCHANGED left
     \/ daemon[i].kind = "foreground" /\ Enters(i, "listed") /\ UNCHANGED <<pidFile, left>>
     \/ Spend("faults") /\ Enters(i, "listed") /\ UNCHANGED pidFile
  /\ UNCHANGED <<installed, byHand, unit, bus, credentials, cli, before, intent>>

InstallHandler(i) ==
  /\ daemon[i].stage = "listed"
  /\ Enters(i, "serving")
  /\ UNCHANGED <<installed, byHand, unit, bus, pidFile, credentials, cli, before, intent, left>>

(* The scheduler's task ends by a panic: select takes it for a shutdown, the   *)
(* exit code is 0 and systemd does not start the unit again.                  *)
SchedulerEnds(i) ==
  /\ daemon[i].stage = "serving"
  /\ Spend("faults")
  /\ Enters(i, "stopping")
  /\ intent' = "lost"
  /\ UNCHANGED <<installed, byHand, unit, bus, pidFile, credentials, cli, before>>

\* Faulty: a file that is missing is waited for.
RemovePid_WaitsForFile(i) ==
  /\ daemon[i].stage = "stopping" /\ pidFile # None
  /\ pidFile' = None
  /\ Enters(i, "leaving")
  /\ UNCHANGED <<installed, byHand, unit, bus, credentials, cli, before, intent, left>>

(* Whatever the file names is removed. *)
RemovePid(i) ==
  /\ daemon[i].stage = "stopping"
  /\ pidFile' = IF daemon[i].kind = "foreground" THEN pidFile ELSE None
  /\ Enters(i, "leaving")
  /\ UNCHANGED <<installed, byHand, unit, bus, credentials, cli, before, intent, left>>

Exit(i) ==
  /\ daemon[i].stage = "leaving"
  /\ Gone(i, FALSE)
  /\ UNCHANGED <<installed, byHand, pidFile, credentials, cli, intent, left>>

Crash(i) ==
  /\ daemon[i].stage # "none"
  /\ Spend("faults")
  /\ Gone(i, TRUE)
  /\ UNCHANGED <<installed, byHand, pidFile, credentials, cli, intent>>

Daemon(i) ==
  \/ ReadCredentials(i) \/ RequestName(i) \/ WritePid(i) \/ InstallHandler(i)
  \/ RemovePid(i) \/ Exit(i)

--------------------------------------------------------------------------
(* systemd and users. *)

Deactivating == ~unit.wanted /\ unit.main # None

(* Restart=on-failure: the unit failed and RestartSec has passed. *)
RestartUnit ==
  /\ unit.wanted /\ unit.main = None
  /\ \E i \in Process : Born(i, "unit") /\ unit' = [unit EXCEPT !.main = i]
  /\ UNCHANGED <<installed, byHand, pidFile, credentials, cli, intent, left>>

StartByHand ==
  /\ byHand
  /\ Spend("commands")
  /\ \E i \in Process, kind \in {"spawned", "foreground"} : Born(i, kind)
  /\ UNCHANGED <<installed, byHand, unit, pidFile, credentials, cli, intent>>

--------------------------------------------------------------------------
(* gdrivesync. *)

\* Faulty: restart only starts.
FirstStep_StartOnly(cmd) ==
  CASE cmd = "stop" -> "stop"
    [] cmd \in {"start", "restart"} -> "start"
    [] cmd = "configure" -> "save"
    [] cmd = "accountsAdd" -> "look"

FirstStep(cmd) ==
  CASE cmd \in {"stop", "restart"} -> "stop"
    [] cmd = "start" -> "start"
    [] cmd = "configure" -> "save"
    [] cmd = "accountsAdd" -> "look"

Goes(c, at) == cli' = [cli EXCEPT ![c].at = at]
Returns(c) == cli' = [cli EXCEPT ![c] = None]
IsAt(c, at) == cli[c] # None /\ cli[c].at = at

Begin(c, cmd) ==
  /\ cli[c] = None
  /\ Spend("commands")
  /\ cli' = [cli EXCEPT ![c] = [cmd |-> cmd, at |-> FirstStep(cmd), saved |-> 0]]
  /\ before' = [before EXCEPT ![c] = bus]
  /\ intent' = IF cmd \in {"stop", "restart", "configure"} THEN "down" ELSE intent
  /\ UNCHANGED <<installed, byHand, unit, daemon, bus, pidFile, credentials>>

(* configure writes the database itself. *)
SaveCredentials(c) ==
  /\ IsAt(c, "save")
  /\ credentials' = credentials + 1
  /\ cli' = [cli EXCEPT ![c].at = "look", ![c].saved = credentials + 1]
  /\ UNCHANGED <<installed, byHand, unit, daemon, bus, pidFile, before, intent, left>>

\* Faulty: configure starts a daemon without stopping the one it found.
Look_NoStop(c) ==
  /\ IsAt(c, "look")
  /\ \/ cli[c].cmd = "configure" /\ bus # None /\ Goes(c, "start")
     \/ cli[c].cmd = "accountsAdd" /\ bus = None /\ Goes(c, "start")
     \/ (cli[c].cmd = "configure" <=> bus = None) /\ Returns(c)
  /\ UNCHANGED <<installed, byHand, unit, daemon, bus, pidFile, credentials, before, intent, left>>

(* configure restarts the daemon it finds, accounts add starts one if there is none. *)
Look(c) ==
  /\ IsAt(c, "look")
  /\ \/ cli[c].cmd = "configure" /\ bus # None /\ Goes(c, "stop")
     \/ cli[c].cmd = "accountsAdd" /\ bus = None /\ Goes(c, "start")
     \/ (cli[c].cmd = "configure" <=> bus = None) /\ Returns(c)
  /\ UNCHANGED <<installed, byHand, unit, daemon, bus, pidFile, credentials, before, intent, left>>

AfterStop(c) == IF cli[c].cmd = "stop" THEN Returns(c) ELSE Goes(c, "start")

(* systemctl stop: a SIGTERM to the main process, if there is one. *)
StopUnit(c) ==
  /\ IsAt(c, "stop")
  /\ installed
  /\ \/ unit.main # None /\ Terminate(unit.main)
     \/ /\ unit.main = None
        /\ unit' = [wanted |-> FALSE, main |-> None]
        /\ UNCHANGED <<daemon, bus, before>>
  /\ Goes(c, "stopping")
  /\ UNCHANGED <<installed, byHand, pidFile, credentials, intent, left>>

(* systemctl returns when the unit has stopped. *)
UnitStopped(c) ==
  /\ IsAt(c, "stopping")
  /\ ~Deactivating
  /\ AfterStop(c)
  /\ UNCHANGED <<installed, byHand, unit, daemon, bus, pidFile, credentials, before, intent, left>>

(* Without the unit: a SIGTERM to what the PID file names, and no waiting. *)
StopByPid(c) ==
  /\ IsAt(c, "stop")
  /\ ~installed
  /\ \/ pidFile = None /\ Returns(c) /\ UNCHANGED <<unit, daemon, bus, before>>
     \/ pidFile # None /\ Terminate(pidFile) /\ AfterStop(c)
  /\ UNCHANGED <<installed, byHand, pidFile, credentials, intent, left>>

(* systemctl start: nothing to do for a unit that runs; waits for one that stops. *)
StartUnit(c) ==
  /\ IsAt(c, "start")
  /\ installed
  /\ ~Deactivating
  /\ \/ unit.main # None /\ UNCHANGED <<unit, daemon, bus, before>>
     \/ /\ unit.main = None
        /\ \E i \in Process : Born(i, "unit") /\ unit' = [wanted |-> TRUE, main |-> i]
  /\ Goes(c, "wait")
  /\ UNCHANGED <<installed, byHand, pidFile, credentials, intent, left>>

SpawnDaemon(c) ==
  /\ IsAt(c, "start")
  /\ ~installed
  /\ \E i \in Process : Born(i, "spawned")
  /\ Goes(c, "wait")
  /\ UNCHANGED <<installed, byHand, unit, pidFile, credentials, intent, left>>

(* wait_for_bus: whoever owns the name will do. *)
SeeDaemon(c) ==
  /\ IsAt(c, "wait")
  /\ bus # None
  /\ Returns(c)
  /\ intent' = IF intent = "down" /\ \A d \in Cli \ {c} : cli[d] = None
               THEN "up" ELSE intent
  /\ UNCHANGED <<installed, byHand, unit, daemon, bus, pidFile, credentials, before, left>>

GiveUp(c) ==
  /\ IsAt(c, "wait")
  /\ bus = None
  /\ Returns(c)
  /\ UNCHANGED <<installed, byHand, unit, daemon, bus, pidFile, credentials, before, intent, left>>

Gdrivesync(c) ==
  \/ SaveCredentials(c) \/ Look(c) \/ StopUnit(c) \/ UnitStopped(c) \/ StopByPid(c)
  \/ StartUnit(c) \/ SpawnDaemon(c) \/ SeeDaemon(c) \/ GiveUp(c)

--------------------------------------------------------------------------
Next ==
  \/ \E i \in Process : Daemon(i) \/ SchedulerEnds(i) \/ Crash(i)
  \/ RestartUnit
  \/ StartByHand
  \/ \E c \in Cli : Gdrivesync(c) \/ \E cmd \in Command : Begin(c, cmd)

Spec == Init /\ [][Next]_vars

(* Processes run, systemd starts a failed unit again, a command line goes on; *)
(* nobody has to give a command or to fail.                                   *)
FairSpec ==
  /\ Spec
  /\ \A i \in Process : WF_vars(Daemon(i))
  /\ WF_vars(RestartUnit)
  /\ \A c \in Cli : WF_vars(Gdrivesync(c))

--------------------------------------------------------------------------
(* While a background daemon serves, the PID file it wrote names it: no other *)
(* daemon that comes or goes overwrites it or takes it away, so that          *)
(* "gdrivesync daemon stop" reaches it (main.rs: name before PID file, PID    *)
(* file removed before the name is released).                                 *)
PidFileNamesDaemon ==
  \A i \in Process :
    daemon[i].pid /\ daemon[i].stage \in {"listed", "serving", "stopping"} => pidFile = i

(* When restart or configure find a daemon on the bus at their end and report *)
(* it as restarted, it is not the one they were to replace.                   *)
RestartReplaces ==
  \A c \in Cli : IsAt(c, "wait") /\ cli[c].cmd \in {"restart", "configure"}
                 => before[c] = None \/ before[c] # bus

(* The unit is installed and the only way daemons are started. *)
Managed == installed /\ ~byHand

(* systemctl stop waits for the daemon to end: with the unit a restart always *)
(* replaces it.                                                               *)
UnitRestartReplaces == Managed => RestartReplaces

(* The daemon that configure reports as restarted has the credentials that    *)
(* configure saved, or newer ones, or could not read any.                     *)
CredentialsServed ==
  Managed =>
    \A c \in Cli : IsAt(c, "wait") /\ cli[c].cmd = "configure" /\ bus # None
                   => daemon[bus].creds = None \/ daemon[bus].creds >= cli[c].saved

(* With the unit, a daemon that was wanted and once seen stays, or comes back *)
(* after a crash.                                                             *)
ServedAfterStart == <>[](Managed /\ intent = "up" => bus # None)

(* Every command returns, a stop and a restart included. *)
CommandReturns == \A c \in Cli : cli[c] # None ~> cli[c] = None
=============================================================================
