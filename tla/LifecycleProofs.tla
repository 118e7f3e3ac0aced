-------------------------- MODULE LifecycleProofs --------------------------
(* Proofs about Lifecycle for any number of processes and command lines: its *)
(* types, that the PID file names the daemon that wrote it, and that with the *)
(* unit a restart replaces the daemon and serves the credentials it saved.    *)
EXTENDS Lifecycle, TLAPS

Owning == {"named", "listed", "serving", "stopping", "leaving"}

(* A daemon past its name owns it, and only such a daemon does. *)
OwnerInv == \A i \in Process : daemon[i].stage \in Owning <=> bus = i

(* A PID is written after the name is owned. *)
PidInv ==
  /\ \A i \in Process : daemon[i].pid => daemon[i].stage \in Owning \ {"named"}
  /\ PidFileNamesDaemon

(* What a command remembers: a daemon that lives, credentials that were saved. *)
MemoryInv ==
  \A c \in Cli : /\ before[c] # None => daemon[before[c]].stage # "none"
                 /\ cli[c] # None => cli[c].saved <= credentials

(* No daemon has credentials older than those the command saved. *)
FreshFor(c) ==
  \A i \in Process : \/ daemon[i].stage = "none"
                     \/ daemon[i].creds = None
                     \/ daemon[i].creds >= cli[c].saved

Replaced(c) == before[c] = None /\ FreshFor(c)

(* With the unit alone: every daemon is its main process, and once systemctl  *)
(* stop has returned to a command, no daemon is left that this command was to *)
(* replace.                                                                   *)
ManagedInv ==
  Managed =>
    /\ \A i \in Process : daemon[i].stage # "none" <=> unit.main = i
    /\ \A c \in Cli :
         cli[c] # None /\ cli[c].cmd \in {"restart", "configure"} =>
           /\ cli[c].at = "stopping" => Deactivating \/ Replaced(c)
           /\ cli[c].at \in {"start", "wait"} => Replaced(c)

-----------------------------------------------------------------------------
(* Types. *)

LEMMA NobodyOK == Nobody \in DaemonState
BY DEF Nobody, DaemonState, Stage, Kind

LEMMA TypeInit == Init => TypeOK
<1> SUFFICES ASSUME Init PROVE TypeOK
  OBVIOUS
<1>1. daemon \in [Process -> DaemonState]
  BY NobodyOK DEF Init
<1>2. QED
  BY <1>1, LifecycleAssumption DEF Init, TypeOK

LEMMA SpendOK ==
  ASSUME TypeOK, NEW kind \in {"commands", "faults"}, Spend(kind)
  PROVE  left' \in [{"commands", "faults"} -> Nat]
BY DEF TypeOK, Spend

LEMMA EntersOK ==
  ASSUME TypeOK, NEW i \in Process, NEW stage \in Stage, Enters(i, stage)
  PROVE  daemon' \in [Process -> DaemonState]
BY DEF TypeOK, Enters, DaemonState

LEMMA BornOK ==
  ASSUME TypeOK, NEW i \in Process, NEW kind \in Kind, Born(i, kind)
  PROVE  daemon' \in [Process -> DaemonState]
<1>1. [Nobody EXCEPT !.stage = "boot", !.kind = kind] \in DaemonState
  BY NobodyOK DEF DaemonState, Stage
<1>2. QED
  BY <1>1 DEF Born, TypeOK

LEMMA GoneOK ==
  ASSUME TypeOK, NEW i \in Process, NEW failed \in BOOLEAN, Gone(i, failed)
  PROVE  /\ daemon' \in [Process -> DaemonState]
         /\ bus' \in Process \cup {None}
         /\ before' \in [Cli -> Process \cup {None}]
         /\ unit' \in [wanted : BOOLEAN, main : Process \cup {None}]
BY NobodyOK DEF Gone, TypeOK

LEMMA TerminateOK ==
  ASSUME TypeOK, NEW i \in Process, Terminate(i)
  PROVE  /\ daemon' \in [Process -> DaemonState]
         /\ bus' \in Process \cup {None}
         /\ before' \in [Cli -> Process \cup {None}]
         /\ unit' \in [wanted : BOOLEAN, main : Process \cup {None}]
<1>1. CASE daemon[i].stage \in {"boot", "configured", "named", "listed"}
  <2>1. Gone(i, FALSE)
    BY <1>1 DEF Terminate
  <2>2. QED
    BY <2>1, GoneOK
<1>2. CASE daemon[i].stage \notin {"boot", "configured", "named", "listed"}
  <2>1. /\ Enters(i, "stopping") \/ UNCHANGED daemon
        /\ unit' = IF unit.main = i THEN [wanted |-> FALSE, main |-> i] ELSE unit
        /\ UNCHANGED <<bus, before>>
    BY <1>2 DEF Terminate
  <2>2. daemon' \in [Process -> DaemonState]
    BY <2>1, EntersOK DEF TypeOK, Stage
  <2>3. QED
    BY <2>1, <2>2 DEF TypeOK
<1>3. QED
  BY <1>1, <1>2

LEMMA CliOK ==
  ASSUME TypeOK, NEW c \in Cli
  PROVE  /\ Returns(c) => cli' \in [Cli -> CommandState \cup {None}]
         /\ \A at, to \in At : IsAt(c, at) /\ Goes(c, to)
                               => cli' \in [Cli -> CommandState \cup {None}]
         /\ IsAt(c, "stopping") /\ AfterStop(c) => cli' \in [Cli -> CommandState \cup {None}]
         /\ IsAt(c, "stop") /\ AfterStop(c) => cli' \in [Cli -> CommandState \cup {None}]
<1>1. Returns(c) => cli' \in [Cli -> CommandState \cup {None}]
  BY DEF TypeOK, Returns
<1>2. \A at, to \in At : IsAt(c, at) /\ Goes(c, to)
                           => cli' \in [Cli -> CommandState \cup {None}]
  BY DEF TypeOK, Goes, IsAt, CommandState
<1>3. QED
  BY <1>1, <1>2 DEF AfterStop, At

LEMMA TypeDaemon ==
  ASSUME TypeOK, NEW i \in Process, Daemon(i) \/ SchedulerEnds(i) \/ Crash(i)
  PROVE  TypeOK'
<1>1. CASE ReadCredentials(i)
  <2>1. daemon' \in [Process -> DaemonState]
    BY <1>1, EntersOK DEF ReadCredentials, TypeOK, DaemonState, Stage
  <2>2. QED
    BY <1>1, <2>1, SpendOK DEF ReadCredentials, TypeOK
<1>2. CASE RequestName(i)
  <2>1. CASE bus = None
    BY <1>2, <2>1, EntersOK DEF RequestName, TypeOK, Stage
  <2>2. CASE bus # None
    BY <1>2, <2>2, GoneOK DEF RequestName, TypeOK
  <2>3. QED
    BY <2>1, <2>2
<1>3. CASE WritePid(i)
  <2>1. daemon' \in [Process -> DaemonState]
    BY <1>3, EntersOK DEF WritePid, TypeOK, DaemonState, Stage
  <2>2. QED
    BY <1>3, <2>1, SpendOK DEF WritePid, TypeOK
<1>4. CASE InstallHandler(i)
  BY <1>4, EntersOK DEF InstallHandler, TypeOK, Stage
<1>5. CASE RemovePid(i)
  BY <1>5, EntersOK DEF RemovePid, TypeOK, Stage
<1>6. CASE Exit(i)
  BY <1>6, GoneOK DEF Exit, TypeOK
<1>7. CASE SchedulerEnds(i)
  BY <1>7, EntersOK, SpendOK DEF SchedulerEnds, TypeOK, Stage
<1>8. CASE Crash(i)
  BY <1>8, GoneOK, SpendOK DEF Crash, TypeOK
<1>9. QED
  BY <1>1, <1>2, <1>3, <1>4, <1>5, <1>6, <1>7, <1>8 DEF Daemon

LEMMA TypeStarts ==
  ASSUME TypeOK, RestartUnit \/ StartByHand
  PROVE  TypeOK'
<1>1. CASE RestartUnit
  <2>1. PICK i \in Process : Born(i, "unit") /\ unit' = [unit EXCEPT !.main = i]
    BY <1>1 DEF RestartUnit
  <2>2. daemon' \in [Process -> DaemonState]
    BY <2>1, BornOK DEF Kind
  <2>3. QED
    BY <1>1, <2>1, <2>2 DEF RestartUnit, Born, TypeOK
<1>2. CASE StartByHand
  <2>1. PICK i \in Process, kind \in {"spawned", "foreground"} : Born(i, kind)
    BY <1>2 DEF StartByHand
  <2>2. daemon' \in [Process -> DaemonState]
    BY <2>1, BornOK DEF Kind
  <2>3. QED
    BY <1>2, <2>1, <2>2, SpendOK DEF StartByHand, Born, TypeOK
<1>3. QED
  BY <1>1, <1>2

LEMMA TypeCommands ==
  ASSUME TypeOK, NEW c \in Cli, Gdrivesync(c) \/ \E cmd \in Command : Begin(c, cmd)
  PROVE  TypeOK'
<1>1. ASSUME NEW cmd \in Command, Begin(c, cmd)
      PROVE  TypeOK'
  <2>1. FirstStep(cmd) \in At
    BY DEF FirstStep, Command, At
  <2>2. [cmd |-> cmd, at |-> FirstStep(cmd), saved |-> 0] \in CommandState
    BY <2>1 DEF CommandState
  <2>3. cli' \in [Cli -> CommandState \cup {None}]
    BY <1>1, <2>2 DEF Begin, TypeOK
  <2>4. QED
    BY <1>1, <2>3, SpendOK DEF Begin, TypeOK
<1>2. CASE SaveCredentials(c)
  <2>1. credentials + 1 \in Nat /\ cli[c] \in CommandState
    BY <1>2 DEF SaveCredentials, TypeOK, IsAt
  <2>2. [cli[c] EXCEPT !.at = "look", !.saved = credentials + 1] \in CommandState
    BY <2>1 DEF CommandState, At
  <2>3. cli' = [cli EXCEPT ![c] = [cli[c] EXCEPT !.at = "look", !.saved = credentials + 1]]
    BY <1>2 DEF SaveCredentials, TypeOK
  <2>4. cli' \in [Cli -> CommandState \cup {None}]
    BY <2>2, <2>3 DEF TypeOK
  <2>5. QED
    BY <1>2, <2>1, <2>4 DEF SaveCredentials, TypeOK
<1>3. CASE Look(c)
  BY <1>3, CliOK DEF Look, TypeOK, At
<1>4. CASE StopUnit(c)
  <2>1. cli' \in [Cli -> CommandState \cup {None}]
    BY <1>4, CliOK DEF StopUnit, At
  <2>2. CASE unit.main # None
    <3>1. unit.main \in Process
      BY <2>2 DEF TypeOK
    <3>2. QED
      BY <1>4, <2>1, <2>2, <3>1, TerminateOK DEF StopUnit, TypeOK
  <2>3. CASE unit.main = None
    <3>1. unit' = [wanted |-> FALSE, main |-> None] /\ UNCHANGED <<daemon, bus, before>>
      BY <1>4, <2>3 DEF StopUnit
    <3>2. QED
      BY <1>4, <2>1, <3>1 DEF StopUnit, TypeOK
  <2>4. QED
    BY <2>2, <2>3
<1>5. CASE UnitStopped(c)
  BY <1>5, CliOK DEF UnitStopped, TypeOK
<1>6. CASE StopByPid(c)
  <2>1. cli' \in [Cli -> CommandState \cup {None}]
    BY <1>6, CliOK DEF StopByPid, At
  <2>2. CASE pidFile # None
    <3>1. pidFile \in Process
      BY <2>2 DEF TypeOK
    <3>2. QED
      BY <1>6, <2>1, <2>2, <3>1, TerminateOK DEF StopByPid, TypeOK
  <2>3. CASE pidFile = None
    BY <1>6, <2>1, <2>3 DEF StopByPid, TypeOK
  <2>4. QED
    BY <2>2, <2>3
<1>7. CASE StartUnit(c)
  <2>1. cli' \in [Cli -> CommandState \cup {None}]
    BY <1>7, CliOK DEF StartUnit, At
  <2>2. CASE unit.main # None
    BY <1>7, <2>1, <2>2 DEF StartUnit, TypeOK
  <2>3. CASE unit.main = None
    <3>1. PICK i \in Process : Born(i, "unit") /\ unit' = [wanted |-> TRUE, main |-> i]
      BY <1>7, <2>3 DEF StartUnit
    <3>2. daemon' \in [Process -> DaemonState]
      BY <3>1, BornOK DEF Kind
    <3>3. QED
      BY <1>7, <2>1, <3>1, <3>2 DEF StartUnit, Born, TypeOK
  <2>4. QED
    BY <2>2, <2>3
<1>8. CASE SpawnDaemon(c)
  <2>1. cli' \in [Cli -> CommandState \cup {None}]
    BY <1>8, CliOK DEF SpawnDaemon, At
  <2>2. PICK i \in Process : Born(i, "spawned")
    BY <1>8 DEF SpawnDaemon
  <2>3. daemon' \in [Process -> DaemonState]
    BY <2>2, BornOK DEF Kind
  <2>4. QED
    BY <1>8, <2>1, <2>2, <2>3 DEF SpawnDaemon, Born, TypeOK
<1>9. CASE SeeDaemon(c)
  BY <1>9, CliOK DEF SeeDaemon, TypeOK
<1>10. CASE GiveUp(c)
  BY <1>10, CliOK DEF GiveUp, TypeOK
<1>11. QED
  BY <1>1, <1>2, <1>3, <1>4, <1>5, <1>6, <1>7, <1>8, <1>9, <1>10 DEF Gdrivesync

LEMMA TypeStep == TypeOK /\ [Next]_vars => TypeOK'
<1> SUFFICES ASSUME TypeOK, [Next]_vars PROVE TypeOK'
  OBVIOUS
<1>1. CASE UNCHANGED vars
  BY <1>1 DEF vars, TypeOK
<1>2. CASE Next
  BY <1>2, TypeDaemon, TypeStarts, TypeCommands DEF Next
<1>3. QED
  BY <1>1, <1>2

(* All reachable states are well-typed. *)
THEOREM TypeCorrect == Spec => []TypeOK
BY TypeInit, TypeStep, PTL DEF Spec

-----------------------------------------------------------------------------
(* The owner of the name and the PID file. *)

FileInv == OwnerInv /\ PidInv

LEMMA FileGone ==
  ASSUME TypeOK, FileInv, NEW i \in Process, NEW failed \in BOOLEAN, Gone(i, failed),
         pidFile' = pidFile
  PROVE  FileInv'
<1>1. /\ daemon'[i] = Nobody
      /\ \A j \in Process \ {i} : daemon'[j] = daemon[j]
  BY DEF Gone, TypeOK
<1>2. Nobody.stage = "none" /\ Nobody.pid = FALSE
  BY DEF Nobody
<1>3. OwnerInv'
  BY <1>1, <1>2, LifecycleAssumption DEF FileInv, OwnerInv, Owning, Gone, TypeOK
<1>4. PidInv'
  BY <1>1, <1>2 DEF FileInv, PidInv, PidFileNamesDaemon, Owning
<1>5. QED
  BY <1>3, <1>4 DEF FileInv

LEMMA FileBorn ==
  ASSUME TypeOK, FileInv, NEW i \in Process, NEW kind, Born(i, kind), pidFile' = pidFile
  PROVE  FileInv'
<1>1. /\ daemon'[i].stage = "boot" /\ daemon'[i].pid = FALSE
      /\ \A j \in Process \ {i} : daemon'[j] = daemon[j]
      /\ daemon[i].stage = "none" /\ bus' = bus
  BY DEF Born, TypeOK, Nobody
<1>2. OwnerInv'
  BY <1>1 DEF FileInv, OwnerInv, Owning
<1>3. PidInv'
  BY <1>1 DEF FileInv, PidInv, PidFileNamesDaemon, Owning
<1>4. QED
  BY <1>2, <1>3 DEF FileInv

LEMMA FileTerminate ==
  ASSUME TypeOK, FileInv, NEW i \in Process, Terminate(i), pidFile' = pidFile
  PROVE  FileInv'
<1>1. CASE daemon[i].stage \in {"boot", "configured", "named", "listed"}
  <2>1. Gone(i, FALSE)
    BY <1>1 DEF Terminate
  <2>2. QED
    BY <2>1, FileGone
<1>2. CASE daemon[i].stage = "serving"
  <2>1. /\ daemon'[i].stage = "stopping" /\ daemon'[i].pid = daemon[i].pid
        /\ \A j \in Process \ {i} : daemon'[j] = daemon[j]
        /\ bus' = bus
    BY <1>2 DEF Terminate, Enters, TypeOK, DaemonState
  <2>2. QED
    BY <1>2, <2>1 DEF FileInv, OwnerInv, PidInv, PidFileNamesDaemon, Owning
<1>3. CASE daemon[i].stage \in {"none", "stopping", "leaving"}
  <2>1. UNCHANGED <<daemon, bus>>
    BY <1>3 DEF Terminate
  <2>2. QED
    BY <2>1 DEF FileInv, OwnerInv, PidInv, PidFileNamesDaemon
<1>4. QED
  BY <1>1, <1>2, <1>3 DEF TypeOK, DaemonState, Stage

LEMMA FileDaemon ==
  ASSUME TypeOK, FileInv, NEW i \in Process, Daemon(i) \/ SchedulerEnds(i) \/ Crash(i)
  PROVE  FileInv'
<1> USE DEF FileInv, OwnerInv, PidInv, PidFileNamesDaemon, Owning
<1>1. CASE ReadCredentials(i)
  <2>1. /\ daemon[i].stage = "boot" /\ daemon'[i].stage = "configured"
        /\ daemon'[i].pid = daemon[i].pid
        /\ \A j \in Process \ {i} : daemon'[j] = daemon[j]
        /\ UNCHANGED <<bus, pidFile>>
    BY <1>1 DEF ReadCredentials, Enters, TypeOK, DaemonState
  <2>2. QED
    BY <2>1
<1>2. CASE RequestName(i)
  <2>1. CASE bus = None
    <3>1. /\ daemon[i].stage = "configured" /\ daemon'[i].stage = "named"
          /\ daemon'[i].pid = daemon[i].pid
          /\ \A j \in Process \ {i} : daemon'[j] = daemon[j]
          /\ bus' = i /\ UNCHANGED pidFile
      BY <1>2, <2>1 DEF RequestName, Enters, TypeOK, DaemonState
    <3>2. \A j \in Process : daemon[j].stage \notin Owning
      BY <2>1, LifecycleAssumption
    <3>3. QED
      BY <3>1, <3>2
  <2>2. CASE bus # None
    BY <1>2, <2>2, FileGone DEF RequestName
  <2>3. QED
    BY <2>1, <2>2
<1>3. CASE WritePid(i)
  <2>1. /\ daemon[i].stage = "named" /\ daemon'[i].stage = "listed"
        /\ \/ pidFile' = i
           \/ daemon'[i].pid = daemon[i].pid /\ pidFile' = pidFile
        /\ \A j \in Process \ {i} : daemon'[j] = daemon[j]
        /\ UNCHANGED bus
    BY <1>3 DEF WritePid, Enters, TypeOK, DaemonState
  <2>2. \A j \in Process \ {i} : daemon[j].stage \notin Owning
    BY <2>1
  <2>3. QED
    BY <2>1, <2>2
<1>4. CASE InstallHandler(i) \/ SchedulerEnds(i)
  <2>1. /\ daemon[i].stage \in {"listed", "serving"} /\ daemon'[i].stage \in {"serving", "stopping"}
        /\ daemon'[i].pid = daemon[i].pid
        /\ \A j \in Process \ {i} : daemon'[j] = daemon[j]
        /\ UNCHANGED <<bus, pidFile>>
    BY <1>4 DEF InstallHandler, SchedulerEnds, Enters, TypeOK, DaemonState
  <2>2. QED
    BY <2>1
<1>5. CASE RemovePid(i)
  <2>1. /\ daemon[i].stage = "stopping" /\ daemon'[i].stage = "leaving"
        /\ daemon'[i].pid = daemon[i].pid
        /\ \A j \in Process \ {i} : daemon'[j] = daemon[j]
        /\ UNCHANGED bus
    BY <1>5 DEF RemovePid, Enters, TypeOK, DaemonState
  <2>2. \A j \in Process \ {i} : daemon[j].stage \notin Owning
    BY <2>1
  <2>3. QED
    BY <2>1, <2>2
<1>6. CASE Exit(i)
  BY <1>6, FileGone DEF Exit
<1>7. CASE Crash(i)
  BY <1>7, FileGone DEF Crash
<1>8. QED
  BY <1>1, <1>2, <1>3, <1>4, <1>5, <1>6, <1>7 DEF Daemon

LEMMA FileStep ==
  ASSUME TypeOK, FileInv, [Next]_vars
  PROVE  FileInv'
<1>1. CASE UNCHANGED <<daemon, bus, pidFile>>
  BY <1>1 DEF FileInv, OwnerInv, PidInv, PidFileNamesDaemon
<1>2. CASE UNCHANGED vars
  BY <1>1, <1>2 DEF vars
<1>3. ASSUME NEW i \in Process, Daemon(i) \/ SchedulerEnds(i) \/ Crash(i)
      PROVE  FileInv'
  BY <1>3, FileDaemon
<1>4. CASE RestartUnit \/ StartByHand
  BY <1>4, FileBorn DEF RestartUnit, StartByHand
<1>5. ASSUME NEW c \in Cli, NEW cmd \in Command, Begin(c, cmd)
      PROVE  FileInv'
  BY <1>1, <1>5 DEF Begin
<1>6. ASSUME NEW c \in Cli, Gdrivesync(c)
      PROVE  FileInv'
  <2>1. CASE SaveCredentials(c) \/ Look(c) \/ UnitStopped(c) \/ SeeDaemon(c) \/ GiveUp(c)
    BY <1>1, <2>1 DEF SaveCredentials, Look, UnitStopped, SeeDaemon, GiveUp
  <2>2. CASE StopUnit(c)
    <3>1. CASE unit.main = None
      BY <1>1, <2>2, <3>1 DEF StopUnit
    <3>2. CASE unit.main # None
      <4>1. unit.main \in Process
        BY <3>2 DEF TypeOK
      <4>2. QED
        BY <2>2, <3>2, <4>1, FileTerminate DEF StopUnit
    <3>3. QED
      BY <3>1, <3>2
  <2>3. CASE StopByPid(c)
    <3>1. CASE pidFile = None
      BY <1>1, <2>3, <3>1 DEF StopByPid
    <3>2. CASE pidFile # None
      <4>1. pidFile \in Process
        BY <3>2 DEF TypeOK
      <4>2. QED
        BY <2>3, <3>2, <4>1, FileTerminate DEF StopByPid
    <3>3. QED
      BY <3>1, <3>2
  <2>4. CASE StartUnit(c)
    <3>1. CASE unit.main = None
      BY <2>4, <3>1, FileBorn DEF StartUnit
    <3>2. CASE unit.main # None
      BY <1>1, <2>4, <3>2 DEF StartUnit
    <3>3. QED
      BY <3>1, <3>2
  <2>5. CASE SpawnDaemon(c)
    BY <2>5, FileBorn DEF SpawnDaemon
  <2>6. QED
    BY <1>6, <2>1, <2>2, <2>3, <2>4, <2>5 DEF Gdrivesync
<1>7. QED
  BY <1>2, <1>3, <1>4, <1>5, <1>6 DEF Next

LEMMA FileInit == Init => FileInv
BY LifecycleAssumption DEF Init, FileInv, OwnerInv, PidInv, PidFileNamesDaemon, Owning, Nobody

(* While a background daemon serves, the PID file it wrote names it. *)
THEOREM PidFileNamesDaemonHolds == Spec => []PidFileNamesDaemon
<1>1. Init => TypeOK /\ FileInv
  BY TypeInit, FileInit
<1>2. TypeOK /\ FileInv /\ [Next]_vars => TypeOK' /\ FileInv'
  BY TypeStep, FileStep
<1>3. FileInv => PidFileNamesDaemon
  BY DEF FileInv, PidInv
<1>4. QED
  BY <1>1, <1>2, <1>3, PTL DEF Spec

-----------------------------------------------------------------------------
(* What restart and configure replace. *)

UnitInv == MemoryInv /\ ManagedInv

(* The part of ManagedInv about one command. *)
CommandInv(c) ==
  cli[c] # None /\ cli[c].cmd \in {"restart", "configure"} =>
    /\ cli[c].at = "stopping" => Deactivating \/ Replaced(c)
    /\ cli[c].at \in {"start", "wait"} => Replaced(c)

OneMain == \A i \in Process : daemon[i].stage # "none" <=> unit.main = i

LEMMA UnitGone ==
  ASSUME TypeOK, UnitInv, NEW i \in Process, NEW failed \in BOOLEAN, Gone(i, failed),
         daemon[i].stage # "none", UNCHANGED <<installed, byHand, credentials>>,
         \A c \in Cli : cli'[c] # None => cli'[c].saved <= credentials
  PROVE  UnitInv'
<1>1. /\ daemon'[i].stage = "none"
      /\ \A j \in Process \ {i} : daemon'[j] = daemon[j]
      /\ \A c \in Cli : before'[c] = IF before[c] = i THEN None ELSE before[c]
      /\ unit' = IF unit.main = i
                 THEN [wanted |-> unit.wanted /\ failed, main |-> None] ELSE unit
  BY DEF Gone, TypeOK, Nobody
<1>2. MemoryInv'
  BY <1>1 DEF UnitInv, MemoryInv, TypeOK
<1>3. ASSUME Managed'
      PROVE  OneMain' /\ \A c \in Cli : Replaced(c)'
  <2>1. OneMain /\ unit.main = i
    BY <1>3 DEF Managed, UnitInv, ManagedInv, OneMain
  <2>2. \A j \in Process : daemon'[j].stage = "none"
    BY <1>1, <2>1 DEF OneMain
  <2>3. OneMain'
    BY <1>1, <2>1, <2>2, LifecycleAssumption DEF OneMain
  <2>4. \A c \in Cli : before'[c] = None
    BY <1>1, <1>2, <2>2 DEF MemoryInv, TypeOK
  <2>5. QED
    BY <2>2, <2>3, <2>4 DEF Replaced, FreshFor
<1>4. QED
  BY <1>2, <1>3 DEF UnitInv, ManagedInv, OneMain

LEMMA UnitBorn ==
  ASSUME TypeOK, UnitInv, NEW i \in Process, Born(i, "unit"), unit.main = None,
         NEW wanted \in BOOLEAN, unit' = [wanted |-> wanted, main |-> i],
         UNCHANGED <<installed, byHand, credentials>>,
         \A c \in Cli : cli'[c] # None =>
            /\ cli'[c].saved <= credentials
            /\ cli'[c].cmd = cli[c].cmd /\ cli'[c].saved = cli[c].saved
            /\ cli[c] # None
            /\ \/ cli'[c].at = cli[c].at
               \/ cli[c].at = "start"
  PROVE  UnitInv'
<1>1. /\ daemon[i].stage = "none"
      /\ daemon'[i].stage = "boot" /\ daemon'[i].creds = None
      /\ \A j \in Process \ {i} : daemon'[j] = daemon[j]
      /\ before' = before
  BY DEF Born, TypeOK, Nobody
<1>2. MemoryInv'
  BY <1>1 DEF UnitInv, MemoryInv, TypeOK
<1>3. ASSUME Managed'
      PROVE  OneMain' /\ \A c \in Cli : CommandInv(c)'
  <2>1. OneMain /\ \A c \in Cli : CommandInv(c)
    BY <1>3 DEF Managed, UnitInv, ManagedInv, OneMain, CommandInv
  <2>2. OneMain'
    BY <1>1, <2>1, LifecycleAssumption DEF OneMain
  <2>3. ASSUME NEW c \in Cli, cli'[c] # None, cli'[c].cmd \in {"restart", "configure"},
               cli'[c].at \in {"stopping", "start", "wait"}
        PROVE  Replaced(c)'
    <3>1. Replaced(c)
      BY <2>1, <2>3 DEF CommandInv, Deactivating
    <3>2. QED
      BY <1>1, <2>3, <3>1 DEF Replaced, FreshFor
  <2>4. QED
    BY <2>2, <2>3 DEF CommandInv
<1>4. QED
  BY <1>2, <1>3 DEF UnitInv, ManagedInv, OneMain, CommandInv

(* Steps that give no process an end or a beginning. *)
LEMMA UnitMoves ==
  ASSUME TypeOK, UnitInv, UNCHANGED <<installed, byHand, unit>>,
         \A i \in Process : /\ daemon'[i].stage = "none" <=> daemon[i].stage = "none"
                            /\ \/ daemon'[i].creds = daemon[i].creds
                               \/ daemon'[i].creds = credentials,
         credentials' \in Nat, credentials <= credentials',
         before' \in [Cli -> Process \cup {None}],
         \A c \in Cli : before'[c] # None => daemon[before'[c]].stage # "none",
         \A c \in Cli : cli'[c] # None =>
            /\ cli'[c].saved <= credentials'
            /\ cli'[c].cmd \in {"restart", "configure"}
                 /\ cli'[c].at \in {"stopping", "start", "wait"} =>
                   /\ before'[c] = before[c]
                   /\ cli[c] # None
                   /\ cli'[c].cmd = cli[c].cmd /\ cli'[c].saved = cli[c].saved
                   /\ \/ cli'[c].at = cli[c].at
                      \/ cli[c].at = "start"
                      \/ cli[c].at = "stopping" /\ ~Deactivating
  PROVE  UnitInv'
<1>1. MemoryInv'
  BY DEF MemoryInv, TypeOK
<1>2. ASSUME Managed'
      PROVE  OneMain' /\ \A c \in Cli : CommandInv(c)'
  <2>1. OneMain /\ \A c \in Cli : CommandInv(c)
    BY <1>2 DEF Managed, UnitInv, ManagedInv, OneMain, CommandInv
  <2>2. OneMain'
    BY <2>1 DEF OneMain
  <2>3. \A c \in Cli : cli[c] # None => cli[c].saved <= credentials
    BY DEF UnitInv, MemoryInv
  <2>4. ASSUME NEW c \in Cli, cli'[c] # None, cli'[c].cmd \in {"restart", "configure"},
               cli'[c].at \in {"stopping", "start", "wait"}, Replaced(c)
        PROVE  Replaced(c)'
    BY <2>3, <2>4 DEF Replaced, FreshFor
  <2>5. QED
    BY <2>1, <2>2, <2>4 DEF CommandInv, Deactivating
<1>3. QED
  BY <1>1, <1>2 DEF UnitInv, ManagedInv, OneMain, CommandInv

LEMMA UnitDaemon ==
  ASSUME TypeOK, UnitInv, NEW i \in Process, Daemon(i) \/ SchedulerEnds(i) \/ Crash(i)
  PROVE  UnitInv'
<1>0. /\ credentials \in Nat /\ before \in [Cli -> Process \cup {None}]
      /\ \A c \in Cli : /\ before[c] # None => daemon[before[c]].stage # "none"
                        /\ cli[c] # None => cli[c].saved <= credentials
  BY DEF TypeOK, UnitInv, MemoryInv
<1>1. CASE ReadCredentials(i) \/ WritePid(i) \/ InstallHandler(i) \/ SchedulerEnds(i)
           \/ RemovePid(i) \/ (RequestName(i) /\ bus = None)
  <2>1. /\ \A j \in Process : /\ daemon'[j].stage = "none" <=> daemon[j].stage = "none"
                              /\ \/ daemon'[j].creds = daemon[j].creds
                                 \/ daemon'[j].creds = credentials
    <3>1. CASE ReadCredentials(i)
      BY <3>1 DEF ReadCredentials, Enters, TypeOK, DaemonState
    <3>2. CASE WritePid(i)
      BY <3>2 DEF WritePid, Enters, TypeOK, DaemonState
    <3>3. CASE RequestName(i) /\ bus = None
      BY <3>3 DEF RequestName, Enters, TypeOK, DaemonState
    <3>4. CASE InstallHandler(i) \/ SchedulerEnds(i) \/ RemovePid(i)
      BY <3>4 DEF InstallHandler, SchedulerEnds, RemovePid, Enters, TypeOK, DaemonState
    <3>5. QED
      BY <1>1, <3>1, <3>2, <3>3, <3>4
  <2>2. UNCHANGED <<installed, byHand, unit, credentials, before, cli>>
    BY <1>1 DEF ReadCredentials, WritePid, InstallHandler, SchedulerEnds, RemovePid,
                RequestName
  <2>3. credentials <= credentials
    BY <1>0
  <2>4. QED
    BY <1>0, <2>1, <2>2, <2>3, UnitMoves
<1>2. CASE Exit(i) \/ Crash(i) \/ (RequestName(i) /\ bus # None)
  <2>1. /\ Gone(i, TRUE) \/ Gone(i, FALSE)
        /\ daemon[i].stage # "none"
        /\ UNCHANGED <<installed, byHand, credentials, cli>>
    BY <1>2 DEF Exit, Crash, RequestName
  <2>2. QED
    BY <1>0, <2>1, UnitGone
<1>3. QED
  BY <1>1, <1>2 DEF Daemon

LEMMA UnitStops ==
  ASSUME TypeOK, UnitInv, NEW c \in Cli, StopUnit(c)
  PROVE  UnitInv'
<1>0. /\ credentials \in Nat /\ before \in [Cli -> Process \cup {None}]
      /\ \A d \in Cli : /\ before[d] # None => daemon[before[d]].stage # "none"
                        /\ cli[d] # None => cli[d].saved <= credentials
  BY DEF TypeOK, UnitInv, MemoryInv
<1>1. /\ cli[c] # None /\ cli[c].at = "stop"
      /\ cli' = [cli EXCEPT ![c].at = "stopping"]
      /\ UNCHANGED <<installed, byHand, credentials>>
  BY DEF StopUnit, IsAt, Goes
<1>2. \A d \in Cli : cli'[d] # None =>
        /\ cli[d] # None
        /\ cli'[d].cmd = cli[d].cmd /\ cli'[d].saved = cli[d].saved
        /\ cli'[d].at = cli[d].at \/ cli'[d].at = "stopping"
  BY <1>1 DEF TypeOK, CommandState
<1>3. CASE unit.main = None
  <2>1. unit' = [wanted |-> FALSE, main |-> None] /\ UNCHANGED <<daemon, bus, before>>
    BY <1>3 DEF StopUnit
  <2>2. MemoryInv'
    BY <1>0, <1>1, <1>2, <2>1 DEF MemoryInv
  <2>3. ASSUME Managed'
        PROVE  OneMain' /\ \A d \in Cli : CommandInv(d)'
    <3>1. OneMain /\ \A d \in Cli : CommandInv(d)
      BY <1>1, <2>3 DEF Managed, UnitInv, ManagedInv, OneMain, CommandInv
    <3>2. \A i \in Process : daemon[i].stage = "none"
      BY <1>3, <3>1, LifecycleAssumption DEF OneMain
    <3>3. \A d \in Cli : before[d] = None
      BY <1>0, <3>2
    <3>4. QED
      BY <1>3, <2>1, <3>1, <3>2, <3>3 DEF OneMain, CommandInv, Replaced, FreshFor
  <2>4. QED
    BY <2>2, <2>3 DEF UnitInv, ManagedInv, OneMain, CommandInv
<1>4. CASE unit.main # None
  <2>1. PICK m \in Process : m = unit.main /\ Terminate(m)
    BY <1>4 DEF StopUnit, TypeOK
  <2>2. CASE daemon[m].stage \in {"boot", "configured", "named", "listed"}
    <3>1. Gone(m, FALSE) /\ daemon[m].stage # "none"
      BY <2>1, <2>2 DEF Terminate
    <3>2. QED
      BY <1>0, <1>1, <1>2, <2>1, <3>1, UnitGone
  <2>3. CASE daemon[m].stage \notin {"boot", "configured", "named", "listed"}
    <3>1. /\ unit' = [wanted |-> FALSE, main |-> m]
          /\ UNCHANGED before
          /\ \A i \in Process : /\ daemon'[i].stage = "none" <=> daemon[i].stage = "none"
                                /\ daemon'[i].creds = daemon[i].creds
      <4>1. /\ \/ daemon[m].stage = "serving" /\ Enters(m, "stopping")
               \/ UNCHANGED daemon
            /\ unit' = [wanted |-> FALSE, main |-> m]
            /\ UNCHANGED before
        BY <2>1, <2>3 DEF Terminate
      <4>2. CASE daemon[m].stage = "serving" /\ Enters(m, "stopping")
        BY <4>1, <4>2 DEF Enters, TypeOK, DaemonState
      <4>3. QED
        BY <4>1, <4>2
    <3>2. MemoryInv'
      BY <1>0, <1>1, <1>2, <3>1 DEF MemoryInv
    <3>3. ASSUME Managed'
          PROVE  OneMain' /\ \A d \in Cli : CommandInv(d)'
      <4>1. OneMain /\ \A d \in Cli : CommandInv(d)
        BY <1>1, <3>3 DEF Managed, UnitInv, ManagedInv, OneMain, CommandInv
      <4>2. OneMain' /\ Deactivating'
        BY <2>1, <3>1, <4>1, LifecycleAssumption DEF OneMain, Deactivating
      <4>3. ASSUME NEW d \in Cli, Replaced(d), cli'[d] # None
            PROVE  Replaced(d)'
        BY <1>2, <3>1, <4>3 DEF Replaced, FreshFor
      <4>4. QED
        BY <1>2, <4>1, <4>2, <4>3 DEF CommandInv
    <3>4. QED
      BY <3>2, <3>3 DEF UnitInv, ManagedInv, OneMain, CommandInv
  <2>4. QED
    BY <2>2, <2>3
<1>5. QED
  BY <1>3, <1>4

LEMMA UnitStarts ==
  ASSUME TypeOK, UnitInv, NEW c \in Cli, StartUnit(c)
  PROVE  UnitInv'
<1>0. /\ credentials \in Nat /\ before \in [Cli -> Process \cup {None}]
      /\ \A d \in Cli : /\ before[d] # None => daemon[before[d]].stage # "none"
                        /\ cli[d] # None => cli[d].saved <= credentials
  BY DEF TypeOK, UnitInv, MemoryInv
<1>1. /\ cli[c] # None /\ cli[c].at = "start" /\ ~Deactivating
      /\ cli' = [cli EXCEPT ![c].at = "wait"]
      /\ UNCHANGED <<installed, byHand, credentials>>
  BY DEF StartUnit, IsAt, Goes
<1>2. \A d \in Cli : cli'[d] # None =>
        /\ cli[d] # None
        /\ cli'[d].cmd = cli[d].cmd /\ cli'[d].saved = cli[d].saved
        /\ cli'[d].at = cli[d].at \/ cli[d].at = "start"
  BY <1>1 DEF TypeOK, CommandState
<1>3. CASE unit.main # None
  <2>1. UNCHANGED <<unit, daemon, before>>
    BY <1>3 DEF StartUnit
  <2>2. credentials <= credentials
    BY <1>0
  <2>3. QED
    BY <1>0, <1>1, <1>2, <2>1, <2>2, UnitMoves
<1>4. CASE unit.main = None
  <2>1. PICK i \in Process : Born(i, "unit") /\ unit' = [wanted |-> TRUE, main |-> i]
    BY <1>4 DEF StartUnit
  <2>2. QED
    BY <1>0, <1>1, <1>2, <1>4, <2>1, UnitBorn
<1>5. QED
  BY <1>3, <1>4

(* Commands that change no process. *)
LEMMA UnitQuietCommands ==
  ASSUME TypeOK, OwnerInv, UnitInv, NEW c \in Cli,
         \/ \E cmd \in Command : Begin(c, cmd)
         \/ SaveCredentials(c) \/ Look(c) \/ UnitStopped(c) \/ SeeDaemon(c) \/ GiveUp(c)
  PROVE  UnitInv'
<1>0. /\ credentials \in Nat /\ before \in [Cli -> Process \cup {None}]
      /\ \A d \in Cli : /\ before[d] # None => daemon[before[d]].stage # "none"
                        /\ cli[d] # None => cli[d].saved <= credentials /\ cli[d].saved \in Nat
      /\ credentials <= credentials + 1 /\ credentials + 1 \in Nat /\ credentials <= credentials
      /\ 0 <= credentials
  BY DEF TypeOK, UnitInv, MemoryInv, CommandState
<1>1. ASSUME NEW cmd \in Command, Begin(c, cmd)
      PROVE  UnitInv'
  <2>1. /\ UNCHANGED <<installed, byHand, unit, daemon, credentials>>
        /\ cli' = [cli EXCEPT ![c] = [cmd |-> cmd, at |-> FirstStep(cmd), saved |-> 0]]
        /\ before' = [before EXCEPT ![c] = bus]
    BY <1>1 DEF Begin
  <2>2. bus # None => daemon[bus].stage # "none"
    BY DEF OwnerInv, Owning, TypeOK
  <2>3. cmd \in {"restart", "configure"} => FirstStep(cmd) \in {"stop", "save"}
    BY DEF FirstStep
  <2>4. /\ before' \in [Cli -> Process \cup {None}]
        /\ \A d \in Cli : before'[d] # None => daemon[before'[d]].stage # "none"
    BY <1>0, <2>1, <2>2 DEF TypeOK
  <2>5. \A d \in Cli : cli'[d] # None =>
           /\ cli'[d].saved <= credentials
           /\ cli'[d].cmd \in {"restart", "configure"}
                /\ cli'[d].at \in {"stopping", "start", "wait"} =>
                  before'[d] = before[d] /\ cli'[d] = cli[d]
    BY <1>0, <2>1, <2>3 DEF TypeOK
  <2>6. QED
    BY <1>0, <2>1, <2>4, <2>5, UnitMoves
<1>2. CASE SaveCredentials(c)
  <2>1. /\ UNCHANGED <<installed, byHand, unit, daemon, before>>
        /\ credentials' = credentials + 1
        /\ cli[c] # None
        /\ cli' = [cli EXCEPT ![c].at = "look", ![c].saved = credentials + 1]
    BY <1>2 DEF SaveCredentials, IsAt
  <2>2. \A d \in Cli \ {c} : cli'[d] = cli[d]
    BY <2>1 DEF TypeOK
  <2>3. cli'[c].saved = credentials + 1 /\ cli'[c].at = "look"
    BY <2>1 DEF TypeOK, CommandState
  <2>4. \A d \in Cli : cli'[d] # None =>
           /\ cli'[d].saved <= credentials'
           /\ cli'[d].at \in {"stopping", "start", "wait"} => cli'[d] = cli[d]
    <3>1. \A d \in Cli : cli[d] # None => cli[d].saved <= credentials + 1
      BY <1>0
    <3>2. \A d \in Cli \ {c} : cli'[d] # None => cli'[d].saved <= credentials'
      BY <2>1, <2>2, <3>1
    <3>3. cli'[c].saved <= credentials'
      BY <1>0, <2>1, <2>3
    <3>4. QED
      BY <2>2, <2>3, <3>2, <3>3
  <2>5. QED
    BY <1>0, <2>1, <2>4, UnitMoves
<1>3. CASE Look(c) \/ UnitStopped(c) \/ SeeDaemon(c) \/ GiveUp(c)
  <2>1. UNCHANGED <<installed, byHand, unit, daemon, credentials, before>>
    BY <1>3 DEF Look, UnitStopped, SeeDaemon, GiveUp
  <2>2. \A d \in Cli \ {c} : cli'[d] = cli[d]
    BY <1>3 DEF Look, UnitStopped, SeeDaemon, GiveUp, Returns, Goes, AfterStop, TypeOK
  <2>3. cli'[c] # None /\ cli'[c].cmd \in {"restart", "configure"}
          /\ cli'[c].at \in {"stopping", "start", "wait"} =>
            /\ cli[c] # None /\ cli'[c].cmd = cli[c].cmd
            /\ cli[c].at = "stopping" /\ ~Deactivating
    BY <1>3 DEF Look, UnitStopped, SeeDaemon, GiveUp, Returns, Goes, AfterStop, IsAt, TypeOK,
                CommandState
  <2>4. cli'[c] # None => cli[c] # None /\ cli'[c].saved = cli[c].saved
    BY <1>3 DEF Look, UnitStopped, SeeDaemon, GiveUp, Returns, Goes, AfterStop, IsAt, TypeOK,
                CommandState
  <2>5. QED
    BY <1>0, <2>1, <2>2, <2>3, <2>4, UnitMoves
<1>4. QED
  BY <1>1, <1>2, <1>3

(* Without the unit, or beside it, nothing but MemoryInv is claimed. *)
LEMMA UnitUnmanaged ==
  ASSUME TypeOK, UnitInv, NEW c \in Cli, StopByPid(c) \/ SpawnDaemon(c) \/ StartByHand
  PROVE  UnitInv'
<1>0. /\ before \in [Cli -> Process \cup {None}]
      /\ \A d \in Cli : /\ before[d] # None => daemon[before[d]].stage # "none"
                        /\ cli[d] # None => cli[d].saved <= credentials
  BY DEF TypeOK, UnitInv, MemoryInv
<1>1. ~Managed'
  BY DEF Managed, StopByPid, SpawnDaemon, StartByHand
<1>2. credentials' = credentials /\ \A d \in Cli : cli'[d] # None =>
          cli[d] # None /\ cli'[d].saved = cli[d].saved
  BY DEF StopByPid, SpawnDaemon, StartByHand, AfterStop, Returns, Goes, IsAt, TypeOK, CommandState
<1>3. \A d \in Cli : before'[d] # None =>
        before'[d] = before[d] /\ daemon'[before'[d]].stage # "none"
  <2>1. CASE StopByPid(c) /\ pidFile = None
    BY <1>0, <2>1 DEF StopByPid
  <2>2. CASE StopByPid(c) /\ pidFile # None
    <3>1. PICK m \in Process : m = pidFile /\ Terminate(m)
      BY <2>2 DEF StopByPid, TypeOK
    <3>2. CASE Gone(m, FALSE)
      BY <1>0, <3>2 DEF Gone, TypeOK
    <3>3. CASE daemon[m].stage = "serving" /\ Enters(m, "stopping") /\ UNCHANGED before
      BY <1>0, <3>3 DEF Enters, TypeOK, DaemonState
    <3>4. CASE UNCHANGED <<daemon, before>>
      BY <1>0, <3>4
    <3>5. QED
      BY <3>1, <3>2, <3>3, <3>4 DEF Terminate
  <2>3. ASSUME NEW i \in Process, NEW kind, Born(i, kind)
        PROVE  \A d \in Cli : before'[d] # None =>
                 before'[d] = before[d] /\ daemon'[before'[d]].stage # "none"
    BY <1>0, <2>3 DEF Born, TypeOK
  <2>4. QED
    BY <2>1, <2>2, <2>3 DEF SpawnDaemon, StartByHand
<1>4. QED
  BY <1>0, <1>1, <1>2, <1>3 DEF UnitInv, MemoryInv, ManagedInv

LEMMA UnitStep ==
  ASSUME TypeOK, OwnerInv, UnitInv, [Next]_vars
  PROVE  UnitInv'
<1>1. CASE UNCHANGED vars
  BY <1>1 DEF vars, UnitInv, MemoryInv, ManagedInv, Managed, Deactivating, Replaced, FreshFor
<1>2. CASE RestartUnit
  <2>1. PICK i \in Process : Born(i, "unit") /\ unit' = [unit EXCEPT !.main = i]
    BY <1>2 DEF RestartUnit
  <2>2. unit' = [wanted |-> unit.wanted, main |-> i] /\ unit.wanted \in BOOLEAN
    BY <2>1 DEF TypeOK
  <2>3. /\ unit.main = None /\ UNCHANGED <<installed, byHand, credentials, cli>>
        /\ \A c \in Cli : cli[c] # None => cli[c].saved <= credentials
    BY <1>2 DEF RestartUnit, UnitInv, MemoryInv
  <2>4. QED
    BY <2>1, <2>2, <2>3, UnitBorn
<1>3. CASE StartByHand
  <2>1. MemoryInv'
    <3>1. PICK i \in Process, kind \in Kind : Born(i, kind)
      BY <1>3 DEF StartByHand, Kind
    <3>2. QED
      BY <1>3, <3>1 DEF StartByHand, Born, UnitInv, MemoryInv, TypeOK
  <2>2. ~Managed'
    BY <1>3 DEF StartByHand, Managed
  <2>3. QED
    BY <2>1, <2>2 DEF UnitInv, ManagedInv
<1>4. QED
  BY <1>1, <1>2, <1>3, UnitDaemon, UnitStops, UnitStarts, UnitQuietCommands, UnitUnmanaged
     DEF Next, Gdrivesync

LEMMA UnitInit == Init => UnitInv
BY LifecycleAssumption DEF Init, UnitInv, MemoryInv, ManagedInv, Nobody

LEMMA UnitAlways == Spec => [](TypeOK /\ OwnerInv /\ UnitInv)
<1>1. Init => TypeOK /\ FileInv /\ UnitInv
  BY TypeInit, FileInit, UnitInit
<1>2. TypeOK /\ FileInv /\ UnitInv /\ [Next]_vars => TypeOK' /\ FileInv' /\ UnitInv'
  BY TypeStep, FileStep, UnitStep DEF FileInv
<1>3. FileInv => OwnerInv
  BY DEF FileInv
<1>4. QED
  BY <1>1, <1>2, <1>3, PTL DEF Spec

(* With the unit, restart and configure never take the daemon they were to    *)
(* replace for the new one.                                                   *)
THEOREM UnitRestartReplacesHolds == Spec => []UnitRestartReplaces
<1>1. UnitInv => UnitRestartReplaces
  BY DEF UnitInv, ManagedInv, UnitRestartReplaces, RestartReplaces, IsAt, Replaced
<1>2. QED
  BY <1>1, UnitAlways, PTL

(* With the unit, configure ends with a daemon that has what it saved. *)
THEOREM CredentialsServedHolds == Spec => []CredentialsServed
<1>1. TypeOK /\ OwnerInv /\ UnitInv => CredentialsServed
  BY DEF TypeOK, OwnerInv, Owning, UnitInv, ManagedInv, CredentialsServed, IsAt, Replaced, FreshFor
<1>2. QED
  BY <1>1, UnitAlways, PTL
=============================================================================
