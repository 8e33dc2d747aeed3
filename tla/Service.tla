------------------------------ MODULE Service ------------------------------
(***************************************************************************)
(* The gateway as a per-user service: `daemon install`, `uninstall`,       *)
(* `start`, `stop`, `restart` and `update` on systemd, launchd and the     *)
(* Windows task scheduler (internal/service, cmd/ferngeist/update.go,      *)
(* internal/update), and the daemon's watch on its own binary              *)
(* (cmd/ferngeist/binary_watch.go).                                        *)
(*                                                                         *)
(* A command is the sequence of steps its Go function takes.  Each step    *)
(* can fail where the code has an error return, the command can be killed  *)
(* between two steps, and the service manager and the daemon move on       *)
(* between them.  Two files matter: "exe", the binary the command was run  *)
(* from (a package manager's own path when `packaged`), and "copy", the    *)
(* one install leaves in the service's bin directory.  A file is the       *)
(* version it holds, 0 when it does not exist.                             *)
(***************************************************************************)
EXTENDS Naturals, Sequences

CONSTANTS
    Platforms,    \* the service managers to model: linux, darwin, windows
    MaxVersion    \* how many versions are ever released

ASSUME ServiceConstants ==
    Platforms \subseteq {"linux", "darwin", "windows"} /\ MaxVersion \in Nat \ {0}

VARIABLES
    os,           \* the service manager of this host
    packaged,     \* stableExecutable: a package manager owns "exe"
    disk,         \* the version in each file
    aside,        \* dest+".old", Windows only
    unit,         \* the file the unit, plist or task runs, "none" if not installed
    job,          \* "up": the manager keeps the daemon running
    proc,         \* the version the daemon process runs, 0 for none
    cmd,          \* the command in progress
    wanted,       \* what the last command that succeeded asked for
    mishap        \* a command was killed, or a restore failed as well

svcVars == <<os, packaged, disk, aside, unit, job, proc, cmd, wanted, mishap>>

Files == {"copy", "exe"}

\* No command.  `was` and `had` remember whether the service was up and had a
\* binary when the command began, `broke` that the service manager failed it.
Idle == [name |-> "none", plan |-> <<>>, version |-> 0, ok |-> TRUE,
         was |-> "down", had |-> FALSE, broke |-> FALSE]

\* ensureInstalled, and Status().Installed.
Installed == unit # "none"

\* The binary the service would run now.
Current == IF unit = "none" THEN 0 ELSE disk[unit]

Command(name, plan, version) ==
    [name |-> name, plan |-> plan, version |-> version, ok |-> TRUE,
     was |-> job, had |-> Current # 0, broke |-> FALSE]

ServiceTypeOK ==
    /\ os \in Platforms /\ packaged \in BOOLEAN /\ mishap \in BOOLEAN
    /\ disk \in [Files -> 0..MaxVersion] /\ aside \in [Files -> 0..MaxVersion]
    /\ unit \in Files \cup {"none"} /\ job \in {"up", "down"}
    /\ proc \in 0..MaxVersion /\ wanted \in {"up", "down", "unknown"}

SvcInit ==
    /\ os \in Platforms
    /\ packaged \in IF os = "windows" THEN {FALSE} ELSE BOOLEAN
    /\ disk = [f \in Files |-> IF f = "exe" THEN 1 ELSE 0]
    /\ aside = [f \in Files |-> 0]
    /\ unit = "none" /\ job = "down" /\ proc = 0
    /\ cmd = Idle /\ wanted = "down" /\ mishap = FALSE

-----------------------------------------------------------------------------
(* The commands, each as the steps of its code.                            *)

\* Stopping kills the daemon through systemd or launchd.  On Windows the task
\* instance, which would see the daemon die and restart it, is ended first.
StopSteps == IF os = "windows" THEN <<"endTask", "kill">> ELSE <<"stop">>

LinuxInstall   == StopSteps \o <<"binary", "env", "save", "unit", "start">>
DarwinInstall  == StopSteps \o <<"binary", "env", "unit", "save", "start">>
WindowsInstall == <<"env", "save", "unit">> \o StopSteps \o <<"binary", "start">>

InstallSteps ==
    CASE os = "linux"   -> LinuxInstall
      [] os = "darwin"  -> DarwinInstall
      [] os = "windows" -> WindowsInstall

\* The files are kept; only --purge, which this model leaves out, removes them.
LinuxUninstall   == StopSteps \o <<"remove">>
DarwinUninstall  == StopSteps \o <<"remove">>
WindowsUninstall == StopSteps \o <<"remove">>

UninstallSteps ==
    CASE os = "linux"   -> LinuxUninstall
      [] os = "darwin"  -> DarwinUninstall
      [] os = "windows" -> WindowsUninstall

\* Restart: the task scheduler stops and starts in two calls, systemd and
\* launchd end the daemon in the call that starts the next.
RestartSteps == StopSteps \o <<"start">>

\* Windows cannot rename over a running image, so it moves the old one aside.
AsideStep == [copy |-> "asideCopy", exe |-> "asideExe"]
PlaceStep == [copy |-> "placeCopy", exe |-> "placeExe"]
SwapSteps(f) == IF os = "windows" THEN <<AsideStep[f], PlaceStep[f]>> ELSE <<PlaceStep[f]>>

UpdateSteps ==
    IF ~Installed THEN <<"stage">> \o SwapSteps("exe")
    ELSE <<"stage">> \o StopSteps \o SwapSteps("copy") \o SwapSteps("exe") \o RestartSteps

Begin(name, plan, version) ==
    /\ cmd.name = "none"
    /\ cmd' = Command(name, plan, version)

RunDaemonInstall ==
    /\ Begin("install", InstallSteps, 0)
    /\ UNCHANGED <<os, packaged, disk, aside, unit, job, proc, wanted, mishap>>

RunDaemonUninstall ==
    /\ Begin("uninstall", UninstallSteps, 0)
    /\ UNCHANGED <<os, packaged, disk, aside, unit, job, proc, wanted, mishap>>

\* Start, Stop and Restart need an installed service (ensureInstalled).
RunDaemonStart ==
    /\ Installed
    /\ Begin("start", <<"start">>, 0)
    /\ UNCHANGED <<os, packaged, disk, aside, unit, job, proc, wanted, mishap>>

RunDaemonStop ==
    /\ Installed
    /\ Begin("stop", StopSteps, 0)
    /\ UNCHANGED <<os, packaged, disk, aside, unit, job, proc, wanted, mishap>>

RunDaemonRestart ==
    /\ Installed
    /\ Begin("restart", RestartSteps, 0)
    /\ UNCHANGED <<os, packaged, disk, aside, unit, job, proc, wanted, mishap>>

\* A package build refuses; the latest release must be newer than this binary.
\* CleanupOld drops what an earlier Windows swap left.
RunUpdate ==
    /\ ~packaged
    /\ \E latest \in 1..MaxVersion :
        /\ latest > disk["exe"]
        /\ Begin("update", UpdateSteps, latest)
    /\ aside' = [f \in Files |-> 0]
    /\ UNCHANGED <<os, packaged, disk, unit, job, proc, wanted, mishap>>

-----------------------------------------------------------------------------
(* Their steps.                                                            *)

\* The command goes on to its next step, or ends and has its say.
Asks == CASE cmd.name \in {"stop", "uninstall"} -> "down"
          [] cmd.name = "update" /\ unit = "none" -> wanted
          [] OTHER -> "up"

Advance ==
    IF Len(cmd.plan) > 1
    THEN cmd' = [cmd EXCEPT !.plan = Tail(@)] /\ UNCHANGED wanted
    ELSE cmd' = Idle /\ wanted' = IF cmd.ok THEN Asks ELSE "unknown"

Now(step) == cmd.name # "none" /\ Head(cmd.plan) = step

StopService ==
    /\ Now("stop") /\ Advance
    /\ job' = "down" /\ proc' = 0
    /\ UNCHANGED <<os, packaged, disk, aside, unit, mishap>>

\* Stop-ScheduledTask ends the wrapper; the daemon runs detached from it.
StopScheduledTask ==
    /\ Now("endTask") /\ Advance
    /\ job' = "down"
    /\ UNCHANGED <<os, packaged, disk, aside, unit, proc, mishap>>

KillFerngeistProcess ==
    /\ Now("kill") /\ Advance
    /\ proc' = 0
    /\ UNCHANGED <<os, packaged, disk, aside, unit, job, mishap>>

\* serviceExecutable: a package's binary runs in place and an old copy goes;
\* anything else is copied through a temporary file and a rename.
ServiceExecutable ==
    /\ Now("binary") /\ Advance
    /\ disk' = [disk EXCEPT !["copy"] = IF packaged THEN 0 ELSE disk["exe"]]
    /\ UNCHANGED <<os, packaged, aside, unit, job, proc, mishap>>

\* The environment and the saved options, whose contents are left out.
WriteEnvFile ==
    /\ Now("env") /\ Advance
    /\ UNCHANGED <<os, packaged, disk, aside, unit, job, proc, mishap>>

SaveInstallOptions ==
    /\ Now("save") /\ Advance
    /\ UNCHANGED <<os, packaged, disk, aside, unit, job, proc, mishap>>

WriteUnit ==
    /\ Now("unit") /\ Advance
    /\ unit' = IF packaged THEN "exe" ELSE "copy"
    /\ UNCHANGED <<os, packaged, disk, aside, job, proc, mishap>>

StartService ==
    /\ Now("start") /\ Advance
    /\ job' = IF unit = "none" THEN job ELSE "up"
    /\ UNCHANGED <<os, packaged, disk, aside, unit, proc, mishap>>

RemoveUnit ==
    /\ Now("remove") /\ Advance
    /\ unit' = "none"
    /\ UNCHANGED <<os, packaged, disk, aside, job, proc, mishap>>

\* Download, verify and extract next to every target, before the stop.
StageUpdate ==
    /\ Now("stage") /\ Advance
    /\ UNCHANGED <<os, packaged, disk, aside, unit, job, proc, mishap>>

MoveAside(f) ==
    /\ Now(AsideStep[f]) /\ Advance
    /\ aside' = [aside EXCEPT ![f] = disk[f]]
    /\ disk' = [disk EXCEPT ![f] = 0]
    /\ UNCHANGED <<os, packaged, unit, job, proc, mishap>>

PlaceBinary(f) ==
    /\ Now(PlaceStep[f]) /\ Advance
    /\ disk' = [disk EXCEPT ![f] = cmd.version]
    /\ UNCHANGED <<os, packaged, aside, unit, job, proc, mishap>>

-----------------------------------------------------------------------------
(* What each step does when it fails.                                      *)

\* The steps left after an error: a failed Linux install starts the old
\* service again, a failed swap still restarts the service it stopped.
StepsAfter(step) ==
    IF cmd.name = "install" /\ os = "linux" /\ step \in {"binary", "env", "save", "unit"} THEN <<"start">>
    ELSE IF cmd.name = "update" /\ Installed /\ \E f \in Files : step \in {AsideStep[f], PlaceStep[f]}
    THEN RestartSteps
    ELSE <<>>

\* A failed second rename on Windows puts the old binary back.
LeavesAside(f) == FALSE
Restores(f) == os = "windows" /\ Now(PlaceStep[f]) /\ aside[f] # 0

StepFails ==
    /\ cmd.name # "none"
    /\ LET step == Head(cmd.plan)
           left == StepsAfter(step)
           broke == cmd.broke \/ step \in {"stop", "endTask", "kill", "start"}
       IN  IF left # <<>>
           THEN cmd' = [cmd EXCEPT !.plan = left, !.ok = FALSE, !.broke = broke] /\ UNCHANGED wanted
           ELSE cmd' = Idle /\ wanted' = IF step = "stage" THEN wanted ELSE "unknown"
    /\ \/ /\ disk' = [f \in Files |-> IF Restores(f) THEN aside[f] ELSE disk[f]]
          /\ aside' = [f \in Files |-> IF Restores(f) THEN 0 ELSE aside[f]]
          /\ UNCHANGED mishap
       \/ /\ \E f \in Files : Restores(f)     \* the rename back fails as well
          /\ mishap' = TRUE
          /\ UNCHANGED <<disk, aside>>
    /\ UNCHANGED <<os, packaged, unit, job, proc>>

\* The terminal is closed or the machine goes down in the middle of a command.
CommandKilled ==
    /\ cmd.name # "none"
    /\ cmd' = Idle /\ wanted' = "unknown" /\ mishap' = TRUE
    /\ UNCHANGED <<os, packaged, disk, aside, unit, job, proc>>

-----------------------------------------------------------------------------
(* The service manager (external) and the daemon.                          *)

\* The manager starts the daemon, or starts it again after it failed.
Respawn ==
    /\ job = "up" /\ proc = 0 /\ Current # 0
    /\ proc' = Current
    /\ UNCHANGED <<os, packaged, disk, aside, unit, job, cmd, wanted, mishap>>

\* systemd (Restart=on-failure) and the task (RestartOnFailure) start the
\* daemon again only when its exit code is not zero; launchd (KeepAlive) always.
Exit(code) ==
    /\ proc # 0
    /\ proc' = 0
    /\ job' = IF code = 0 /\ os # "darwin" THEN "down" ELSE job
    /\ UNCHANGED <<os, packaged, disk, aside, unit, cmd, wanted, mishap>>

DaemonCrash == Exit(1)

\* watchBinary: the path holds another file than at start.  Off on Windows,
\* and a missing file is ignored.
CleanStatus == 0
exitBinaryReplaced == 75
WatchTick ==
    /\ os # "windows" /\ Current # 0 /\ proc # Current
    /\ Exit(exitBinaryReplaced)

\* The package manager puts a newer version in place, or the operator
\* downloads one by hand.
PackageUpgrade ==
    /\ disk["exe"] < MaxVersion
    /\ disk' = [disk EXCEPT !["exe"] = @ + 1]
    /\ UNCHANGED <<os, packaged, aside, unit, job, proc, cmd, wanted, mishap>>

\* A new login session starts every installed service.
Login ==
    /\ unit # "none" /\ cmd.name = "none" /\ job = "down" /\ proc = 0
    /\ job' = "up"
    /\ wanted' = IF wanted = "down" THEN "up" ELSE wanted
    /\ UNCHANGED <<os, packaged, disk, aside, unit, proc, cmd, mishap>>

Steps ==
    \/ StopService \/ StopScheduledTask \/ KillFerngeistProcess
    \/ ServiceExecutable \/ WriteEnvFile \/ SaveInstallOptions \/ WriteUnit \/ StartService
    \/ RemoveUnit \/ StageUpdate
    \/ \E f \in Files : MoveAside(f) \/ PlaceBinary(f)

SvcNext ==
    \/ RunDaemonInstall \/ RunDaemonUninstall \/ RunDaemonStart
    \/ RunDaemonStop \/ RunDaemonRestart \/ RunUpdate
    \/ Steps \/ StepFails \/ CommandKilled
    \/ Respawn \/ DaemonCrash \/ WatchTick \/ PackageUpgrade \/ Login

SvcFairness == WF_svcVars(Steps) /\ WF_svcVars(Respawn) /\ WF_svcVars(WatchTick)

SvcSpec == SvcInit /\ [][SvcNext]_svcVars
SvcFairSpec == SvcSpec /\ SvcFairness

-----------------------------------------------------------------------------
ManagerFails == StepFails /\ Head(cmd.plan) \in {"stop", "endTask", "kill", "start"}

(* Whichever of its steps fails, no command leaves the service worse off.  *)
(* One that had a binary to run still has one (swapBinary puts the old one *)
(* back), and an update that found the service running leaves it running   *)
(* (runUpdate restarts even after a failed swap).  Not claimed when a      *)
(* command was killed, which on Windows can happen between two renames, or *)
(* when the service manager itself failed, nor for the binary of a package *)
(* build: its install removes the copy that the old unit still runs before *)
(* it writes the new unit.                                                 *)
CommandsKeepService ==
    [][ cmd.name # "none" /\ cmd'.name = "none" /\ ~mishap' =>
          /\ ~packaged /\ cmd.had /\ unit' # "none" => Current' # 0
          /\ cmd.name = "update" /\ cmd.was = "up" /\ ~cmd.broke /\ ~ManagerFails => job' = "up"
      ]_svcVars

(* A service somebody asked for ends up running the version that is        *)
(* installed, also when a package manager replaces the file under it: the  *)
(* watch makes the daemon exit and the manager starts the new one.         *)
RunsWhatIsInstalled ==
    (os # "windows" /\ wanted = "up" /\ cmd.name = "none")
        ~> (proc = Current \/ cmd.name # "none" \/ wanted # "up")
=============================================================================
