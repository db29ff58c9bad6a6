---------------------------- MODULE Installation ----------------------------
(***************************************************************************)
(* Installing a release on a systemd host and rolling back to one          *)
(* (cli/src/application/installation.rs), and installing and uninstalling  *)
(* the supervisor's unit (application/service.rs), over the service        *)
(* manager and the supervisor it runs (external, as application/units.rs   *)
(* sets them up).                                                          *)
(*                                                                         *)
(* A release is the rank of its name: names start with the time of the     *)
(* install, so a later one is greater.  /var/phoxal is a symlink that      *)
(* selects one release; the supervisor unit's ExecStart names its program  *)
(* and its bundle through that link, so the program is resolved when the   *)
(* process is spawned and the bundle when the process opens it.            *)
(*                                                                         *)
(* Every step an operation makes may fail, at most MaxFaults times in one  *)
(* operation; what must fail, the wait for the supervisor, the removal of  *)
(* a candidate or a failed release and the restart after a refused lock    *)
(* fail whatever the bound.  A step that is several system calls may fail  *)
(* before or after its effect.  The supervisor may fail at any time.       *)
(*                                                                         *)
(* Not every failure is undone: an install that cannot remove its          *)
(* candidate, or cannot read the link once it has the lock, returns with   *)
(* the robot stopped.  It is then "abandoned", not "failed".               *)
(***************************************************************************)
EXTENDS Integers

CONSTANTS
  Op,          \* phoxal install, rollback, service install, service uninstall
  MaxRelease,  \* bound: the releases ever named
  MaxFaults,   \* bound: the failing steps of one operation
  Crashes,     \* whether an operation may be killed, or the host reboot
  None         \* no release, no holder

ASSUME ReleaseAssumption == MaxRelease \in Nat \ {0} /\ None \notin Nat
ASSUME FaultAssumption   == MaxFaults \in Nat /\ Crashes \in BOOLEAN
ASSUME OpAssumption      == None \notin Op

VARIABLES
  active,      \* what /var/phoxal selects
  releases,    \* the release directories
  candidates,  \* the staged ones, not renamed to their release yet
  clock,       \* the last name given
  units,       \* the release whose runtimes the unit files describe
  loaded,      \* the one whose units systemd has read
  service,     \* the supervisor unit
  robot,       \* whether the target that wants the runtimes is started
  enabled,     \* whether it starts at boot
  unit,        \* the supervisor's unit: [file, known, enabled]: whose the file is,
               \* whose systemd has read, and whether it starts at boot
  lock,        \* the operation holding state/project.lock
  pc, kind, undoing, before, target, faults,  \* each operation's own state
  answered,    \* history: releases whose supervisor answered an operation
  orphans      \* history: releases of operations that were killed, or that
               \* could not remove them

disk    == <<active, releases, candidates, units>>
systemd == <<loaded, service, robot>>
boot    == <<enabled, unit>>
private == <<kind, before, target>>
history == <<answered, orphans>>
vars == <<disk, clock, boot, systemd, lock, pc, undoing, faults, private, history>>

Release == 1..MaxRelease

\* Unit files of more than one release.
Mixed == 0

Stopped == [state |-> "stopped", binary |-> None, bundle |-> None, restarted |-> FALSE]
Queued  == [Stopped EXCEPT !.state = "queued"]

\* Whose phoxal-supervisor.service is: validate_managed_unit tells them apart.
UnitFile == {"absent", "foreign", "managed"}

HoldsSupervisorLock == service.state \in {"locked", "answering"}

\* A machine without a release, or one whose first release runs.
Init ==
  /\ \E r \in {None, 1} :
       /\ active = r /\ units = r /\ loaded = r
       /\ releases = {1} \ {n \in Release : r = None}
       /\ answered = releases
       /\ clock = IF r = None THEN 0 ELSE 1
       /\ robot = (r # None) /\ enabled = (r # None)
       /\ service = IF r = None THEN Stopped
                    ELSE [state |-> "answering", binary |-> r, bundle |-> r,
                          restarted |-> FALSE]
       /\ unit \in {[file |-> f, known |-> f, enabled |-> f = "managed"] :
                     f \in IF r = None THEN UnitFile ELSE {"managed"}}
  /\ candidates = {}
  /\ lock = None
  /\ pc = [o \in Op |-> "idle"]
  /\ kind = [o \in Op |-> "install"]
  /\ undoing = [o \in Op |-> FALSE]
  /\ before = [o \in Op |-> None]
  /\ target = [o \in Op |-> None]
  /\ faults = [o \in Op |-> 0]
  /\ orphans = {}

(***************************************************************************)
(* Moving an operation along.                                              *)
(***************************************************************************)
Goto(o, to) == pc' = [pc EXCEPT ![o] = to] /\ UNCHANGED <<undoing, faults>>

MayFail(o) == faults[o] < MaxFaults

CountFault(o) == faults' = IF MayFail(o) THEN [faults EXCEPT ![o] = @ + 1] ELSE faults

Unlock(o) == lock' = IF lock = o THEN None ELSE lock

\* Mutant: a failed activation is cleaned up and not undone.
AfterFailureDiscards(o) ==
  /\ pc' = [pc EXCEPT ![o] = "discard"]
  /\ UNCHANGED undoing

\* A failure on the way forward starts restore_after_failed_activation; one in
\* the restore ends it, and what the attempt left is discarded either way.
AfterFailure(o) ==
  /\ pc' = [pc EXCEPT ![o] = IF undoing[o] THEN "discard" ELSE "stop"]
  /\ undoing' = [undoing EXCEPT ![o] = TRUE]

Fail(o) ==
  /\ CountFault(o)
  /\ AfterFailure(o)
  /\ Unlock(o)

\* Mutant: the restore activates the failed release again.
GoalIsTarget(o) == target[o]

\* What the activation in progress makes active.
Goal(o) == IF undoing[o] THEN before[o] ELSE target[o]

\* A unit systemd has not read can be neither stopped nor started.
UnitIsKnown == unit.known # "absent"

\* ServiceControl::stop and start.
StopService  == service' = Stopped /\ robot' = FALSE
StartService ==
  IF UnitIsKnown
  THEN /\ service' = IF service.state \in {"stopped", "failed"} THEN Queued
                     ELSE [service EXCEPT !.restarted = FALSE]
       /\ robot' = TRUE
  ELSE UNCHANGED <<service, robot>>

\* systemd reads every unit file there is.
DaemonReload == loaded' = units /\ unit' = [unit EXCEPT !.known = unit.file]

(***************************************************************************)
(* Beginning.                                                              *)
(***************************************************************************)
\* The archive is verified, named, validated and staged.  A failure up to here
\* that removes the candidate leaves nothing, and is no step.
BeginInstall(o) ==
  /\ pc[o] = "idle" /\ clock < MaxRelease
  /\ clock' = clock + 1
  /\ candidates' = candidates \cup {clock + 1}
  /\ kind' = [kind EXCEPT ![o] = "install"]
  /\ target' = [target EXCEPT ![o] = clock + 1]
  /\ before' = [before EXCEPT ![o] = active]
  /\ Goto(o, "stop")
  /\ UNCHANGED <<active, releases, units, boot, systemd, lock, history>>

\* The archive was refused and its candidate could not be removed, or what is
\* active could not be read: nothing was stopped, and the candidate stays.
StagingFails(o) ==
  /\ pc[o] = "idle" /\ clock < MaxRelease /\ MayFail(o)
  /\ CountFault(o)
  /\ clock' = clock + 1
  /\ candidates' = candidates \cup {clock + 1}
  /\ orphans' = orphans \cup {clock + 1}
  /\ kind' = [kind EXCEPT ![o] = "install"]
  /\ target' = [target EXCEPT ![o] = clock + 1]
  /\ before' = [before EXCEPT ![o] = active]
  /\ pc' = [pc EXCEPT ![o] = "refused"]
  /\ UNCHANGED <<active, releases, units, boot, systemd, lock, undoing, answered>>

\* The release the operator names, or the one before the active one.
SelectRollback == releases

BeginRollback(o) ==
  /\ pc[o] = "idle" /\ active # None
  /\ \E r \in SelectRollback : target' = [target EXCEPT ![o] = r]
  /\ kind' = [kind EXCEPT ![o] = "rollback"]
  /\ before' = [before EXCEPT ![o] = active]
  /\ Goto(o, "stop")
  /\ UNCHANGED <<disk, clock, boot, systemd, lock, history>>

\* The command returns.
Leave(o) ==
  /\ pc[o] \in {"done", "failed", "abandoned", "refused", "unfinished"}
  /\ pc' = [pc EXCEPT ![o] = "idle"]
  /\ undoing' = [undoing EXCEPT ![o] = FALSE]
  /\ faults' = [faults EXCEPT ![o] = 0]
  /\ kind' = [kind EXCEPT ![o] = "install"]
  /\ before' = [before EXCEPT ![o] = None]
  /\ target' = [target EXCEPT ![o] = None]
  /\ UNCHANGED <<disk, clock, boot, systemd, lock, history>>

(***************************************************************************)
(* Stopping and locking.                                                   *)
(***************************************************************************)
AfterStop(o) ==
  IF ~undoing[o] THEN "lock" ELSE "switch"

Stop(o) ==
  /\ pc[o] = "stop" /\ UnitIsKnown
  /\ StopService
  /\ Goto(o, AfterStop(o))
  /\ UNCHANGED <<disk, clock, boot, loaded, lock, private, history>>

\* What an install staged is removed, or stays when that fails as well.
RemoveCandidate(o) == candidates' = candidates \ {target[o]} /\ UNCHANGED orphans
LeaveCandidate(o) ==
  /\ kind[o] = "install"
  /\ orphans' = orphans \cup {target[o]}
  /\ UNCHANGED candidates

\* The target is stopped first and its failure ignored.  On the way forward the
\* command ends here; in a restore the failure is ignored too.
StopFails(o) ==
  /\ pc[o] = "stop" /\ (MayFail(o) \/ ~UnitIsKnown)
  /\ CountFault(o)
  /\ robot' \in {robot, FALSE}
  /\ pc' = [pc EXCEPT ![o] = IF undoing[o] THEN "switch" ELSE "refused"]
  /\ \/ undoing[o] /\ UNCHANGED <<candidates, orphans>>
     \/ ~undoing[o] /\ (RemoveCandidate(o) \/ LeaveCandidate(o))
  /\ UNCHANGED <<active, releases, units, clock, boot, loaded, service, lock, undoing, private, answered>>

\* The active release an install would restore is read again under the lock; a
\* rollback keeps the one it read before it stopped the service.
TakeLock(o) ==
  /\ pc[o] = "lock" /\ lock = None /\ ~HoldsSupervisorLock
  /\ lock' = o
  /\ IF kind[o] = "install"
     THEN before' = [before EXCEPT ![o] = active] /\ Goto(o, "rename")
     ELSE UNCHANGED before /\ Goto(o, "switch")
  /\ UNCHANGED <<disk, clock, boot, systemd, kind, target, history>>

\* That reading fails: the command returns, and the lock is free again.  The robot
\* was stopped; nothing is removed, restored or restarted.
ReadUnderLockFails(o) ==
  /\ pc[o] = "lock" /\ lock = None /\ ~HoldsSupervisorLock
  /\ MayFail(o) /\ CountFault(o)
  /\ LeaveCandidate(o)
  /\ pc' = [pc EXCEPT ![o] = "abandoned"]
  /\ UNCHANGED <<active, releases, units, clock, boot, systemd, lock, undoing, private, answered>>

\* The lock is held, cannot be opened, or a supervisor still runs.
LockIsRefused(o) ==
  pc[o] = "lock" /\ (lock # None \/ HoldsSupervisorLock \/ MayFail(o))

\* An install restarts what it stopped; a rollback restores.
LockRefused(o) ==
  /\ LockIsRefused(o) /\ CountFault(o)
  /\ IF kind[o] = "install"
     THEN /\ RemoveCandidate(o)
          /\ pc' = [pc EXCEPT ![o] = "failed"] /\ UNCHANGED undoing
          /\ IF before[o] # None THEN StartService ELSE UNCHANGED <<service, robot>>
     ELSE AfterFailure(o) /\ UNCHANGED <<candidates, orphans, service, robot>>
  /\ UNCHANGED <<active, releases, units, clock, boot, loaded, lock, private, answered>>

\* The candidate cannot be removed, which ends the command before the restart; or
\* the restart fails, which is ignored.
RefusalFails(o) ==
  /\ LockIsRefused(o) /\ CountFault(o)
  /\ kind[o] = "install"
  /\ \/ LeaveCandidate(o)
     \/ before[o] # None /\ RemoveCandidate(o)
  /\ pc' = [pc EXCEPT ![o] = "abandoned"]
  /\ UNCHANGED <<active, releases, units, clock, boot, systemd, lock, undoing, private, answered>>

(***************************************************************************)
(* Publishing and activating.                                              *)
(***************************************************************************)
Rename(o) ==
  /\ pc[o] = "rename"
  /\ releases' = releases \cup {target[o]}
  /\ candidates' = candidates \ {target[o]}
  /\ Goto(o, "switch")
  /\ UNCHANGED <<active, units, clock, boot, systemd, lock, private, history>>

RenameFails(o) ==
  /\ pc[o] = "rename" /\ MayFail(o)
  /\ \/ UNCHANGED <<releases, candidates>>
     \/ /\ releases' = releases \cup {target[o]}
        /\ candidates' = candidates \ {target[o]}
  /\ Fail(o)
  /\ UNCHANGED <<active, units, clock, boot, systemd, private, history>>

\* activate, step by step.  With nothing to restore, the link is removed.
Switch(o) ==
  /\ pc[o] = "switch"
  /\ active' = Goal(o)
  /\ Goto(o, IF Goal(o) = None THEN "discard" ELSE "regenerate")
  /\ UNCHANGED <<releases, candidates, units, clock, boot, systemd, lock, private, history>>

SwitchFails(o) ==
  /\ pc[o] = "switch" /\ MayFail(o)
  /\ active' \in {active, Goal(o)}
  /\ Fail(o)
  /\ UNCHANGED <<releases, candidates, units, clock, boot, systemd, private, history>>

\* The runtimes are read from the release's own manifest.
Regenerate(o) ==
  /\ pc[o] = "regenerate" /\ Goal(o) \in releases
  /\ units' = Goal(o)
  /\ Goto(o, "reload")
  /\ UNCHANGED <<active, releases, candidates, clock, boot, systemd, lock, private, history>>

RegenerateFails(o) ==
  /\ pc[o] = "regenerate" /\ (MayFail(o) \/ Goal(o) \notin releases)
  /\ units' \in {units, Mixed, Goal(o)}
  /\ Fail(o)
  /\ UNCHANGED <<active, releases, candidates, clock, boot, systemd, private, history>>

\* Mutant: systemd is left with the units it knows.
ReloadForgotten(o) ==
  /\ pc[o] = "reload"
  /\ Goto(o, "start")
  /\ Unlock(o)
  /\ UNCHANGED <<disk, clock, boot, systemd, private, history>>

\* daemon-reload, then the target is enabled, and the lock is released.
Reload(o) ==
  /\ pc[o] = "reload"
  /\ DaemonReload /\ enabled' = TRUE
  /\ Goto(o, "start")
  /\ Unlock(o)
  /\ UNCHANGED <<disk, clock, service, robot, private, history>>

ReloadFails(o) ==
  /\ pc[o] = "reload" /\ MayFail(o)
  /\ \/ UNCHANGED <<loaded, boot>>
     \/ DaemonReload /\ enabled' \in {enabled, TRUE}
  /\ Fail(o)
  /\ UNCHANGED <<disk, clock, service, robot, private, history>>

(***************************************************************************)
(* Starting, observing, undoing.                                           *)
(***************************************************************************)
Start(o) ==
  /\ pc[o] = "start" /\ UnitIsKnown
  /\ StartService
  /\ Goto(o, "observe")
  /\ UNCHANGED <<disk, clock, boot, loaded, lock, private, history>>

StartFails(o) ==
  /\ pc[o] = "start" /\ (MayFail(o) \/ ~UnitIsKnown)
  /\ \/ UNCHANGED <<service, robot>>
     \/ StartService
  /\ Fail(o)
  /\ UNCHANGED <<disk, clock, boot, loaded, private, history>>

\* The supervisor that answers the endpoint is taken for the release's own.
Observe(o) ==
  /\ pc[o] = "observe"
  /\ service.state = "answering" /\ ~service.restarted
  /\ Goto(o, IF undoing[o] THEN "discard" ELSE "done")
  /\ answered' = IF undoing[o] THEN answered ELSE answered \cup {service.binary}
  /\ UNCHANGED <<disk, clock, boot, systemd, lock, private, orphans>>

\* systemd_failure, a compatibility refusal, or the budget runs out: that a
\* restored release does not answer is the last thing that can go wrong.
ObserveFails(o) ==
  /\ pc[o] = "observe"
  /\ IF undoing[o] THEN Goto(o, "discard") /\ UNCHANGED lock ELSE Fail(o)
  /\ UNCHANGED <<disk, clock, boot, systemd, private, history>>

\* Mutant: only the name it staged under is removed.
DiscardCandidate(o) ==
  /\ pc[o] = "discard"
  /\ candidates' = candidates \ {target[o]}
  /\ Goto(o, "failed")
  /\ UNCHANGED <<active, releases, units, clock, boot, systemd, lock, private, history>>

\* An install removes both names it may have left; a rollback made none.
Discard(o) ==
  /\ pc[o] = "discard"
  /\ IF kind[o] = "install"
     THEN /\ releases' = releases \ {target[o]}
          /\ candidates' = candidates \ {target[o]}
     ELSE UNCHANGED <<releases, candidates>>
  /\ Goto(o, "failed")
  /\ UNCHANGED <<active, units, clock, boot, systemd, lock, private, history>>

DiscardFails(o) ==
  /\ pc[o] = "discard" /\ kind[o] = "install"
  /\ orphans' = orphans \cup {target[o]}
  /\ Goto(o, "failed")
  /\ UNCHANGED <<disk, clock, boot, systemd, lock, private, answered>>

(***************************************************************************)
(* Installing and uninstalling the supervisor's unit, under no lock.  A    *)
(* step that fails ends the command and takes nothing back.                *)
(***************************************************************************)
ServiceFails(o) ==
  /\ MayFail(o) /\ CountFault(o)
  /\ pc' = [pc EXCEPT ![o] = "unfinished"]
  /\ UNCHANGED undoing

\* A foreign unit ends the command having touched nothing, and there is nothing
\* to uninstall where there is no unit.
BeginService(o) ==
  /\ pc[o] = "idle"
  /\ \E k \in {"service-install", "service-uninstall"} :
       /\ kind' = [kind EXCEPT ![o] = k]
       /\ Goto(o, IF unit.file = "foreign" THEN "refused"
                  ELSE IF k = "service-install" THEN "prepare"
                  ELSE IF unit.file = "absent" THEN "done" ELSE "disable")
  /\ UNCHANGED <<disk, clock, boot, systemd, lock, before, target, history>>

\* The group, the user and the directories that the unit runs in.
PrepareHost(o) ==
  /\ pc[o] = "prepare"
  /\ Goto(o, "write-unit") \/ ServiceFails(o)
  /\ UNCHANGED <<disk, clock, boot, systemd, lock, private, history>>

\* write_managed_unit asks again whose the unit is; a rename puts it in place.
WriteUnit(o) ==
  /\ pc[o] = "write-unit" /\ unit.file # "foreign"
  /\ \/ /\ unit' = [unit EXCEPT !.file = "managed"]
        /\ Goto(o, "read-units") \/ ServiceFails(o)
     \/ ServiceFails(o) /\ UNCHANGED unit
  /\ UNCHANGED <<disk, clock, enabled, systemd, lock, private, history>>

\* systemctl disable --now: the units of the runtimes are part of the
\* supervisor's, and the target requires it.
DisableUnit(o) ==
  /\ pc[o] = "disable"
  /\ \/ /\ UnitIsKnown /\ StopService
        /\ unit' = [unit EXCEPT !.enabled = FALSE]
        /\ Goto(o, "remove-unit")
     \/ /\ ~UnitIsKnown /\ Goto(o, "unfinished") /\ UNCHANGED <<service, robot>>
        /\ unit' \in {unit, [unit EXCEPT !.enabled = FALSE]}
     \/ /\ ServiceFails(o) /\ UNCHANGED <<service, robot>>
        /\ unit' \in {unit, [unit EXCEPT !.enabled = FALSE]}
  /\ UNCHANGED <<disk, clock, enabled, loaded, lock, private, history>>

RemoveUnit(o) ==
  /\ pc[o] = "remove-unit"
  /\ \/ /\ unit' = [unit EXCEPT !.file = "absent"]
        /\ Goto(o, "read-units") \/ ServiceFails(o)
     \/ ServiceFails(o) /\ UNCHANGED unit
  /\ UNCHANGED <<disk, clock, enabled, systemd, lock, private, history>>

\* daemon-reload; an installed unit is then enabled, a removed one is done with.
ReadUnits(o) ==
  /\ pc[o] = "read-units"
  /\ \/ DaemonReload /\ Goto(o, IF kind[o] = "service-install" THEN "enable-unit" ELSE "done")
     \/ ServiceFails(o) /\ UNCHANGED <<loaded, unit>>
  /\ UNCHANGED <<disk, clock, enabled, service, robot, lock, private, history>>

EnableUnit(o) ==
  /\ pc[o] = "enable-unit"
  /\ \/ unit' = [unit EXCEPT !.enabled = TRUE] /\ Goto(o, "done")
     \/ ServiceFails(o) /\ UNCHANGED unit
  /\ UNCHANGED <<disk, clock, enabled, systemd, lock, private, history>>

(***************************************************************************)
(* The service manager and the host.                                       *)
(***************************************************************************)
Spawn ==
  /\ service.state = "queued"
  /\ service' = IF active \in releases /\ unit.known = "managed"
                THEN [service EXCEPT !.state = "spawned", !.binary = active, !.bundle = None]
                ELSE [service EXCEPT !.state = "failed"]
  /\ UNCHANGED <<disk, clock, boot, loaded, robot, lock, pc, undoing, faults, private, history>>

\* The supervisor takes its lock, then opens the bundle through the link.
OpenBundle ==
  /\ service.state = "spawned"
  /\ service' = IF active \in releases
                THEN [service EXCEPT !.state = "locked", !.bundle = active]
                ELSE [service EXCEPT !.state = "failed"]
  /\ UNCHANGED <<disk, clock, boot, loaded, robot, lock, pc, undoing, faults, private, history>>

Answer ==
  /\ service.state = "locked"
  /\ service' = [service EXCEPT !.state = "answering"]
  /\ UNCHANGED <<disk, clock, boot, loaded, robot, lock, pc, undoing, faults, private, history>>

\* Restart=on-failure, until the start limit is hit.
Break ==
  /\ service.state \in {"spawned", "locked", "answering"}
  /\ service' \in {[Queued EXCEPT !.restarted = TRUE],
                   [Stopped EXCEPT !.state = "failed"]}
  /\ UNCHANGED <<disk, clock, boot, loaded, robot, lock, pc, undoing, faults, private, history>>

Gone(dying) ==
  /\ pc' = [o \in Op |-> IF o \in dying THEN "idle" ELSE pc[o]]
  /\ undoing' = [o \in Op |-> undoing[o] /\ o \notin dying]
  /\ faults' = [o \in Op |-> IF o \in dying THEN 0 ELSE faults[o]]
  /\ kind' = [o \in Op |-> IF o \in dying THEN "install" ELSE kind[o]]
  /\ before' = [o \in Op |-> IF o \in dying THEN None ELSE before[o]]
  /\ target' = [o \in Op |-> IF o \in dying THEN None ELSE target[o]]
  /\ lock' = IF lock \in dying THEN None ELSE lock
  /\ orphans' = orphans \cup {target[o] : o \in {p \in dying : kind[p] = "install"}}

Killed(o) ==
  /\ Crashes /\ pc[o] # "idle"
  /\ Gone({o})
  /\ UNCHANGED <<disk, clock, boot, systemd, answered>>

\* service install enabled the supervisor unit, an activation the target, which
\* requires the supervisor.
Reboot ==
  /\ Crashes
  /\ Gone({o \in Op : pc[o] # "idle"})
  /\ DaemonReload
  /\ service' = IF unit.file # "absent" /\ (unit.enabled \/ enabled) THEN Queued ELSE Stopped
  /\ robot' = (enabled /\ unit.file # "absent")
  /\ UNCHANGED <<disk, clock, enabled, answered>>

OpStep(o) ==
  \/ BeginInstall(o) \/ StagingFails(o) \/ BeginRollback(o) \/ Leave(o)
  \/ Stop(o) \/ StopFails(o) \/ TakeLock(o) \/ ReadUnderLockFails(o)
  \/ LockRefused(o) \/ RefusalFails(o)
  \/ Rename(o) \/ RenameFails(o) \/ Switch(o) \/ SwitchFails(o)
  \/ Regenerate(o) \/ RegenerateFails(o) \/ Reload(o) \/ ReloadFails(o)
  \/ Start(o) \/ StartFails(o) \/ Observe(o) \/ ObserveFails(o)
  \/ Discard(o) \/ DiscardFails(o) \/ Killed(o)
  \/ BeginService(o) \/ PrepareHost(o) \/ WriteUnit(o) \/ DisableUnit(o)
  \/ RemoveUnit(o) \/ ReadUnits(o) \/ EnableUnit(o)

Next == (\E o \in Op : OpStep(o)) \/ Spawn \/ OpenBundle \/ Answer \/ Break \/ Reboot

Spec == Init /\ [][Next]_vars

(***************************************************************************)
(* Safety of one operation at a time that meets at most one failure.       *)
(***************************************************************************)
\* A command that fails after it stopped the robot leaves the release active that
\* was, and nothing of its own that it could remove; and it starts that release
\* again, with its units (undo_failed_activation, and the refusal of the lock).
\* The exception is an install that is abandoned before it published anything,
\* which leaves the robot stopped: it could not read the link under the lock
\* (installation.rs:502), or the lock was refused and it could not remove its
\* candidate (:495) or restart the service (:497).
FailureRestores ==
  \A o \in Op :
    /\ pc[o] \in {"failed", "abandoned"} =>
         /\ active = before[o]
         /\ kind[o] = "install" => target[o] \notin (releases \cup candidates) \ orphans
    /\ pc[o] = "abandoned" => kind[o] = "install" /\ target[o] \notin releases
    /\ pc[o] = "failed" /\ before[o] # None =>
         /\ unit.file # "absent" => service.state # "stopped" /\ robot
         /\ undoing[o] => loaded = before[o]

\* A command that succeeds leaves its release active, its units loaded, and
\* both halves of any supervisor that runs of that release.  An installed unit
\* is ours, read and enabled, and no supervisor is left running without a unit.
SuccessIsWhole ==
  \A o \in Op : pc[o] = "done" =>
    /\ kind[o] \in {"install", "rollback"} =>
         /\ active = target[o] /\ loaded = target[o]
         /\ HoldsSupervisorLock => service.binary = target[o] /\ service.bundle = target[o]
    /\ kind[o] = "service-install" =>
         unit = [file |-> "managed", known |-> "managed", enabled |-> TRUE]
    /\ kind[o] = "service-uninstall" =>
         unit.file = "absent" /\ (~UnitIsKnown => service.state = "stopped")

\* /var/phoxal never selects a release that has been removed, whenever an
\* operation is killed or the host reboots.
ActiveExists == active # None => active \in releases

\* A rollback can only reach releases whose supervisor once answered, the one
\* being installed, and those whose install was killed or could not be cleaned
\* up (observe_or_restore).
RollbackIndexAnswered ==
  releases \subseteq answered \cup orphans
                     \cup {target[o] : o \in {p \in Op : pc[p] # "idle"}}

(***************************************************************************)
(* What the repository says and the code does not keep.                    *)
(***************************************************************************)
\* At no moment does the supervisor of one release execute the bundle of
\* another (the head of installation.rs).
OneReleaseRuns == HoldsSupervisorLock => service.binary = service.bundle

=============================================================================
