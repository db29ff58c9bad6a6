------------------------ MODULE InstallationProofs ------------------------
(***************************************************************************)
(* Theorems about Installation, for any number of releases and operations  *)
(* that follow each other: no two at once, and at most one failure in each *)
(* besides those that nothing bounds.  Two at once part company with the   *)
(* head of installation.rs (OneReleaseRuns), and a second failure may hit  *)
(* the restore of the first, which the code reports and does not repair.   *)
(***************************************************************************)
EXTENDS Installation, TLAPS

\* Operations follow each other, and each meets at most one failure.
OneAtATime == \A o, p \in Op : o = p
OneFailure == MaxFaults <= 1

(***************************************************************************)
(* The invariant.                                                          *)
(***************************************************************************)
Activating == {"stop", "lock", "rename", "switch", "regenerate", "reload", "start",
               "observe", "discard", "failed", "abandoned"}
Installing   == {"prepare", "write-unit", "enable-unit"}
Uninstalling == {"disable", "remove-unit"}
Points == {"stop", "lock", "rename", "switch", "regenerate", "reload", "start",
           "observe", "discard", "failed", "abandoned", "prepare", "write-unit", "enable-unit",
           "disable", "remove-unit", "read-units", "idle", "done", "refused", "unfinished"}
Kinds  == {"install", "rollback", "service-install", "service-uninstall"}
Chosen == Release \cup {None}
Service == [state : {"stopped", "failed", "queued", "spawned", "locked", "answering"},
            binary : Chosen, bundle : Chosen, restarted : BOOLEAN]
Unit == [file : UnitFile, known : UnitFile, enabled : BOOLEAN]

DiskTypes ==
  /\ active \in Chosen /\ releases \subseteq Release /\ candidates \subseteq Release
  /\ clock \in 0..MaxRelease
  /\ units \in Chosen \cup {Mixed} /\ loaded \in Chosen \cup {Mixed}
  /\ answered \subseteq Chosen /\ orphans \subseteq Chosen

ServiceTypes ==
  /\ service \in Service /\ unit \in Unit
  /\ robot \in BOOLEAN /\ enabled \in BOOLEAN

OpTypes ==
  /\ lock \in Op \cup {None}
  /\ pc \in [Op -> Points] /\ kind \in [Op -> Kinds]
  /\ undoing \in [Op -> BOOLEAN] /\ faults \in [Op -> Nat]
  /\ before \in [Op -> Chosen] /\ target \in [Op -> Chosen]

TypeOK == DiskTypes /\ ServiceTypes /\ OpTypes

\* Where an operation is says what it is; a restore meets no failure any more.
ControlOK(o) ==
  /\ pc[o] = "idle" => kind[o] = "install" /\ ~undoing[o]
  /\ pc[o] \in Activating => kind[o] \in {"install", "rollback"}
  /\ pc[o] \in {"rename", "abandoned"} => kind[o] = "install"
  /\ pc[o] \in Installing => kind[o] = "service-install"
  /\ pc[o] \in Uninstalling => kind[o] = "service-uninstall"
  /\ pc[o] \in {"read-units", "unfinished"} => kind[o] \in {"service-install", "service-uninstall"}
  /\ undoing[o] => pc[o] \in Activating \ {"lock", "rename", "abandoned"} /\ ~MayFail(o)
  /\ pc[o] = "discard" => undoing[o]

Works(o) == pc[o] # "idle" /\ kind[o] \in {"install", "rollback"}

\* Names are given once, and what an operation may go back to is there.
NamesOK(o) ==
  Works(o) =>
    /\ target[o] \in Release
    /\ before[o] # None => before[o] \in releases
    /\ kind[o] = "install"  => target[o] <= clock /\ target[o] # before[o]
    /\ kind[o] = "rollback" => target[o] \in releases
    /\ ~undoing[o] /\ pc[o] \in {"stop", "lock", "rename", "switch", "refused", "failed", "abandoned"} =>
         active = before[o]

\* Whether what an install publishes is there.
PublishedOK(o) ==
  Works(o) /\ kind[o] = "install" =>
    /\ pc[o] \in {"stop", "lock", "rename", "refused", "abandoned"} /\ ~undoing[o] =>
         target[o] \notin releases
    /\ pc[o] \in {"switch", "regenerate", "reload", "start", "observe"} /\ ~undoing[o] =>
         target[o] \in releases
    /\ pc[o] = "done" => target[o] \in answered
    /\ pc[o] \in {"failed", "abandoned"} =>
         target[o] \notin (releases \cup candidates) \ orphans

\* On the way forward: nothing runs until the release is whole.
ForwardOK(o) ==
  Works(o) /\ ~undoing[o] =>
    /\ pc[o] = "lock" => UnitIsKnown
    /\ pc[o] \in {"lock", "rename", "switch", "regenerate", "reload", "start"} => service = Stopped
    /\ pc[o] \in {"regenerate", "reload", "start", "observe", "done"} => active = target[o]
    /\ pc[o] = "reload" => units = target[o]
    /\ pc[o] \in {"start", "observe", "done"} => loaded = target[o]
    /\ pc[o] \in {"observe", "done"} =>
         /\ service.state \in {"spawned", "locked", "answering"} => service.binary = target[o]
         /\ service.state \in {"locked", "answering"} => service.bundle = target[o]
    /\ pc[o] = "failed" /\ before[o] # None /\ unit.file # "absent" =>
         service.state # "stopped" /\ robot

\* On the way back.
RestoreOK(o) ==
  undoing[o] =>
    /\ pc[o] \in {"switch", "regenerate", "reload", "start"} => service.state = "stopped"
    /\ pc[o] \in {"regenerate", "reload", "start", "observe"} =>
         before[o] # None /\ active = before[o]
    /\ pc[o] = "reload" => units = before[o]
    /\ pc[o] \in {"start", "observe"} => loaded = before[o] /\ unit.known = unit.file
    /\ pc[o] = "observe" => service.state # "stopped" /\ robot
    /\ pc[o] \in {"discard", "failed"} =>
         /\ active = before[o]
         /\ before[o] # None => loaded = before[o]
         /\ before[o] # None /\ unit.file # "absent" => service.state # "stopped" /\ robot

\* Installing and uninstalling the unit.
UnitOK(o) ==
  /\ pc[o] \in {"prepare", "write-unit"} => unit.file # "foreign"
  /\ pc[o] = "read-units" /\ kind[o] = "service-install" => unit.file = "managed"
  /\ pc[o] = "enable-unit" => unit.file = "managed" /\ unit.known = "managed"
  /\ pc[o] = "done" /\ kind[o] = "service-install" =>
       unit = [file |-> "managed", known |-> "managed", enabled |-> TRUE]
  /\ pc[o] \in {"remove-unit", "read-units"} /\ kind[o] = "service-uninstall" =>
       service.state = "stopped"
  /\ pc[o] \in {"read-units", "done"} /\ kind[o] = "service-uninstall" => unit.file = "absent"

\* A service whose unit systemd does not know does not run.
KnownRuns == ~UnitIsKnown => service.state = "stopped"

\* Every name was given by the clock.
Named == \A r \in releases \cup candidates : r <= clock

\* RollbackIndexAnswered, of which only an install may be the exception.
IndexOK ==
  \A r \in releases : r \in answered \cup orphans
                      \/ \E o \in Op : Works(o) /\ kind[o] = "install" /\ target[o] = r

OpOK(o) ==
  ControlOK(o) /\ NamesOK(o) /\ PublishedOK(o) /\ ForwardOK(o) /\ RestoreOK(o) /\ UnitOK(o)

IInv ==
  /\ TypeOK /\ KnownRuns /\ Named /\ ActiveExists /\ IndexOK
  /\ \A o \in Op : OpOK(o)

(***************************************************************************)
(* Every step keeps it.                                                    *)
(***************************************************************************)
\* Every step keeps the types of what is on disk.
LEMMA DiskTypesStep ==
  ASSUME IInv, [Next]_vars
  PROVE  DiskTypes'
<1>. USE ReleaseAssumption, FaultAssumption DEF vars, disk, systemd, boot, private, history, IInv, TypeOK, DiskTypes, OpTypes, Release, Chosen, Mixed, Goal, SelectRollback, DaemonReload, Gone
<1>1. CASE UNCHANGED vars
  BY <1>1
<1>2. ASSUME NEW o \in Op, OpStep(o) PROVE DiskTypes'
  <2>1. CASE BeginInstall(o)  BY <2>1 DEF BeginInstall
  <2>2. CASE BeginRollback(o)  BY <2>2 DEF BeginRollback
  <2>3. CASE Leave(o)  BY <2>3 DEF Leave
  <2>4. CASE Stop(o)  BY <2>4 DEF Stop
  <2>5. CASE StopFails(o)  BY <2>5 DEF StopFails, RemoveCandidate, LeaveCandidate
  <2>6. CASE TakeLock(o)  BY <2>6 DEF TakeLock
  <2>7. CASE LockRefused(o)  BY <2>7 DEF LockRefused, LockIsRefused, RemoveCandidate
  <2>8. CASE Rename(o)
    <3>1. target[o] \in Release  BY <2>8 DEF Rename, OpOK, ControlOK, NamesOK, Works, Activating
    <3>. QED  BY <2>8, <3>1 DEF Rename
  <2>9. CASE RenameFails(o)
    <3>1. target[o] \in Release  BY <2>9 DEF RenameFails, OpOK, ControlOK, NamesOK, Works, Activating
    <3>. QED  BY <2>9, <3>1 DEF RenameFails
  <2>10. CASE Switch(o)  BY <2>10 DEF Switch
  <2>11. CASE SwitchFails(o)  BY <2>11 DEF SwitchFails
  <2>12. CASE Regenerate(o)  BY <2>12 DEF Regenerate
  <2>13. CASE RegenerateFails(o)  BY <2>13 DEF RegenerateFails
  <2>14. CASE Reload(o)  BY <2>14 DEF Reload
  <2>15. CASE ReloadFails(o)  BY <2>15 DEF ReloadFails
  <2>16. CASE Start(o)  BY <2>16 DEF Start
  <2>17. CASE StartFails(o)  BY <2>17 DEF StartFails
  <2>18. CASE Observe(o)
    BY <2>18 DEF Observe, ServiceTypes, Service
  <2>19. CASE ObserveFails(o)  BY <2>19 DEF ObserveFails
  <2>20. CASE Discard(o)  BY <2>20 DEF Discard
  <2>21. CASE DiscardFails(o)  BY <2>21 DEF DiscardFails
  <2>22. CASE Killed(o)  BY <2>22 DEF Killed
  <2>23. CASE BeginService(o)  BY <2>23 DEF BeginService
  <2>24. CASE PrepareHost(o)  BY <2>24 DEF PrepareHost
  <2>25. CASE WriteUnit(o)  BY <2>25 DEF WriteUnit
  <2>26. CASE DisableUnit(o)  BY <2>26 DEF DisableUnit
  <2>27. CASE RemoveUnit(o)  BY <2>27 DEF RemoveUnit
  <2>28. CASE ReadUnits(o)  BY <2>28 DEF ReadUnits
  <2>29. CASE EnableUnit(o)  BY <2>29 DEF EnableUnit
  <2>30. CASE StagingFails(o)  BY <2>30 DEF StagingFails
  <2>31. CASE ReadUnderLockFails(o)  BY <2>31 DEF ReadUnderLockFails, LeaveCandidate
  <2>32. CASE RefusalFails(o)  BY <2>32 DEF RefusalFails, LockIsRefused, RemoveCandidate, LeaveCandidate
  <2>. QED  BY <1>2, <2>1, <2>2, <2>3, <2>4, <2>5, <2>6, <2>7, <2>8, <2>9, <2>10, <2>11, <2>12, <2>13, <2>14, <2>15, <2>16, <2>17, <2>18, <2>19, <2>20, <2>21, <2>22, <2>23, <2>24, <2>25, <2>26, <2>27, <2>28, <2>29, <2>30, <2>31, <2>32 DEF OpStep
<1>3. CASE Spawn  BY <1>3 DEF Spawn
<1>4. CASE OpenBundle  BY <1>4 DEF OpenBundle
<1>5. CASE Answer  BY <1>5 DEF Answer
<1>6. CASE Break  BY <1>6 DEF Break
<1>7. CASE Reboot  BY <1>7 DEF Reboot
<1>. QED  BY <1>1, <1>2, <1>3, <1>4, <1>5, <1>6, <1>7 DEF Next

\* And of what systemd has.
LEMMA ServiceTypesStep ==
  ASSUME IInv, [Next]_vars
  PROVE  ServiceTypes'
<1>. USE DEF vars, disk, systemd, boot, private, history, IInv, TypeOK, ServiceTypes, DiskTypes, StartService, StopService, DaemonReload, Stopped, Queued, Service, Unit, UnitFile, Chosen
<1>1. CASE UNCHANGED vars
  BY <1>1
<1>2. ASSUME NEW o \in Op, OpStep(o) PROVE ServiceTypes'
  <2>1. CASE BeginInstall(o)  BY <2>1 DEF BeginInstall
  <2>2. CASE BeginRollback(o)  BY <2>2 DEF BeginRollback
  <2>3. CASE Leave(o)  BY <2>3 DEF Leave
  <2>4. CASE Stop(o)  BY <2>4 DEF Stop
  <2>5. CASE StopFails(o)  BY <2>5 DEF StopFails, RemoveCandidate, LeaveCandidate
  <2>6. CASE TakeLock(o)  BY <2>6 DEF TakeLock
  <2>7. CASE LockRefused(o)
    <3>1. CASE kind[o] = "install" /\ before[o] # None /\ UnitIsKnown  BY <2>7, <3>1 DEF LockRefused, LockIsRefused, RemoveCandidate
    <3>2. CASE ~(kind[o] = "install" /\ before[o] # None /\ UnitIsKnown)
      BY <2>7, <3>2 DEF LockRefused, LockIsRefused, RemoveCandidate
    <3>. QED  BY <3>1, <3>2
  <2>8. CASE Rename(o)  BY <2>8 DEF Rename
  <2>9. CASE RenameFails(o)  BY <2>9 DEF RenameFails
  <2>10. CASE Switch(o)  BY <2>10 DEF Switch
  <2>11. CASE SwitchFails(o)  BY <2>11 DEF SwitchFails
  <2>12. CASE Regenerate(o)  BY <2>12 DEF Regenerate
  <2>13. CASE RegenerateFails(o)  BY <2>13 DEF RegenerateFails
  <2>14. CASE Reload(o)  BY <2>14 DEF Reload
  <2>15. CASE ReloadFails(o)  BY <2>15 DEF ReloadFails
  <2>16. CASE Start(o)  BY <2>16 DEF Start
  <2>17. CASE StartFails(o)  BY <2>17 DEF StartFails
  <2>18. CASE Observe(o)  BY <2>18 DEF Observe
  <2>19. CASE ObserveFails(o)  BY <2>19 DEF ObserveFails
  <2>20. CASE Discard(o)  BY <2>20 DEF Discard
  <2>21. CASE DiscardFails(o)  BY <2>21 DEF DiscardFails
  <2>22. CASE Killed(o)  BY <2>22 DEF Killed
  <2>23. CASE BeginService(o)  BY <2>23 DEF BeginService
  <2>24. CASE PrepareHost(o)  BY <2>24 DEF PrepareHost
  <2>25. CASE WriteUnit(o)  BY <2>25 DEF WriteUnit
  <2>26. CASE DisableUnit(o)
    <3>1. unit' = unit \/ unit' = [unit EXCEPT !.enabled = FALSE]  BY <2>26 DEF DisableUnit
    <3>2. service' \in {service, Stopped} /\ robot' \in {robot, FALSE} /\ enabled' = enabled
      BY <2>26 DEF DisableUnit
    <3>3. Stopped \in Service  OBVIOUS
    <3>4. unit' \in Unit  BY <3>1
    <3>. QED  BY <3>2, <3>3, <3>4
  <2>27. CASE RemoveUnit(o)  BY <2>27 DEF RemoveUnit
  <2>28. CASE ReadUnits(o)  BY <2>28 DEF ReadUnits
  <2>29. CASE EnableUnit(o)  BY <2>29 DEF EnableUnit
  <2>30. CASE StagingFails(o)  BY <2>30 DEF StagingFails
  <2>31. CASE ReadUnderLockFails(o)  BY <2>31 DEF ReadUnderLockFails, LeaveCandidate
  <2>32. CASE RefusalFails(o)  BY <2>32 DEF RefusalFails, LockIsRefused, RemoveCandidate, LeaveCandidate
  <2>. QED  BY <1>2, <2>1, <2>2, <2>3, <2>4, <2>5, <2>6, <2>7, <2>8, <2>9, <2>10, <2>11, <2>12, <2>13, <2>14, <2>15, <2>16, <2>17, <2>18, <2>19, <2>20, <2>21, <2>22, <2>23, <2>24, <2>25, <2>26, <2>27, <2>28, <2>29, <2>30, <2>31, <2>32 DEF OpStep
<1>3. CASE Spawn  BY <1>3 DEF Spawn
<1>4. CASE OpenBundle  BY <1>4 DEF OpenBundle
<1>5. CASE Answer  BY <1>5 DEF Answer
<1>6. CASE Break  BY <1>6 DEF Break
<1>7. CASE Reboot  BY <1>7 DEF Reboot
<1>. QED  BY <1>1, <1>2, <1>3, <1>4, <1>5, <1>6, <1>7 DEF Next

\* A failure leaves them typed.
LEMMA FailureTypes ==
  ASSUME OpTypes, NEW o \in Op, AfterFailure(o), CountFault(o)
  PROVE  pc' \in [Op -> Points] /\ undoing' \in [Op -> BOOLEAN] /\ faults' \in [Op -> Nat]
<1>1. pc' \in [Op -> Points]  BY DEF OpTypes, AfterFailure, Points
<1>2. undoing' \in [Op -> BOOLEAN]  BY DEF OpTypes, AfterFailure
<1>3. faults' \in [Op -> Nat]  BY DEF OpTypes, CountFault
<1>. QED  BY <1>1, <1>2, <1>3

\* And of the operations' own state.
LEMMA OpTypesStep ==
  ASSUME IInv, [Next]_vars
  PROVE  OpTypes'
<1>. USE ReleaseAssumption, FaultAssumption DEF vars, disk, systemd, boot, private, history, IInv, TypeOK, DiskTypes, OpTypes, Points, Kinds, Chosen, Release, AfterStop, SelectRollback, Unlock, CountFault, Goto, Fail, AfterFailure, ServiceFails, MayFail, Gone
<1>1. CASE UNCHANGED vars
  BY <1>1
<1>2. ASSUME NEW o \in Op, OpStep(o) PROVE OpTypes'
  <2>1. CASE BeginInstall(o)  BY <2>1 DEF BeginInstall
  <2>2. CASE BeginRollback(o)  BY <2>2 DEF BeginRollback
  <2>3. CASE Leave(o)  BY <2>3 DEF Leave
  <2>4. CASE Stop(o)  BY <2>4 DEF Stop
  <2>5. CASE StopFails(o)  BY <2>5 DEF StopFails, RemoveCandidate, LeaveCandidate
  <2>6. CASE TakeLock(o)  BY <2>6 DEF TakeLock
  <2>7. CASE LockRefused(o)
    <3>1. CASE kind[o] = "install"  BY <2>7, <3>1 DEF LockRefused, LockIsRefused, RemoveCandidate
    <3>2. CASE kind[o] # "install"
      <4>1. AfterFailure(o) /\ CountFault(o) /\ UNCHANGED <<lock, private>>
        BY <2>7, <3>2 DEF LockRefused, LockIsRefused, RemoveCandidate
      <4>. QED  BY <4>1, FailureTypes
    <3>. QED  BY <3>1, <3>2
  <2>8. CASE Rename(o)  BY <2>8 DEF Rename
  <2>9. CASE RenameFails(o)  BY <2>9 DEF RenameFails
  <2>10. CASE Switch(o)  BY <2>10 DEF Switch
  <2>11. CASE SwitchFails(o)  BY <2>11 DEF SwitchFails
  <2>12. CASE Regenerate(o)  BY <2>12 DEF Regenerate
  <2>13. CASE RegenerateFails(o)  BY <2>13 DEF RegenerateFails
  <2>14. CASE Reload(o)  BY <2>14 DEF Reload
  <2>15. CASE ReloadFails(o)  BY <2>15 DEF ReloadFails
  <2>16. CASE Start(o)  BY <2>16 DEF Start
  <2>17. CASE StartFails(o)  BY <2>17 DEF StartFails
  <2>18. CASE Observe(o)  BY <2>18 DEF Observe
  <2>19. CASE ObserveFails(o)
    <3>1. CASE undoing[o]  BY <2>19, <3>1 DEF ObserveFails
    <3>2. CASE ~undoing[o]  BY <2>19, <3>2, FailureTypes DEF ObserveFails
    <3>. QED  BY <3>1, <3>2
  <2>20. CASE Discard(o)  BY <2>20 DEF Discard
  <2>21. CASE DiscardFails(o)  BY <2>21 DEF DiscardFails
  <2>22. CASE Killed(o)  BY <2>22 DEF Killed
  <2>23. CASE BeginService(o)  BY <2>23 DEF BeginService
  <2>24. CASE PrepareHost(o)  BY <2>24 DEF PrepareHost
  <2>25. CASE WriteUnit(o)  BY <2>25 DEF WriteUnit
  <2>26. CASE DisableUnit(o)  BY <2>26 DEF DisableUnit
  <2>27. CASE RemoveUnit(o)  BY <2>27 DEF RemoveUnit
  <2>28. CASE ReadUnits(o)  BY <2>28 DEF ReadUnits
  <2>29. CASE EnableUnit(o)  BY <2>29 DEF EnableUnit
  <2>30. CASE StagingFails(o)  BY <2>30 DEF StagingFails
  <2>31. CASE ReadUnderLockFails(o)  BY <2>31 DEF ReadUnderLockFails, LeaveCandidate
  <2>32. CASE RefusalFails(o)  BY <2>32 DEF RefusalFails, LockIsRefused, RemoveCandidate, LeaveCandidate
  <2>. QED  BY <1>2, <2>1, <2>2, <2>3, <2>4, <2>5, <2>6, <2>7, <2>8, <2>9, <2>10, <2>11, <2>12, <2>13, <2>14, <2>15, <2>16, <2>17, <2>18, <2>19, <2>20, <2>21, <2>22, <2>23, <2>24, <2>25, <2>26, <2>27, <2>28, <2>29, <2>30, <2>31, <2>32 DEF OpStep
<1>3. CASE Spawn  BY <1>3 DEF Spawn
<1>4. CASE OpenBundle  BY <1>4 DEF OpenBundle
<1>5. CASE Answer  BY <1>5 DEF Answer
<1>6. CASE Break  BY <1>6 DEF Break
<1>7. CASE Reboot  BY <1>7 DEF Reboot
<1>. QED  BY <1>1, <1>2, <1>3, <1>4, <1>5, <1>6, <1>7 DEF Next

\* Every step keeps the place and the kind of an operation together.
LEMMA ControlStep ==
  ASSUME OneAtATime, OneFailure, IInv, [Next]_vars, NEW o \in Op
  PROVE  ControlOK(o)'
<1>. USE ReleaseAssumption, FaultAssumption DEF vars, disk, systemd, boot, private, history, IInv, OpOK, TypeOK, DiskTypes, OpTypes, ControlOK, OneFailure, Activating, Installing, Uninstalling, Kinds, Points, AfterStop, Goal, CountFault, Goto, Fail, AfterFailure, ServiceFails, MayFail, Gone
<1>1. CASE UNCHANGED vars
  BY <1>1
<1>2. ASSUME NEW p \in Op, OpStep(p) PROVE ControlOK(o)'
  <2>0. p = o  BY DEF OneAtATime
  <2>1. CASE BeginInstall(o)  BY <2>1 DEF BeginInstall
  <2>2. CASE BeginRollback(o)  BY <2>2 DEF BeginRollback
  <2>3. CASE Leave(o)  BY <2>3 DEF Leave
  <2>4. CASE Stop(o)  BY <2>4 DEF Stop
  <2>5. CASE StopFails(o)  BY <2>5 DEF StopFails, RemoveCandidate, LeaveCandidate
  <2>6. CASE TakeLock(o)  BY <2>6 DEF TakeLock
  <2>7. CASE LockRefused(o)  BY <2>7 DEF LockRefused, LockIsRefused, RemoveCandidate
  <2>8. CASE Rename(o)  BY <2>8 DEF Rename
  <2>9. CASE RenameFails(o)  BY <2>9 DEF RenameFails
  <2>10. CASE Switch(o)
    BY <2>10 DEF Switch, NamesOK, Works, Release
  <2>11. CASE SwitchFails(o)  BY <2>11 DEF SwitchFails
  <2>12. CASE Regenerate(o)  BY <2>12 DEF Regenerate
  <2>13. CASE RegenerateFails(o)  BY <2>13 DEF RegenerateFails
  <2>14. CASE Reload(o)  BY <2>14 DEF Reload
  <2>15. CASE ReloadFails(o)  BY <2>15 DEF ReloadFails
  <2>16. CASE Start(o)  BY <2>16 DEF Start
  <2>17. CASE StartFails(o)  BY <2>17 DEF StartFails
  <2>18. CASE Observe(o)  BY <2>18 DEF Observe
  <2>19. CASE ObserveFails(o)  BY <2>19 DEF ObserveFails
  <2>20. CASE Discard(o)  BY <2>20 DEF Discard
  <2>21. CASE DiscardFails(o)  BY <2>21 DEF DiscardFails
  <2>22. CASE Killed(o)  BY <2>22 DEF Killed
  <2>23. CASE BeginService(o)  BY <2>23 DEF BeginService
  <2>24. CASE PrepareHost(o)  BY <2>24 DEF PrepareHost
  <2>25. CASE WriteUnit(o)  BY <2>25 DEF WriteUnit
  <2>26. CASE DisableUnit(o)  BY <2>26 DEF DisableUnit
  <2>27. CASE RemoveUnit(o)  BY <2>27 DEF RemoveUnit
  <2>28. CASE ReadUnits(o)  BY <2>28 DEF ReadUnits
  <2>29. CASE EnableUnit(o)  BY <2>29 DEF EnableUnit
  <2>30. CASE StagingFails(o)  BY <2>30 DEF StagingFails
  <2>31. CASE ReadUnderLockFails(o)  BY <2>31 DEF ReadUnderLockFails, LeaveCandidate
  <2>32. CASE RefusalFails(o)  BY <2>32 DEF RefusalFails, LockIsRefused, RemoveCandidate, LeaveCandidate
  <2>. QED  BY <1>2, <2>0, <2>1, <2>2, <2>3, <2>4, <2>5, <2>6, <2>7, <2>8, <2>9, <2>10, <2>11, <2>12, <2>13, <2>14, <2>15, <2>16, <2>17, <2>18, <2>19, <2>20, <2>21, <2>22, <2>23, <2>24, <2>25, <2>26, <2>27, <2>28, <2>29, <2>30, <2>31, <2>32 DEF OpStep
<1>3. CASE Spawn  BY <1>3 DEF Spawn
<1>4. CASE OpenBundle  BY <1>4 DEF OpenBundle
<1>5. CASE Answer  BY <1>5 DEF Answer
<1>6. CASE Break  BY <1>6 DEF Break
<1>7. CASE Reboot  BY <1>7 DEF Reboot
<1>. QED  BY <1>1, <1>2, <1>3, <1>4, <1>5, <1>6, <1>7 DEF Next

\* Every step keeps what an operation may go back to.
LEMMA NamesStep ==
  ASSUME OneAtATime, OneFailure, IInv, [Next]_vars, NEW o \in Op
  PROVE  NamesOK(o)'
<1>. USE ReleaseAssumption, FaultAssumption DEF vars, disk, systemd, boot, private, history, IInv, OpOK, TypeOK, DiskTypes, OpTypes, ControlOK, NamesOK, Named, ActiveExists, Works, Activating, Installing, Uninstalling, Chosen, Release, SelectRollback, AfterStop, Goal, CountFault, Goto, Fail, AfterFailure, ServiceFails, MayFail, Gone
<1>1. CASE UNCHANGED vars
  BY <1>1
<1>2. ASSUME NEW p \in Op, OpStep(p) PROVE NamesOK(o)'
  <2>0. p = o  BY DEF OneAtATime
  <2>1. CASE BeginInstall(o)  BY <2>1 DEF BeginInstall
  <2>2. CASE BeginRollback(o)  BY <2>2 DEF BeginRollback
  <2>3. CASE Leave(o)  BY <2>3 DEF Leave
  <2>4. CASE Stop(o)  BY <2>4 DEF Stop
  <2>5. CASE StopFails(o)  BY <2>5 DEF StopFails, RemoveCandidate, LeaveCandidate
  <2>6. CASE TakeLock(o)  BY <2>6 DEF TakeLock
  <2>7. CASE LockRefused(o)  BY <2>7 DEF LockRefused, LockIsRefused, RemoveCandidate
  <2>8. CASE Rename(o)  BY <2>8 DEF Rename
  <2>9. CASE RenameFails(o)  BY <2>9 DEF RenameFails
  <2>10. CASE Switch(o)  BY <2>10 DEF Switch
  <2>11. CASE SwitchFails(o)  BY <2>11 DEF SwitchFails
  <2>12. CASE Regenerate(o)  BY <2>12 DEF Regenerate
  <2>13. CASE RegenerateFails(o)  BY <2>13 DEF RegenerateFails
  <2>14. CASE Reload(o)  BY <2>14 DEF Reload
  <2>15. CASE ReloadFails(o)  BY <2>15 DEF ReloadFails
  <2>16. CASE Start(o)  BY <2>16 DEF Start
  <2>17. CASE StartFails(o)  BY <2>17 DEF StartFails
  <2>18. CASE Observe(o)  BY <2>18 DEF Observe
  <2>19. CASE ObserveFails(o)  BY <2>19 DEF ObserveFails
  <2>20. CASE Discard(o)  BY <2>20 DEF Discard
  <2>21. CASE DiscardFails(o)  BY <2>21 DEF DiscardFails
  <2>22. CASE Killed(o)  BY <2>22 DEF Killed
  <2>23. CASE BeginService(o)  BY <2>23 DEF BeginService
  <2>24. CASE PrepareHost(o)  BY <2>24 DEF PrepareHost
  <2>25. CASE WriteUnit(o)  BY <2>25 DEF WriteUnit
  <2>26. CASE DisableUnit(o)  BY <2>26 DEF DisableUnit
  <2>27. CASE RemoveUnit(o)  BY <2>27 DEF RemoveUnit
  <2>28. CASE ReadUnits(o)  BY <2>28 DEF ReadUnits
  <2>29. CASE EnableUnit(o)  BY <2>29 DEF EnableUnit
  <2>30. CASE StagingFails(o)  BY <2>30 DEF StagingFails
  <2>31. CASE ReadUnderLockFails(o)  BY <2>31 DEF ReadUnderLockFails, LeaveCandidate
  <2>32. CASE RefusalFails(o)  BY <2>32 DEF RefusalFails, LockIsRefused, RemoveCandidate, LeaveCandidate
  <2>. QED  BY <1>2, <2>0, <2>1, <2>2, <2>3, <2>4, <2>5, <2>6, <2>7, <2>8, <2>9, <2>10, <2>11, <2>12, <2>13, <2>14, <2>15, <2>16, <2>17, <2>18, <2>19, <2>20, <2>21, <2>22, <2>23, <2>24, <2>25, <2>26, <2>27, <2>28, <2>29, <2>30, <2>31, <2>32 DEF OpStep
<1>3. CASE Spawn  BY <1>3 DEF Spawn
<1>4. CASE OpenBundle  BY <1>4 DEF OpenBundle
<1>5. CASE Answer  BY <1>5 DEF Answer
<1>6. CASE Break  BY <1>6 DEF Break
<1>7. CASE Reboot  BY <1>7 DEF Reboot
<1>. QED  BY <1>1, <1>2, <1>3, <1>4, <1>5, <1>6, <1>7 DEF Next

\* Every step keeps track of what an install has published.
LEMMA PublishedStep ==
  ASSUME OneAtATime, OneFailure, IInv, [Next]_vars, NEW o \in Op
  PROVE  PublishedOK(o)'
<1>. USE ReleaseAssumption, FaultAssumption DEF vars, disk, systemd, boot, private, history, IInv, OpOK, TypeOK, DiskTypes, OpTypes, ControlOK, NamesOK, PublishedOK, ForwardOK, Named, Works, Activating, Installing, Uninstalling, Chosen, Release, AfterStop, Goal, CountFault, Goto, Fail, AfterFailure, ServiceFails, MayFail, Gone
<1>1. CASE UNCHANGED vars
  BY <1>1
<1>2. ASSUME NEW p \in Op, OpStep(p) PROVE PublishedOK(o)'
  <2>0. p = o  BY DEF OneAtATime
  <2>1. CASE BeginInstall(o)  BY <2>1 DEF BeginInstall
  <2>2. CASE BeginRollback(o)  BY <2>2 DEF BeginRollback
  <2>3. CASE Leave(o)  BY <2>3 DEF Leave
  <2>4. CASE Stop(o)  BY <2>4 DEF Stop
  <2>5. CASE StopFails(o)  BY <2>5 DEF StopFails, RemoveCandidate, LeaveCandidate
  <2>6. CASE TakeLock(o)  BY <2>6 DEF TakeLock
  <2>7. CASE LockRefused(o)  BY <2>7 DEF LockRefused, LockIsRefused, RemoveCandidate
  <2>8. CASE Rename(o)  BY <2>8 DEF Rename
  <2>9. CASE RenameFails(o)  BY <2>9 DEF RenameFails
  <2>10. CASE Switch(o)  BY <2>10 DEF Switch
  <2>11. CASE SwitchFails(o)  BY <2>11 DEF SwitchFails
  <2>12. CASE Regenerate(o)  BY <2>12 DEF Regenerate
  <2>13. CASE RegenerateFails(o)  BY <2>13 DEF RegenerateFails
  <2>14. CASE Reload(o)  BY <2>14 DEF Reload
  <2>15. CASE ReloadFails(o)  BY <2>15 DEF ReloadFails
  <2>16. CASE Start(o)  BY <2>16 DEF Start
  <2>17. CASE StartFails(o)  BY <2>17 DEF StartFails
  <2>18. CASE Observe(o)  BY <2>18 DEF Observe
  <2>19. CASE ObserveFails(o)  BY <2>19 DEF ObserveFails
  <2>20. CASE Discard(o)  BY <2>20 DEF Discard
  <2>21. CASE DiscardFails(o)  BY <2>21 DEF DiscardFails
  <2>22. CASE Killed(o)  BY <2>22 DEF Killed
  <2>23. CASE BeginService(o)  BY <2>23 DEF BeginService
  <2>24. CASE PrepareHost(o)  BY <2>24 DEF PrepareHost
  <2>25. CASE WriteUnit(o)  BY <2>25 DEF WriteUnit
  <2>26. CASE DisableUnit(o)  BY <2>26 DEF DisableUnit
  <2>27. CASE RemoveUnit(o)  BY <2>27 DEF RemoveUnit
  <2>28. CASE ReadUnits(o)  BY <2>28 DEF ReadUnits
  <2>29. CASE EnableUnit(o)  BY <2>29 DEF EnableUnit
  <2>30. CASE StagingFails(o)  BY <2>30 DEF StagingFails
  <2>31. CASE ReadUnderLockFails(o)  BY <2>31 DEF ReadUnderLockFails, LeaveCandidate
  <2>32. CASE RefusalFails(o)  BY <2>32 DEF RefusalFails, LockIsRefused, RemoveCandidate, LeaveCandidate
  <2>. QED  BY <1>2, <2>0, <2>1, <2>2, <2>3, <2>4, <2>5, <2>6, <2>7, <2>8, <2>9, <2>10, <2>11, <2>12, <2>13, <2>14, <2>15, <2>16, <2>17, <2>18, <2>19, <2>20, <2>21, <2>22, <2>23, <2>24, <2>25, <2>26, <2>27, <2>28, <2>29, <2>30, <2>31, <2>32 DEF OpStep
<1>3. CASE Spawn  BY <1>3 DEF Spawn
<1>4. CASE OpenBundle  BY <1>4 DEF OpenBundle
<1>5. CASE Answer  BY <1>5 DEF Answer
<1>6. CASE Break  BY <1>6 DEF Break
<1>7. CASE Reboot  BY <1>7 DEF Reboot
<1>. QED  BY <1>1, <1>2, <1>3, <1>4, <1>5, <1>6, <1>7 DEF Next

\* Every step keeps the way forward as it should be.
LEMMA ForwardStep ==
  ASSUME OneAtATime, OneFailure, IInv, [Next]_vars, NEW o \in Op
  PROVE  ForwardOK(o)'
<1>. USE ReleaseAssumption, FaultAssumption DEF vars, disk, systemd, boot, private, history, IInv, OpOK, TypeOK, DiskTypes, OpTypes, ControlOK, NamesOK, PublishedOK, ForwardOK, RestoreOK, Named, ActiveExists, Works, Activating, Installing, Uninstalling, Chosen, Release, HoldsSupervisorLock, AfterStop, Goal, ServiceTypes, Service, Stopped, Queued, Unit, UnitFile, StartService, StopService, DaemonReload, UnitIsKnown, CountFault, Goto, Fail, AfterFailure, ServiceFails, MayFail, Gone
<1>1. CASE UNCHANGED vars
  BY <1>1
<1>2. ASSUME NEW p \in Op, OpStep(p) PROVE ForwardOK(o)'
  <2>0. p = o  BY DEF OneAtATime
  <2>1. CASE BeginInstall(o)  BY <2>1 DEF BeginInstall
  <2>2. CASE BeginRollback(o)  BY <2>2 DEF BeginRollback
  <2>3. CASE Leave(o)  BY <2>3 DEF Leave
  <2>4. CASE Stop(o)  BY <2>4 DEF Stop
  <2>5. CASE StopFails(o)  BY <2>5 DEF StopFails, RemoveCandidate, LeaveCandidate
  <2>6. CASE TakeLock(o)  BY <2>6 DEF TakeLock
  <2>7. CASE LockRefused(o)  BY <2>7 DEF LockRefused, LockIsRefused, RemoveCandidate
  <2>8. CASE Rename(o)  BY <2>8 DEF Rename
  <2>9. CASE RenameFails(o)  BY <2>9 DEF RenameFails
  <2>10. CASE Switch(o)  BY <2>10 DEF Switch
  <2>11. CASE SwitchFails(o)  BY <2>11 DEF SwitchFails
  <2>12. CASE Regenerate(o)  BY <2>12 DEF Regenerate
  <2>13. CASE RegenerateFails(o)  BY <2>13 DEF RegenerateFails
  <2>14. CASE Reload(o)  BY <2>14 DEF Reload
  <2>15. CASE ReloadFails(o)  BY <2>15 DEF ReloadFails
  <2>16. CASE Start(o)  BY <2>16 DEF Start
  <2>17. CASE StartFails(o)  BY <2>17 DEF StartFails
  <2>18. CASE Observe(o)  BY <2>18 DEF Observe
  <2>19. CASE ObserveFails(o)  BY <2>19 DEF ObserveFails
  <2>20. CASE Discard(o)  BY <2>20 DEF Discard
  <2>21. CASE DiscardFails(o)  BY <2>21 DEF DiscardFails
  <2>22. CASE Killed(o)  BY <2>22 DEF Killed
  <2>23. CASE BeginService(o)  BY <2>23 DEF BeginService
  <2>24. CASE PrepareHost(o)  BY <2>24 DEF PrepareHost
  <2>25. CASE WriteUnit(o)  BY <2>25 DEF WriteUnit
  <2>26. CASE DisableUnit(o)  BY <2>26 DEF DisableUnit
  <2>27. CASE RemoveUnit(o)  BY <2>27 DEF RemoveUnit
  <2>28. CASE ReadUnits(o)  BY <2>28 DEF ReadUnits
  <2>29. CASE EnableUnit(o)  BY <2>29 DEF EnableUnit
  <2>30. CASE StagingFails(o)  BY <2>30 DEF StagingFails
  <2>31. CASE ReadUnderLockFails(o)  BY <2>31 DEF ReadUnderLockFails, LeaveCandidate
  <2>32. CASE RefusalFails(o)  BY <2>32 DEF RefusalFails, LockIsRefused, RemoveCandidate, LeaveCandidate
  <2>. QED  BY <1>2, <2>0, <2>1, <2>2, <2>3, <2>4, <2>5, <2>6, <2>7, <2>8, <2>9, <2>10, <2>11, <2>12, <2>13, <2>14, <2>15, <2>16, <2>17, <2>18, <2>19, <2>20, <2>21, <2>22, <2>23, <2>24, <2>25, <2>26, <2>27, <2>28, <2>29, <2>30, <2>31, <2>32 DEF OpStep
<1>3. CASE Spawn  BY <1>3 DEF Spawn
<1>4. CASE OpenBundle  BY <1>4 DEF OpenBundle
<1>5. CASE Answer  BY <1>5 DEF Answer
<1>6. CASE Break
  <2>1. service.state \notin {"stopped"}  BY <1>6 DEF Break
  <2>2. service'.state \in {"queued", "failed"}  BY <1>6 DEF Break
  <2>. QED  BY <1>6, <2>1, <2>2 DEF Break
<1>7. CASE Reboot  BY <1>7 DEF Reboot
<1>. QED  BY <1>1, <1>2, <1>3, <1>4, <1>5, <1>6, <1>7 DEF Next

\* Every step keeps the way back as it should be.
LEMMA RestoreStep ==
  ASSUME OneAtATime, OneFailure, IInv, [Next]_vars, NEW o \in Op
  PROVE  RestoreOK(o)'
<1>. USE ReleaseAssumption, FaultAssumption DEF vars, disk, systemd, boot, private, history, IInv, OpOK, TypeOK, DiskTypes, OpTypes, KnownRuns, ControlOK, NamesOK, ForwardOK, RestoreOK, Works, Activating, Installing, Uninstalling, Chosen, Release, AfterStop, Goal, ServiceTypes, Service, Stopped, Queued, Unit, UnitFile, StartService, StopService, DaemonReload, UnitIsKnown, CountFault, Goto, Fail, AfterFailure, ServiceFails, MayFail, Gone
<1>1. CASE UNCHANGED vars
  BY <1>1
<1>2. ASSUME NEW p \in Op, OpStep(p) PROVE RestoreOK(o)'
  <2>0. p = o  BY DEF OneAtATime
  <2>1. CASE BeginInstall(o)  BY <2>1 DEF BeginInstall
  <2>2. CASE BeginRollback(o)  BY <2>2 DEF BeginRollback
  <2>3. CASE Leave(o)  BY <2>3 DEF Leave
  <2>4. CASE Stop(o)  BY <2>4 DEF Stop
  <2>5. CASE StopFails(o)  BY <2>5 DEF StopFails, RemoveCandidate, LeaveCandidate
  <2>6. CASE TakeLock(o)  BY <2>6 DEF TakeLock
  <2>7. CASE LockRefused(o)  BY <2>7 DEF LockRefused, LockIsRefused, RemoveCandidate
  <2>8. CASE Rename(o)  BY <2>8 DEF Rename
  <2>9. CASE RenameFails(o)  BY <2>9 DEF RenameFails
  <2>10. CASE Switch(o)  BY <2>10 DEF Switch
  <2>11. CASE SwitchFails(o)  BY <2>11 DEF SwitchFails
  <2>12. CASE Regenerate(o)  BY <2>12 DEF Regenerate
  <2>13. CASE RegenerateFails(o)  BY <2>13 DEF RegenerateFails
  <2>14. CASE Reload(o)  BY <2>14 DEF Reload
  <2>15. CASE ReloadFails(o)  BY <2>15 DEF ReloadFails
  <2>16. CASE Start(o)  BY <2>16 DEF Start
  <2>17. CASE StartFails(o)  BY <2>17 DEF StartFails
  <2>18. CASE Observe(o)  BY <2>18 DEF Observe
  <2>19. CASE ObserveFails(o)  BY <2>19 DEF ObserveFails
  <2>20. CASE Discard(o)  BY <2>20 DEF Discard
  <2>21. CASE DiscardFails(o)  BY <2>21 DEF DiscardFails
  <2>22. CASE Killed(o)  BY <2>22 DEF Killed
  <2>23. CASE BeginService(o)  BY <2>23 DEF BeginService
  <2>24. CASE PrepareHost(o)  BY <2>24 DEF PrepareHost
  <2>25. CASE WriteUnit(o)  BY <2>25 DEF WriteUnit
  <2>26. CASE DisableUnit(o)  BY <2>26 DEF DisableUnit
  <2>27. CASE RemoveUnit(o)  BY <2>27 DEF RemoveUnit
  <2>28. CASE ReadUnits(o)  BY <2>28 DEF ReadUnits
  <2>29. CASE EnableUnit(o)  BY <2>29 DEF EnableUnit
  <2>30. CASE StagingFails(o)  BY <2>30 DEF StagingFails
  <2>31. CASE ReadUnderLockFails(o)  BY <2>31 DEF ReadUnderLockFails, LeaveCandidate
  <2>32. CASE RefusalFails(o)  BY <2>32 DEF RefusalFails, LockIsRefused, RemoveCandidate, LeaveCandidate
  <2>. QED  BY <1>2, <2>0, <2>1, <2>2, <2>3, <2>4, <2>5, <2>6, <2>7, <2>8, <2>9, <2>10, <2>11, <2>12, <2>13, <2>14, <2>15, <2>16, <2>17, <2>18, <2>19, <2>20, <2>21, <2>22, <2>23, <2>24, <2>25, <2>26, <2>27, <2>28, <2>29, <2>30, <2>31, <2>32 DEF OpStep
<1>3. CASE Spawn  BY <1>3 DEF Spawn
<1>4. CASE OpenBundle  BY <1>4 DEF OpenBundle
<1>5. CASE Answer  BY <1>5 DEF Answer
<1>6. CASE Break  BY <1>6 DEF Break
<1>7. CASE Reboot  BY <1>7 DEF Reboot
<1>. QED  BY <1>1, <1>2, <1>3, <1>4, <1>5, <1>6, <1>7 DEF Next

\* Every step keeps a unit that is being installed or uninstalled.
LEMMA UnitStep ==
  ASSUME OneAtATime, OneFailure, IInv, [Next]_vars, NEW o \in Op
  PROVE  UnitOK(o)'
<1>. USE ReleaseAssumption, FaultAssumption DEF vars, disk, systemd, boot, private, history, IInv, OpOK, TypeOK, DiskTypes, OpTypes, KnownRuns, ControlOK, UnitOK, Activating, Installing, Uninstalling, AfterStop, ServiceTypes, Service, Stopped, Queued, Unit, UnitFile, StartService, StopService, DaemonReload, UnitIsKnown, CountFault, Goto, Fail, AfterFailure, ServiceFails, MayFail, Gone
<1>1. CASE UNCHANGED vars
  BY <1>1
<1>2. ASSUME NEW p \in Op, OpStep(p) PROVE UnitOK(o)'
  <2>0. p = o  BY DEF OneAtATime
  <2>1. CASE BeginInstall(o)  BY <2>1 DEF BeginInstall
  <2>2. CASE BeginRollback(o)  BY <2>2 DEF BeginRollback
  <2>3. CASE Leave(o)  BY <2>3 DEF Leave
  <2>4. CASE Stop(o)  BY <2>4 DEF Stop
  <2>5. CASE StopFails(o)  BY <2>5 DEF StopFails, RemoveCandidate, LeaveCandidate
  <2>6. CASE TakeLock(o)  BY <2>6 DEF TakeLock
  <2>7. CASE LockRefused(o)  BY <2>7 DEF LockRefused, LockIsRefused, RemoveCandidate
  <2>8. CASE Rename(o)  BY <2>8 DEF Rename
  <2>9. CASE RenameFails(o)  BY <2>9 DEF RenameFails
  <2>10. CASE Switch(o)  BY <2>10 DEF Switch
  <2>11. CASE SwitchFails(o)  BY <2>11 DEF SwitchFails
  <2>12. CASE Regenerate(o)  BY <2>12 DEF Regenerate
  <2>13. CASE RegenerateFails(o)  BY <2>13 DEF RegenerateFails
  <2>14. CASE Reload(o)  BY <2>14 DEF Reload
  <2>15. CASE ReloadFails(o)  BY <2>15 DEF ReloadFails
  <2>16. CASE Start(o)  BY <2>16 DEF Start
  <2>17. CASE StartFails(o)  BY <2>17 DEF StartFails
  <2>18. CASE Observe(o)  BY <2>18 DEF Observe
  <2>19. CASE ObserveFails(o)  BY <2>19 DEF ObserveFails
  <2>20. CASE Discard(o)  BY <2>20 DEF Discard
  <2>21. CASE DiscardFails(o)  BY <2>21 DEF DiscardFails
  <2>22. CASE Killed(o)  BY <2>22 DEF Killed
  <2>23. CASE BeginService(o)  BY <2>23 DEF BeginService
  <2>24. CASE PrepareHost(o)  BY <2>24 DEF PrepareHost
  <2>25. CASE WriteUnit(o)  BY <2>25 DEF WriteUnit
  <2>26. CASE DisableUnit(o)  BY <2>26 DEF DisableUnit
  <2>27. CASE RemoveUnit(o)  BY <2>27 DEF RemoveUnit
  <2>28. CASE ReadUnits(o)  BY <2>28 DEF ReadUnits
  <2>29. CASE EnableUnit(o)  BY <2>29 DEF EnableUnit
  <2>30. CASE StagingFails(o)  BY <2>30 DEF StagingFails
  <2>31. CASE ReadUnderLockFails(o)  BY <2>31 DEF ReadUnderLockFails, LeaveCandidate
  <2>32. CASE RefusalFails(o)  BY <2>32 DEF RefusalFails, LockIsRefused, RemoveCandidate, LeaveCandidate
  <2>. QED  BY <1>2, <2>0, <2>1, <2>2, <2>3, <2>4, <2>5, <2>6, <2>7, <2>8, <2>9, <2>10, <2>11, <2>12, <2>13, <2>14, <2>15, <2>16, <2>17, <2>18, <2>19, <2>20, <2>21, <2>22, <2>23, <2>24, <2>25, <2>26, <2>27, <2>28, <2>29, <2>30, <2>31, <2>32 DEF OpStep
<1>3. CASE Spawn  BY <1>3 DEF Spawn
<1>4. CASE OpenBundle  BY <1>4 DEF OpenBundle
<1>5. CASE Answer  BY <1>5 DEF Answer
<1>6. CASE Break  BY <1>6 DEF Break
<1>7. CASE Reboot  BY <1>7 DEF Reboot
<1>. QED  BY <1>1, <1>2, <1>3, <1>4, <1>5, <1>6, <1>7 DEF Next

\* Every step keeps a service under a unit that systemd knows.
LEMMA ServiceStep ==
  ASSUME OneAtATime, OneFailure, IInv, [Next]_vars
  PROVE  KnownRuns'
<1>. USE ReleaseAssumption, FaultAssumption DEF vars, disk, systemd, boot, private, history, IInv, OpOK, TypeOK, DiskTypes, OpTypes, KnownRuns, ControlOK, ForwardOK, RestoreOK, UnitOK, Works, Activating, Installing, Uninstalling, AfterStop, ServiceTypes, Service, Stopped, Queued, Unit, UnitFile, StartService, StopService, DaemonReload, UnitIsKnown, CountFault, Goto, Fail, AfterFailure, ServiceFails, MayFail, Gone
<1>1. CASE UNCHANGED vars
  BY <1>1
<1>2. ASSUME NEW o \in Op, OpStep(o) PROVE KnownRuns'
  <2>1. CASE BeginInstall(o)  BY <2>1 DEF BeginInstall
  <2>2. CASE BeginRollback(o)  BY <2>2 DEF BeginRollback
  <2>3. CASE Leave(o)  BY <2>3 DEF Leave
  <2>4. CASE Stop(o)  BY <2>4 DEF Stop
  <2>5. CASE StopFails(o)  BY <2>5 DEF StopFails, RemoveCandidate, LeaveCandidate
  <2>6. CASE TakeLock(o)  BY <2>6 DEF TakeLock
  <2>7. CASE LockRefused(o)  BY <2>7 DEF LockRefused, LockIsRefused, RemoveCandidate
  <2>8. CASE Rename(o)  BY <2>8 DEF Rename
  <2>9. CASE RenameFails(o)  BY <2>9 DEF RenameFails
  <2>10. CASE Switch(o)  BY <2>10 DEF Switch
  <2>11. CASE SwitchFails(o)  BY <2>11 DEF SwitchFails
  <2>12. CASE Regenerate(o)  BY <2>12 DEF Regenerate
  <2>13. CASE RegenerateFails(o)  BY <2>13 DEF RegenerateFails
  <2>14. CASE Reload(o)  BY <2>14 DEF Reload
  <2>15. CASE ReloadFails(o)  BY <2>15 DEF ReloadFails
  <2>16. CASE Start(o)  BY <2>16 DEF Start
  <2>17. CASE StartFails(o)  BY <2>17 DEF StartFails
  <2>18. CASE Observe(o)  BY <2>18 DEF Observe
  <2>19. CASE ObserveFails(o)  BY <2>19 DEF ObserveFails
  <2>20. CASE Discard(o)  BY <2>20 DEF Discard
  <2>21. CASE DiscardFails(o)  BY <2>21 DEF DiscardFails
  <2>22. CASE Killed(o)  BY <2>22 DEF Killed
  <2>23. CASE BeginService(o)  BY <2>23 DEF BeginService
  <2>24. CASE PrepareHost(o)  BY <2>24 DEF PrepareHost
  <2>25. CASE WriteUnit(o)  BY <2>25 DEF WriteUnit
  <2>26. CASE DisableUnit(o)  BY <2>26 DEF DisableUnit
  <2>27. CASE RemoveUnit(o)  BY <2>27 DEF RemoveUnit
  <2>28. CASE ReadUnits(o)  BY <2>28 DEF ReadUnits
  <2>29. CASE EnableUnit(o)  BY <2>29 DEF EnableUnit
  <2>30. CASE StagingFails(o)  BY <2>30 DEF StagingFails
  <2>31. CASE ReadUnderLockFails(o)  BY <2>31 DEF ReadUnderLockFails, LeaveCandidate
  <2>32. CASE RefusalFails(o)  BY <2>32 DEF RefusalFails, LockIsRefused, RemoveCandidate, LeaveCandidate
  <2>. QED  BY <1>2, <2>1, <2>2, <2>3, <2>4, <2>5, <2>6, <2>7, <2>8, <2>9, <2>10, <2>11, <2>12, <2>13, <2>14, <2>15, <2>16, <2>17, <2>18, <2>19, <2>20, <2>21, <2>22, <2>23, <2>24, <2>25, <2>26, <2>27, <2>28, <2>29, <2>30, <2>31, <2>32 DEF OpStep
<1>3. CASE Spawn  BY <1>3 DEF Spawn
<1>4. CASE OpenBundle  BY <1>4 DEF OpenBundle
<1>5. CASE Answer  BY <1>5 DEF Answer
<1>6. CASE Break  BY <1>6 DEF Break
<1>7. CASE Reboot  BY <1>7 DEF Reboot
<1>. QED  BY <1>1, <1>2, <1>3, <1>4, <1>5, <1>6, <1>7 DEF Next

\* Every step gives names by the clock.
LEMMA NamedStep ==
  ASSUME OneAtATime, OneFailure, IInv, [Next]_vars
  PROVE  Named'
<1>. USE ReleaseAssumption, FaultAssumption DEF vars, disk, systemd, boot, private, history, IInv, OpOK, TypeOK, DiskTypes, OpTypes, Named, ControlOK, NamesOK, Works, Activating, Chosen, Release
<1>1. CASE UNCHANGED vars
  BY <1>1
<1>2. ASSUME NEW o \in Op, OpStep(o) PROVE Named'
  <2>1. CASE BeginInstall(o)  BY <2>1 DEF BeginInstall
  <2>2. CASE BeginRollback(o)  BY <2>2 DEF BeginRollback
  <2>3. CASE Leave(o)  BY <2>3 DEF Leave
  <2>4. CASE Stop(o)  BY <2>4 DEF Stop
  <2>5. CASE StopFails(o)  BY <2>5 DEF StopFails, RemoveCandidate, LeaveCandidate
  <2>6. CASE TakeLock(o)  BY <2>6 DEF TakeLock
  <2>7. CASE LockRefused(o)  BY <2>7 DEF LockRefused, LockIsRefused, RemoveCandidate
  <2>8. CASE Rename(o)  BY <2>8 DEF Rename
  <2>9. CASE RenameFails(o)  BY <2>9 DEF RenameFails
  <2>10. CASE Switch(o)  BY <2>10 DEF Switch
  <2>11. CASE SwitchFails(o)  BY <2>11 DEF SwitchFails
  <2>12. CASE Regenerate(o)  BY <2>12 DEF Regenerate
  <2>13. CASE RegenerateFails(o)  BY <2>13 DEF RegenerateFails
  <2>14. CASE Reload(o)  BY <2>14 DEF Reload
  <2>15. CASE ReloadFails(o)  BY <2>15 DEF ReloadFails
  <2>16. CASE Start(o)  BY <2>16 DEF Start
  <2>17. CASE StartFails(o)  BY <2>17 DEF StartFails
  <2>18. CASE Observe(o)  BY <2>18 DEF Observe
  <2>19. CASE ObserveFails(o)  BY <2>19 DEF ObserveFails
  <2>20. CASE Discard(o)  BY <2>20 DEF Discard
  <2>21. CASE DiscardFails(o)  BY <2>21 DEF DiscardFails
  <2>22. CASE Killed(o)  BY <2>22 DEF Killed
  <2>23. CASE BeginService(o)  BY <2>23 DEF BeginService
  <2>24. CASE PrepareHost(o)  BY <2>24 DEF PrepareHost
  <2>25. CASE WriteUnit(o)  BY <2>25 DEF WriteUnit
  <2>26. CASE DisableUnit(o)  BY <2>26 DEF DisableUnit
  <2>27. CASE RemoveUnit(o)  BY <2>27 DEF RemoveUnit
  <2>28. CASE ReadUnits(o)  BY <2>28 DEF ReadUnits
  <2>29. CASE EnableUnit(o)  BY <2>29 DEF EnableUnit
  <2>30. CASE StagingFails(o)  BY <2>30 DEF StagingFails
  <2>31. CASE ReadUnderLockFails(o)  BY <2>31 DEF ReadUnderLockFails, LeaveCandidate
  <2>32. CASE RefusalFails(o)  BY <2>32 DEF RefusalFails, LockIsRefused, RemoveCandidate, LeaveCandidate
  <2>. QED  BY <1>2, <2>1, <2>2, <2>3, <2>4, <2>5, <2>6, <2>7, <2>8, <2>9, <2>10, <2>11, <2>12, <2>13, <2>14, <2>15, <2>16, <2>17, <2>18, <2>19, <2>20, <2>21, <2>22, <2>23, <2>24, <2>25, <2>26, <2>27, <2>28, <2>29, <2>30, <2>31, <2>32 DEF OpStep
<1>3. CASE Spawn  BY <1>3 DEF Spawn
<1>4. CASE OpenBundle  BY <1>4 DEF OpenBundle
<1>5. CASE Answer  BY <1>5 DEF Answer
<1>6. CASE Break  BY <1>6 DEF Break
<1>7. CASE Reboot  BY <1>7 DEF Reboot
<1>. QED  BY <1>1, <1>2, <1>3, <1>4, <1>5, <1>6, <1>7 DEF Next

\* Every step leaves the link on a release that is there.
LEMMA ActiveStep ==
  ASSUME OneAtATime, OneFailure, IInv, [Next]_vars
  PROVE  ActiveExists'
<1>. USE ReleaseAssumption, FaultAssumption DEF vars, disk, systemd, boot, private, history, IInv, OpOK, TypeOK, DiskTypes, OpTypes, ActiveExists, ControlOK, NamesOK, PublishedOK, ForwardOK, RestoreOK, Works, Activating, Chosen, Release, Goal
<1>1. CASE UNCHANGED vars
  BY <1>1
<1>2. ASSUME NEW o \in Op, OpStep(o) PROVE ActiveExists'
  <2>1. CASE BeginInstall(o)  BY <2>1 DEF BeginInstall
  <2>2. CASE BeginRollback(o)  BY <2>2 DEF BeginRollback
  <2>3. CASE Leave(o)  BY <2>3 DEF Leave
  <2>4. CASE Stop(o)  BY <2>4 DEF Stop
  <2>5. CASE StopFails(o)  BY <2>5 DEF StopFails, RemoveCandidate, LeaveCandidate
  <2>6. CASE TakeLock(o)  BY <2>6 DEF TakeLock
  <2>7. CASE LockRefused(o)  BY <2>7 DEF LockRefused, LockIsRefused, RemoveCandidate
  <2>8. CASE Rename(o)  BY <2>8 DEF Rename
  <2>9. CASE RenameFails(o)  BY <2>9 DEF RenameFails
  <2>10. CASE Switch(o)  BY <2>10 DEF Switch
  <2>11. CASE SwitchFails(o)  BY <2>11 DEF SwitchFails
  <2>12. CASE Regenerate(o)  BY <2>12 DEF Regenerate
  <2>13. CASE RegenerateFails(o)  BY <2>13 DEF RegenerateFails
  <2>14. CASE Reload(o)  BY <2>14 DEF Reload
  <2>15. CASE ReloadFails(o)  BY <2>15 DEF ReloadFails
  <2>16. CASE Start(o)  BY <2>16 DEF Start
  <2>17. CASE StartFails(o)  BY <2>17 DEF StartFails
  <2>18. CASE Observe(o)  BY <2>18 DEF Observe
  <2>19. CASE ObserveFails(o)  BY <2>19 DEF ObserveFails
  <2>20. CASE Discard(o)  BY <2>20 DEF Discard
  <2>21. CASE DiscardFails(o)  BY <2>21 DEF DiscardFails
  <2>22. CASE Killed(o)  BY <2>22 DEF Killed
  <2>23. CASE BeginService(o)  BY <2>23 DEF BeginService
  <2>24. CASE PrepareHost(o)  BY <2>24 DEF PrepareHost
  <2>25. CASE WriteUnit(o)  BY <2>25 DEF WriteUnit
  <2>26. CASE DisableUnit(o)  BY <2>26 DEF DisableUnit
  <2>27. CASE RemoveUnit(o)  BY <2>27 DEF RemoveUnit
  <2>28. CASE ReadUnits(o)  BY <2>28 DEF ReadUnits
  <2>29. CASE EnableUnit(o)  BY <2>29 DEF EnableUnit
  <2>30. CASE StagingFails(o)  BY <2>30 DEF StagingFails
  <2>31. CASE ReadUnderLockFails(o)  BY <2>31 DEF ReadUnderLockFails, LeaveCandidate
  <2>32. CASE RefusalFails(o)  BY <2>32 DEF RefusalFails, LockIsRefused, RemoveCandidate, LeaveCandidate
  <2>. QED  BY <1>2, <2>1, <2>2, <2>3, <2>4, <2>5, <2>6, <2>7, <2>8, <2>9, <2>10, <2>11, <2>12, <2>13, <2>14, <2>15, <2>16, <2>17, <2>18, <2>19, <2>20, <2>21, <2>22, <2>23, <2>24, <2>25, <2>26, <2>27, <2>28, <2>29, <2>30, <2>31, <2>32 DEF OpStep
<1>3. CASE Spawn  BY <1>3 DEF Spawn
<1>4. CASE OpenBundle  BY <1>4 DEF OpenBundle
<1>5. CASE Answer  BY <1>5 DEF Answer
<1>6. CASE Break  BY <1>6 DEF Break
<1>7. CASE Reboot  BY <1>7 DEF Reboot
<1>. QED  BY <1>1, <1>2, <1>3, <1>4, <1>5, <1>6, <1>7 DEF Next

\* Every step leaves only answered releases to roll back to.
LEMMA IndexStep ==
  ASSUME OneAtATime, OneFailure, IInv, [Next]_vars
  PROVE  IndexOK'
<1>. USE ReleaseAssumption, FaultAssumption DEF vars, disk, systemd, boot, private, history, IInv, OpOK, TypeOK, DiskTypes, OpTypes, IndexOK, ControlOK, NamesOK, PublishedOK, ForwardOK, RestoreOK, Works, Activating, Installing, Uninstalling, Chosen, Release, AfterStop, Goal, CountFault, Goto, Fail, AfterFailure, ServiceFails, MayFail, Gone
<1>1. CASE UNCHANGED vars
  BY <1>1
<1>2. ASSUME NEW o \in Op, OpStep(o) PROVE IndexOK'
  <2>1. CASE BeginInstall(o)  BY <2>1 DEF BeginInstall
  <2>2. CASE BeginRollback(o)
    <3>. SUFFICES ASSUME NEW r \in releases'
                  PROVE  r \in answered' \cup orphans'
                           \/ \E q \in Op : Works(q)' /\ kind'[q] = "install" /\ target'[q] = r
      OBVIOUS
    <3>1. ~Works(o)  BY <2>2 DEF BeginRollback
    <3>2. r \in releases /\ \A p \in Op : ~Works(p)  BY <2>2, <3>1 DEF BeginRollback, OneAtATime
    <3>. QED  BY <2>2, <3>2 DEF BeginRollback
  <2>3. CASE Leave(o)  BY <2>3 DEF Leave
  <2>4. CASE Stop(o)  BY <2>4 DEF Stop
  <2>5. CASE StopFails(o)  BY <2>5 DEF StopFails, RemoveCandidate, LeaveCandidate
  <2>6. CASE TakeLock(o)  BY <2>6 DEF TakeLock
  <2>7. CASE LockRefused(o)  BY <2>7 DEF LockRefused, LockIsRefused, RemoveCandidate
  <2>8. CASE Rename(o)  BY <2>8 DEF Rename
  <2>9. CASE RenameFails(o)
    <3>. SUFFICES ASSUME NEW r \in releases'
                  PROVE  r \in answered' \cup orphans'
                           \/ \E q \in Op : Works(q)' /\ kind'[q] = "install" /\ target'[q] = r
      OBVIOUS
    <3>1. kind'[o] = "install" /\ pc'[o] # "idle" /\ target' = target  BY <2>9 DEF RenameFails
    <3>2. r \in releases \/ r = target[o]  BY <2>9 DEF RenameFails
    <3>3. answered' = answered /\ orphans' = orphans  BY <2>9 DEF RenameFails
    <3>4. CASE r = target[o]  BY <3>1, <3>4
    <3>5. CASE r \in releases  BY <3>1, <3>3, <3>5, OneAtATime DEF OneAtATime
    <3>. QED  BY <3>2, <3>4, <3>5
  <2>10. CASE Switch(o)  BY <2>10 DEF Switch
  <2>11. CASE SwitchFails(o)  BY <2>11 DEF SwitchFails
  <2>12. CASE Regenerate(o)  BY <2>12 DEF Regenerate
  <2>13. CASE RegenerateFails(o)  BY <2>13 DEF RegenerateFails
  <2>14. CASE Reload(o)  BY <2>14 DEF Reload
  <2>15. CASE ReloadFails(o)  BY <2>15 DEF ReloadFails
  <2>16. CASE Start(o)  BY <2>16 DEF Start
  <2>17. CASE StartFails(o)  BY <2>17 DEF StartFails
  <2>18. CASE Observe(o)  BY <2>18 DEF Observe
  <2>19. CASE ObserveFails(o)  BY <2>19 DEF ObserveFails
  <2>20. CASE Discard(o)
    <3>. SUFFICES ASSUME NEW r \in releases'
                  PROVE  r \in answered' \cup orphans'
                           \/ \E q \in Op : Works(q)' /\ kind'[q] = "install" /\ target'[q] = r
      OBVIOUS
    <3>1. r \in releases /\ UNCHANGED history  BY <2>20 DEF Discard
    <3>2. kind[o] = "install" => r # target[o]  BY <2>20 DEF Discard
    <3>3. \A p \in Op : Works(p) /\ kind[p] = "install" => target[p] # r  BY <3>2 DEF OneAtATime
    <3>. QED  BY <3>1, <3>3
  <2>21. CASE DiscardFails(o)  BY <2>21 DEF DiscardFails
  <2>22. CASE Killed(o)  BY <2>22 DEF Killed
  <2>23. CASE BeginService(o)  BY <2>23 DEF BeginService
  <2>24. CASE PrepareHost(o)  BY <2>24 DEF PrepareHost
  <2>25. CASE WriteUnit(o)  BY <2>25 DEF WriteUnit
  <2>26. CASE DisableUnit(o)  BY <2>26 DEF DisableUnit
  <2>27. CASE RemoveUnit(o)  BY <2>27 DEF RemoveUnit
  <2>28. CASE ReadUnits(o)  BY <2>28 DEF ReadUnits
  <2>29. CASE EnableUnit(o)  BY <2>29 DEF EnableUnit
  <2>30. CASE StagingFails(o)  BY <2>30 DEF StagingFails
  <2>31. CASE ReadUnderLockFails(o)  BY <2>31 DEF ReadUnderLockFails, LeaveCandidate
  <2>32. CASE RefusalFails(o)  BY <2>32 DEF RefusalFails, LockIsRefused, RemoveCandidate, LeaveCandidate
  <2>. QED  BY <1>2, <2>1, <2>2, <2>3, <2>4, <2>5, <2>6, <2>7, <2>8, <2>9, <2>10, <2>11, <2>12, <2>13, <2>14, <2>15, <2>16, <2>17, <2>18, <2>19, <2>20, <2>21, <2>22, <2>23, <2>24, <2>25, <2>26, <2>27, <2>28, <2>29, <2>30, <2>31, <2>32 DEF OpStep
<1>3. CASE Spawn  BY <1>3 DEF Spawn
<1>4. CASE OpenBundle  BY <1>4 DEF OpenBundle
<1>5. CASE Answer  BY <1>5 DEF Answer
<1>6. CASE Break  BY <1>6 DEF Break
<1>7. CASE Reboot  BY <1>7 DEF Reboot
<1>. QED  BY <1>1, <1>2, <1>3, <1>4, <1>5, <1>6, <1>7 DEF Next

(***************************************************************************)
(* The theorems.                                                           *)
(***************************************************************************)
\* A machine without a release, or one whose first release runs, satisfies it.
LEMMA InitOK == Init => IInv
<1>. SUFFICES ASSUME Init PROVE IInv
  OBVIOUS
<1>. USE ReleaseAssumption, FaultAssumption DEF Init
<1>1. PICK r \in {None, 1} :
        /\ active = r /\ units = r /\ loaded = r
        /\ releases = {1} \ {n \in Release : r = None}
        /\ clock = IF r = None THEN 0 ELSE 1
        /\ robot = (r # None) /\ enabled = (r # None)
        /\ service = IF r = None THEN Stopped
                     ELSE [state |-> "answering", binary |-> r, bundle |-> r,
                           restarted |-> FALSE]
        /\ unit \in {[file |-> f, known |-> f, enabled |-> f = "managed"] :
                     f \in IF r = None THEN UnitFile ELSE {"managed"}}
  OBVIOUS
<1>2. DiskTypes
  BY <1>1 DEF DiskTypes, Chosen, Release, Mixed
<1>3. PICK f \in (IF r = None THEN UnitFile ELSE {"managed"}) :
        unit = [file |-> f, known |-> f, enabled |-> f = "managed"]
  BY <1>1
<1>4. service \in Service
  BY <1>1 DEF Service, Stopped, Chosen, Release
<1>5. unit \in Unit
  BY <1>3 DEF Unit, UnitFile
<1>6. ServiceTypes
  BY <1>1, <1>4, <1>5 DEF ServiceTypes
<1>7. OpTypes
  BY DEF OpTypes, Points, Kinds, Chosen
<1>8. KnownRuns
  BY <1>1, <1>3 DEF KnownRuns, UnitIsKnown, Stopped, UnitFile
<1>9. Named /\ ActiveExists /\ IndexOK
  BY <1>1 DEF Named, ActiveExists, IndexOK, Release
<1>10. ASSUME NEW o \in Op PROVE OpOK(o)
  BY DEF OpOK, ControlOK, NamesOK, PublishedOK, ForwardOK, RestoreOK, UnitOK, Works,
         Activating, Installing, Uninstalling
<1>. QED
  BY <1>2, <1>6, <1>7, <1>8, <1>9, <1>10 DEF IInv, TypeOK

\* For operations that follow each other and meet one failure each, the whole
\* invariant holds, for any number of releases, killed operations and reboots.
THEOREM Invariant ==
  ASSUME OneAtATime, OneFailure
  PROVE  Spec => []IInv
<1>1. IInv /\ [Next]_vars => IInv'
  <2>. SUFFICES ASSUME IInv, [Next]_vars PROVE IInv'
    OBVIOUS
  <2>1. TypeOK'
    BY DiskTypesStep, ServiceTypesStep, OpTypesStep DEF TypeOK
  <2>2. KnownRuns' /\ Named' /\ ActiveExists' /\ IndexOK'
    BY ServiceStep, NamedStep, ActiveStep, IndexStep
  <2>3. ASSUME NEW o \in Op PROVE OpOK(o)'
    BY ControlStep, NamesStep, PublishedStep, ForwardStep, RestoreStep, UnitStep DEF OpOK
  <2>. QED  BY <2>1, <2>2, <2>3 DEF IInv
<1>. QED  BY InitOK, <1>1, PTL DEF Spec

\* Type correctness.
THEOREM TypeCorrect ==
  ASSUME OneAtATime, OneFailure
  PROVE  Spec => []TypeOK
<1>1. IInv => TypeOK  BY DEF IInv
<1>. QED  BY Invariant, <1>1, PTL

\* A command that fails after it stopped the robot puts back what was active
\* (undo_failed_activation, restore_after_failed_activation), but for an install
\* that is abandoned before it published anything, which leaves the link alone.
THEOREM FailuresRestore ==
  ASSUME OneAtATime, OneFailure
  PROVE  Spec => []FailureRestores
<1>1. IInv => FailureRestores
  BY DEF IInv, OpOK, NamesOK, PublishedOK, ForwardOK, RestoreOK, ControlOK, FailureRestores,
         Works, Activating
<1>. QED  BY Invariant, <1>1, PTL

\* A command that succeeds leaves one whole release, or one unit, or none.
THEOREM SuccessesAreWhole ==
  ASSUME OneAtATime, OneFailure
  PROVE  Spec => []SuccessIsWhole
<1>1. IInv => SuccessIsWhole
  BY DEF IInv, OpOK, ControlOK, ForwardOK, UnitOK, KnownRuns, SuccessIsWhole,
         HoldsSupervisorLock, Works, Activating
<1>. QED  BY Invariant, <1>1, PTL

\* /var/phoxal never selects a release that has been removed, wherever an
\* operation is killed or the host reboots.
THEOREM LinkNeverDangles ==
  ASSUME OneAtATime, OneFailure
  PROVE  Spec => []ActiveExists
<1>1. IInv => ActiveExists  BY DEF IInv
<1>. QED  BY Invariant, <1>1, PTL

\* What a rollback may select has answered, or its install was killed or could
\* not be cleaned up.
THEOREM RollbacksAnswered ==
  ASSUME OneAtATime, OneFailure
  PROVE  Spec => []RollbackIndexAnswered
<1>1. IInv => RollbackIndexAnswered
  BY DEF IInv, IndexOK, Works, RollbackIndexAnswered
<1>. QED  BY Invariant, <1>1, PTL
=============================================================================
