----------------------------- MODULE SessionProofs -----------------------------
(***************************************************************************)
(* Proofs about an execution and the commands that run it: its lifecycle   *)
(* between clients (SessionLifecycle), and the command that starts it and  *)
(* drives it behind the dashboard (RunCommand).  Neither part uses the     *)
(* other.                                                                  *)
(***************************************************************************)
EXTENDS SessionLifecycle, RunCommand, TLAPS, WellFoundedInduction

(***************************************************************************)
(* SessionLifecycle, for any number of clients, launches and runtimes: the *)
(* type invariant, the inductive invariant IInv and the safety properties  *)
(* that follow from it.                                                    *)
(***************************************************************************)
\* Returning from a command keeps every variable it resets well typed.
LEMMA ExitTypes ==
  ASSUME TypeOK, NEW c \in Client, Exit(c)
  PROVE  /\ pc' \in [Client -> PCs]
         /\ cmd' \in [Client -> Commands \cup {Nothing}]
         /\ sess' \in [Client -> Session \cup {Nothing}]
         /\ stage' \in [Client -> {1, 2}]
         /\ failed' \in [Client -> BOOLEAN]
         /\ confirmed' \in [Client -> BOOLEAN]
         /\ buildLock' \in Client \cup {Nothing}
<1>1. pc' \in [Client -> PCs]
  BY DEF TypeOK, Exit, PCs
<1>2. cmd' \in [Client -> Commands \cup {Nothing}] /\ sess' \in [Client -> Session \cup {Nothing}]
  BY DEF TypeOK, Exit
<1>3. stage' \in [Client -> {1, 2}]
  BY DEF TypeOK, Exit
<1>4. failed' \in [Client -> BOOLEAN] /\ confirmed' \in [Client -> BOOLEAN]
  BY DEF TypeOK, Exit
<1>5. buildLock' \in Client \cup {Nothing}
  BY DEF TypeOK, Exit
<1> QED
  BY <1>1, <1>2, <1>3, <1>4, <1>5

\* Every step of every client and process keeps the state well typed.
LEMMA TypeStep == TypeOK /\ ControlOK /\ [Next]_vars => TypeOK'
<1> SUFFICES ASSUME TypeOK, ControlOK, [Next]_vars PROVE TypeOK'
  OBVIOUS
<1> USE DEF TypeOK, vars, disk, procs, stopper, PCs, Prelaunch, Launching, Attached,
            Stopping, Commands, Launches, Modes, LaunchMode
<1>1. ASSUME NEW c \in Client, Begin(c) PROVE TypeOK'
    BY <1>1 DEF Begin, Goto
<1>2. ASSUME NEW c \in Client, Probe(c) PROVE TypeOK'
    BY <1>2 DEF Probe, Goto
<1>3. ASSUME NEW c \in Client, Refuse(c) PROVE TypeOK'
    BY <1>3, ExitTypes DEF Refuse
<1>4. ASSUME NEW c \in Client, AcquireLock(c) PROVE TypeOK'
    BY <1>4 DEF AcquireLock, Goto
<1>5. ASSUME NEW c \in Client, Recheck(c) PROVE TypeOK'
    BY <1>5 DEF Recheck, Goto
<1>6. ASSUME NEW c \in Client, Gate(c) PROVE TypeOK'
    BY <1>6 DEF Gate, Goto
<1>7. ASSUME NEW c \in Client, RecordGate(c) PROVE TypeOK'
    BY <1>7 DEF RecordGate, Goto
<1>8. ASSUME NEW c \in Client, Publish(c) PROVE TypeOK'
    BY <1>8 DEF Publish, Goto
<1>9. ASSUME NEW c \in Client, Spawn(c) PROVE TypeOK'
    BY <1>9 DEF Spawn, Goto
<1>10. ASSUME NEW c \in Client, Handshake(c) PROVE TypeOK'
    <2>1. loose' \subseteq Session
      BY <1>10 DEF Handshake, Goto, LeavesHandshake, ControlOK
    <2> QED
      BY <1>10, <2>1 DEF Handshake, Goto
<1>11. ASSUME NEW c \in Client, LaunchOne(c) PROVE TypeOK'
    BY <1>11 DEF LaunchOne, ControlOK
<1>12. ASSUME NEW c \in Client, AllLaunched(c) PROVE TypeOK'
    BY <1>12 DEF AllLaunched, Goto
<1>13. ASSUME NEW c \in Client, OpenRecord(c) PROVE TypeOK'
    BY <1>13 DEF OpenRecord, Goto
<1>14. ASSUME NEW c \in Client, FillRecord(c) PROVE TypeOK'
    BY <1>14 DEF FillRecord, Goto
<1>15. ASSUME NEW c \in Client, Attach(c) PROVE TypeOK'
    BY <1>15 DEF Attach, Goto
<1>16. ASSUME NEW c \in Client, GiveUp(c) PROVE TypeOK'
    <2>1. loose' \subseteq Session
      BY <1>16 DEF GiveUp, LeavesHandshake, ControlOK
    <2> QED
      BY <1>16, <2>1, ExitTypes DEF GiveUp
<1>17. ASSUME NEW c \in Client, Ready(c) PROVE TypeOK'
    <2>1. CASE pc' = [pc EXCEPT ![c] = "driving"] /\ UNCHANGED <<buildLock, cmd, sess, stopper>>
      BY <1>17, <2>1 DEF Ready
    <2>2. CASE Exit(c)
      BY <1>17, <2>2, ExitTypes DEF Ready
    <2> QED
      BY <1>17, <2>1, <2>2 DEF Ready, Goto
<1>18. ASSUME NEW c \in Client, Detach(c) PROVE TypeOK'
    BY <1>18, ExitTypes DEF Detach
<1>19. ASSUME NEW c \in Client, NotReady(c) PROVE TypeOK'
    BY <1>19 DEF NotReady, BeginStop
<1>20. ASSUME NEW c \in Client, EndSession(c) PROVE TypeOK'
    BY <1>20 DEF EndSession, BeginStop
<1>21. ASSUME NEW c \in Client, Stop(c) PROVE TypeOK'
    BY <1>21 DEF Stop, BeginStop
<1>22. ASSUME NEW c \in Client, Escalate(c) PROVE TypeOK'
    BY <1>22 DEF Escalate, Goto
<1>23. ASSUME NEW c \in Client, FirstStageEnds(c) PROVE TypeOK'
    BY <1>23 DEF FirstStageEnds, StageEnds
<1>24. ASSUME NEW c \in Client, StopComplete(c) PROVE TypeOK'
    BY <1>24 DEF StopComplete, StageEnds
<1>25. ASSUME NEW c \in Client, StopIncomplete(c) PROVE TypeOK'
    <2>1. CASE confirmed[c]
      BY <1>25, <2>1 DEF StopIncomplete
    <2>2. CASE ~confirmed[c]
      BY <1>25, <2>2, ExitTypes DEF StopIncomplete
    <2> QED
      BY <2>1, <2>2
<1>26. ASSUME NEW c \in Client, Consume(c) PROVE TypeOK'
    <2>1. CASE Exit(c)
      BY <1>26, <2>1, ExitTypes DEF Consume
    <2>2. CASE confirmed[c] /\ BeginStop(c, FALSE) /\ UNCHANGED <<buildLock, cmd, sess>>
      BY <1>26, <2>2 DEF Consume, BeginStop
    <2> QED
      BY <1>26, <2>1, <2>2 DEF Consume
<1>27. ASSUME NEW c \in Client, ClientKilled(c) PROVE TypeOK'
    <2>1. loose' \subseteq Session
      BY <1>27 DEF ClientKilled, LeavesHandshake, ControlOK
    <2> QED
      BY <1>27, <2>1, ExitTypes DEF ClientKilled
<1>28. ASSUME NEW s \in Session, TakeSupLock(s) PROVE TypeOK'
    BY <1>28 DEF TakeSupLock
<1>29. ASSUME NEW s \in Session, Answer(s) PROVE TypeOK'
    BY <1>29 DEF Answer
<1>30. ASSUME NEW s \in Session, SupExits(s) PROVE TypeOK'
    BY <1>30 DEF SupExits
<1>31. ASSUME NEW s \in Session, RuntimeExits(s) PROVE TypeOK'
    BY <1>31 DEF RuntimeExits
<1>32. CASE UNCHANGED vars
  BY <1>32
<1> QED
  BY <1>1, <1>2, <1>3, <1>4, <1>5, <1>6, <1>7, <1>8, <1>9, <1>10, <1>11, <1>12, <1>13, <1>14, <1>15, <1>16, <1>17, <1>18, <1>19, <1>20, <1>21, <1>22, <1>23, <1>24, <1>25, <1>26, <1>27, <1>28, <1>29, <1>30, <1>31, <1>32 DEF Next, ClientStep, ProcessStep


\* A client's place and its own state stay in step.
LEMMA ControlStep == TypeOK /\ ControlOK /\ [Next]_vars => ControlOK'
<1> SUFFICES ASSUME TypeOK, ControlOK, [Next]_vars PROVE ControlOK'
  OBVIOUS
<1> USE NothingAssumption DEF vars, disk, procs, stopper, TypeOK, ControlOK, Prelaunch, Launching, Attached, Stopping, Commands, Launches, Driven, PCs
<1>1. ASSUME NEW c \in Client, Begin(c) PROVE ControlOK'
  BY <1>1 DEF Begin, Goto
<1>2. ASSUME NEW c \in Client, Probe(c) PROVE ControlOK'
  BY <1>2 DEF Probe, Goto
<1>3. ASSUME NEW c \in Client, Refuse(c) PROVE ControlOK'
  BY <1>3 DEF Refuse, Exit, Refusal
<1>4. ASSUME NEW c \in Client, AcquireLock(c) PROVE ControlOK'
  BY <1>4 DEF AcquireLock, Goto
<1>5. ASSUME NEW c \in Client, Recheck(c) PROVE ControlOK'
  BY <1>5 DEF Recheck, Goto
<1>6. ASSUME NEW c \in Client, Gate(c) PROVE ControlOK'
  BY <1>6 DEF Gate, Goto
<1>7. ASSUME NEW c \in Client, RecordGate(c) PROVE ControlOK'
  BY <1>7 DEF RecordGate, Goto
<1>8. ASSUME NEW c \in Client, Publish(c) PROVE ControlOK'
  BY <1>8 DEF Publish, Goto
<1>9. ASSUME NEW c \in Client, Spawn(c) PROVE ControlOK'
  BY <1>9 DEF Spawn, Goto
<1>10. ASSUME NEW c \in Client, Handshake(c) PROVE ControlOK'
  BY <1>10 DEF Handshake, Goto, LeavesHandshake
<1>11. ASSUME NEW c \in Client, LaunchOne(c) PROVE ControlOK'
  BY <1>11 DEF LaunchOne
<1>12. ASSUME NEW c \in Client, AllLaunched(c) PROVE ControlOK'
  BY <1>12 DEF AllLaunched, Goto
<1>13. ASSUME NEW c \in Client, OpenRecord(c) PROVE ControlOK'
  BY <1>13 DEF OpenRecord, Goto
<1>14. ASSUME NEW c \in Client, FillRecord(c) PROVE ControlOK'
  BY <1>14 DEF FillRecord, Goto
<1>15. ASSUME NEW c \in Client, Attach(c) PROVE ControlOK'
  BY <1>15 DEF Attach, Goto
<1>16. ASSUME NEW c \in Client, GiveUp(c) PROVE ControlOK'
  BY <1>16 DEF GiveUp, Exit, LeavesHandshake
<1>17. ASSUME NEW c \in Client, Ready(c) PROVE ControlOK'
  BY <1>17 DEF Ready, Goto, Exit
<1>18. ASSUME NEW c \in Client, Detach(c) PROVE ControlOK'
  BY <1>18 DEF Detach, Exit
<1>19. ASSUME NEW c \in Client, NotReady(c) PROVE ControlOK'
  BY <1>19 DEF NotReady, BeginStop
<1>20. ASSUME NEW c \in Client, EndSession(c) PROVE ControlOK'
  BY <1>20 DEF EndSession, BeginStop
<1>21. ASSUME NEW c \in Client, Stop(c) PROVE ControlOK'
  BY <1>21 DEF Stop, BeginStop
<1>22. ASSUME NEW c \in Client, Escalate(c) PROVE ControlOK'
  BY <1>22 DEF Escalate, Goto
<1>23. ASSUME NEW c \in Client, FirstStageEnds(c) PROVE ControlOK'
  BY <1>23 DEF FirstStageEnds, StageEnds
<1>24. ASSUME NEW c \in Client, StopComplete(c) PROVE ControlOK'
  BY <1>24 DEF StopComplete, StageEnds
<1>25. ASSUME NEW c \in Client, StopIncomplete(c) PROVE ControlOK'
  BY <1>25 DEF StopIncomplete, Exit, StageEnds
<1>26. ASSUME NEW c \in Client, Consume(c) PROVE ControlOK'
  BY <1>26 DEF Consume, Exit, BeginStop
<1>27. ASSUME NEW c \in Client, ClientKilled(c) PROVE ControlOK'
  BY <1>27 DEF ClientKilled, Exit, LeavesHandshake
<1>28. ASSUME NEW s \in Session, TakeSupLock(s) PROVE ControlOK'
  BY <1>28 DEF TakeSupLock
<1>29. ASSUME NEW s \in Session, Answer(s) PROVE ControlOK'
  BY <1>29 DEF Answer
<1>30. ASSUME NEW s \in Session, SupExits(s) PROVE ControlOK'
  BY <1>30 DEF SupExits
<1>31. ASSUME NEW s \in Session, RuntimeExits(s) PROVE ControlOK'
  BY <1>31 DEF RuntimeExits
<1>32. CASE UNCHANGED vars
  BY <1>32
<1> QED
  BY <1>1, <1>2, <1>3, <1>4, <1>5, <1>6, <1>7, <1>8, <1>9, <1>10, <1>11, <1>12, <1>13, <1>14, <1>15, <1>16, <1>17, <1>18, <1>19, <1>20, <1>21, <1>22, <1>23, <1>24, <1>25, <1>26, <1>27, <1>28, <1>29, <1>30, <1>31, <1>32
  DEF Next, ClientStep, ProcessStep

\* The build lock has exactly the clients between its acquisition and their end.
LEMMA LockStep == TypeOK /\ ControlOK /\ LockDiscipline /\ [Next]_vars => LockDiscipline'
<1> SUFFICES ASSUME TypeOK, ControlOK, LockDiscipline, [Next]_vars PROVE LockDiscipline'
  OBVIOUS
<1> USE ClientAssumption, NothingAssumption DEF vars, disk, procs, stopper, TypeOK, ControlOK, LockDiscipline, Holds, Prelaunch, Launching, Attached, Stopping, Commands, Launches
<1>1. ASSUME NEW c \in Client, Begin(c) PROVE LockDiscipline'
  BY <1>1 DEF Begin, Goto
<1>2. ASSUME NEW c \in Client, Probe(c) PROVE LockDiscipline'
  BY <1>2 DEF Probe, Goto
<1>3. ASSUME NEW c \in Client, Refuse(c) PROVE LockDiscipline'
  BY <1>3 DEF Refuse, Exit, Refusal
<1>4. ASSUME NEW c \in Client, AcquireLock(c) PROVE LockDiscipline'
  BY <1>4 DEF AcquireLock, Goto
<1>5. ASSUME NEW c \in Client, Recheck(c) PROVE LockDiscipline'
  BY <1>5 DEF Recheck, Goto
<1>6. ASSUME NEW c \in Client, Gate(c) PROVE LockDiscipline'
  BY <1>6 DEF Gate, Goto
<1>7. ASSUME NEW c \in Client, RecordGate(c) PROVE LockDiscipline'
  BY <1>7 DEF RecordGate, Goto
<1>8. ASSUME NEW c \in Client, Publish(c) PROVE LockDiscipline'
  BY <1>8 DEF Publish, Goto
<1>9. ASSUME NEW c \in Client, Spawn(c) PROVE LockDiscipline'
  BY <1>9 DEF Spawn, Goto
<1>10. ASSUME NEW c \in Client, Handshake(c) PROVE LockDiscipline'
  BY <1>10 DEF Handshake, Goto, LeavesHandshake
<1>11. ASSUME NEW c \in Client, LaunchOne(c) PROVE LockDiscipline'
  BY <1>11 DEF LaunchOne
<1>12. ASSUME NEW c \in Client, AllLaunched(c) PROVE LockDiscipline'
  BY <1>12 DEF AllLaunched, Goto
<1>13. ASSUME NEW c \in Client, OpenRecord(c) PROVE LockDiscipline'
  BY <1>13 DEF OpenRecord, Goto
<1>14. ASSUME NEW c \in Client, FillRecord(c) PROVE LockDiscipline'
  BY <1>14 DEF FillRecord, Goto
<1>15. ASSUME NEW c \in Client, Attach(c) PROVE LockDiscipline'
  BY <1>15 DEF Attach, Goto
<1>16. ASSUME NEW c \in Client, GiveUp(c) PROVE LockDiscipline'
  BY <1>16 DEF GiveUp, Exit, LeavesHandshake
<1>17. ASSUME NEW c \in Client, Ready(c) PROVE LockDiscipline'
  BY <1>17 DEF Ready, Goto, Exit
<1>18. ASSUME NEW c \in Client, Detach(c) PROVE LockDiscipline'
  BY <1>18 DEF Detach, Exit
<1>19. ASSUME NEW c \in Client, NotReady(c) PROVE LockDiscipline'
  BY <1>19 DEF NotReady, BeginStop
<1>20. ASSUME NEW c \in Client, EndSession(c) PROVE LockDiscipline'
  BY <1>20 DEF EndSession, BeginStop
<1>21. ASSUME NEW c \in Client, Stop(c) PROVE LockDiscipline'
  BY <1>21 DEF Stop, BeginStop
<1>22. ASSUME NEW c \in Client, Escalate(c) PROVE LockDiscipline'
  BY <1>22 DEF Escalate, Goto
<1>23. ASSUME NEW c \in Client, FirstStageEnds(c) PROVE LockDiscipline'
  BY <1>23 DEF FirstStageEnds, StageEnds
<1>24. ASSUME NEW c \in Client, StopComplete(c) PROVE LockDiscipline'
  BY <1>24 DEF StopComplete, StageEnds
<1>25. ASSUME NEW c \in Client, StopIncomplete(c) PROVE LockDiscipline'
  BY <1>25 DEF StopIncomplete, Exit, StageEnds
<1>26. ASSUME NEW c \in Client, Consume(c) PROVE LockDiscipline'
  BY <1>26 DEF Consume, Exit, BeginStop
<1>27. ASSUME NEW c \in Client, ClientKilled(c) PROVE LockDiscipline'
  BY <1>27 DEF ClientKilled, Exit, LeavesHandshake
<1>28. ASSUME NEW s \in Session, TakeSupLock(s) PROVE LockDiscipline'
  BY <1>28 DEF TakeSupLock
<1>29. ASSUME NEW s \in Session, Answer(s) PROVE LockDiscipline'
  BY <1>29 DEF Answer
<1>30. ASSUME NEW s \in Session, SupExits(s) PROVE LockDiscipline'
  BY <1>30 DEF SupExits
<1>31. ASSUME NEW s \in Session, RuntimeExits(s) PROVE LockDiscipline'
  BY <1>31 DEF RuntimeExits
<1>32. CASE UNCHANGED vars
  BY <1>32
<1> QED
  BY <1>1, <1>2, <1>3, <1>4, <1>5, <1>6, <1>7, <1>8, <1>9, <1>10, <1>11, <1>12, <1>13, <1>14, <1>15, <1>16, <1>17, <1>18, <1>19, <1>20, <1>21, <1>22, <1>23, <1>24, <1>25, <1>26, <1>27, <1>28, <1>29, <1>30, <1>31, <1>32
  DEF Next, ClientStep, ProcessStep

\* The supervisor lock follows the supervisor that holds it.
LEMMA SupLockStep == TypeOK /\ ControlOK /\ LaunchOK /\ SupLockOK /\ [Next]_vars => SupLockOK'
<1> SUFFICES ASSUME TypeOK, ControlOK, LaunchOK, SupLockOK, [Next]_vars PROVE SupLockOK'
  OBVIOUS
<1> USE SessionAssumption DEF vars, disk, procs, stopper, TypeOK, ControlOK, LaunchOK, SupLockOK, Prelaunch, Launching, Attached, Stopping, Commands, Launches
<1>1. ASSUME NEW c \in Client, Begin(c) PROVE SupLockOK'
  BY <1>1 DEF Begin, Goto
<1>2. ASSUME NEW c \in Client, Probe(c) PROVE SupLockOK'
  BY <1>2 DEF Probe, Goto
<1>3. ASSUME NEW c \in Client, Refuse(c) PROVE SupLockOK'
  BY <1>3 DEF Refuse, Exit, Refusal
<1>4. ASSUME NEW c \in Client, AcquireLock(c) PROVE SupLockOK'
  BY <1>4 DEF AcquireLock, Goto
<1>5. ASSUME NEW c \in Client, Recheck(c) PROVE SupLockOK'
  BY <1>5 DEF Recheck, Goto
<1>6. ASSUME NEW c \in Client, Gate(c) PROVE SupLockOK'
  BY <1>6 DEF Gate, Goto
<1>7. ASSUME NEW c \in Client, RecordGate(c) PROVE SupLockOK'
  BY <1>7 DEF RecordGate, Goto
<1>8. ASSUME NEW c \in Client, Publish(c) PROVE SupLockOK'
  BY <1>8 DEF Publish, Goto
<1>9. ASSUME NEW c \in Client, Spawn(c) PROVE SupLockOK'
  BY <1>9 DEF Spawn, Goto
<1>10. ASSUME NEW c \in Client, Handshake(c) PROVE SupLockOK'
  BY <1>10 DEF Handshake, Goto, LeavesHandshake
<1>11. ASSUME NEW c \in Client, LaunchOne(c) PROVE SupLockOK'
  BY <1>11 DEF LaunchOne
<1>12. ASSUME NEW c \in Client, AllLaunched(c) PROVE SupLockOK'
  BY <1>12 DEF AllLaunched, Goto
<1>13. ASSUME NEW c \in Client, OpenRecord(c) PROVE SupLockOK'
  BY <1>13 DEF OpenRecord, Goto
<1>14. ASSUME NEW c \in Client, FillRecord(c) PROVE SupLockOK'
  BY <1>14 DEF FillRecord, Goto
<1>15. ASSUME NEW c \in Client, Attach(c) PROVE SupLockOK'
  BY <1>15 DEF Attach, Goto
<1>16. ASSUME NEW c \in Client, GiveUp(c) PROVE SupLockOK'
  BY <1>16 DEF GiveUp, Exit, LeavesHandshake
<1>17. ASSUME NEW c \in Client, Ready(c) PROVE SupLockOK'
  BY <1>17 DEF Ready, Goto, Exit
<1>18. ASSUME NEW c \in Client, Detach(c) PROVE SupLockOK'
  BY <1>18 DEF Detach, Exit
<1>19. ASSUME NEW c \in Client, NotReady(c) PROVE SupLockOK'
  BY <1>19 DEF NotReady, BeginStop
<1>20. ASSUME NEW c \in Client, EndSession(c) PROVE SupLockOK'
  BY <1>20 DEF EndSession, BeginStop
<1>21. ASSUME NEW c \in Client, Stop(c) PROVE SupLockOK'
  BY <1>21 DEF Stop, BeginStop
<1>22. ASSUME NEW c \in Client, Escalate(c) PROVE SupLockOK'
  BY <1>22 DEF Escalate, Goto
<1>23. ASSUME NEW c \in Client, FirstStageEnds(c) PROVE SupLockOK'
  BY <1>23 DEF FirstStageEnds, StageEnds
<1>24. ASSUME NEW c \in Client, StopComplete(c) PROVE SupLockOK'
  BY <1>24 DEF StopComplete, StageEnds
<1>25. ASSUME NEW c \in Client, StopIncomplete(c) PROVE SupLockOK'
  BY <1>25 DEF StopIncomplete, Exit, StageEnds
<1>26. ASSUME NEW c \in Client, Consume(c) PROVE SupLockOK'
  BY <1>26 DEF Consume, Exit, BeginStop
<1>27. ASSUME NEW c \in Client, ClientKilled(c) PROVE SupLockOK'
  BY <1>27 DEF ClientKilled, Exit, LeavesHandshake
<1>28. ASSUME NEW s \in Session, TakeSupLock(s) PROVE SupLockOK'
  BY <1>28 DEF TakeSupLock
<1>29. ASSUME NEW s \in Session, Answer(s) PROVE SupLockOK'
  BY <1>29 DEF Answer
<1>30. ASSUME NEW s \in Session, SupExits(s) PROVE SupLockOK'
  BY <1>30 DEF SupExits
<1>31. ASSUME NEW s \in Session, RuntimeExits(s) PROVE SupLockOK'
  BY <1>31 DEF RuntimeExits
<1>32. CASE UNCHANGED vars
  BY <1>32
<1> QED
  BY <1>1, <1>2, <1>3, <1>4, <1>5, <1>6, <1>7, <1>8, <1>9, <1>10, <1>11, <1>12, <1>13, <1>14, <1>15, <1>16, <1>17, <1>18, <1>19, <1>20, <1>21, <1>22, <1>23, <1>24, <1>25, <1>26, <1>27, <1>28, <1>29, <1>30, <1>31, <1>32
  DEF Next, ClientStep, ProcessStep

\* A launch that was never used stays unnamed.
LEMMA FreshStep == TypeOK /\ ControlOK /\ LaunchOK /\ FreshOK /\ [Next]_vars => FreshOK'
<1> SUFFICES ASSUME TypeOK, ControlOK, LaunchOK, FreshOK, [Next]_vars PROVE FreshOK'
  OBVIOUS
<1> USE SessionAssumption DEF vars, disk, procs, stopper, TypeOK, ControlOK, LaunchOK, FreshOK, Prelaunch, Launching, Attached, Stopping, Commands, Launches
<1>1. ASSUME NEW c \in Client, Begin(c) PROVE FreshOK'
  BY <1>1 DEF Begin, Goto
<1>2. ASSUME NEW c \in Client, Probe(c) PROVE FreshOK'
  BY <1>2 DEF Probe, Goto
<1>3. ASSUME NEW c \in Client, Refuse(c) PROVE FreshOK'
  BY <1>3 DEF Refuse, Exit, Refusal
<1>4. ASSUME NEW c \in Client, AcquireLock(c) PROVE FreshOK'
  BY <1>4 DEF AcquireLock, Goto
<1>5. ASSUME NEW c \in Client, Recheck(c) PROVE FreshOK'
  BY <1>5 DEF Recheck, Goto
<1>6. ASSUME NEW c \in Client, Gate(c) PROVE FreshOK'
  BY <1>6 DEF Gate, Goto
<1>7. ASSUME NEW c \in Client, RecordGate(c) PROVE FreshOK'
  BY <1>7 DEF RecordGate, Goto
<1>8. ASSUME NEW c \in Client, Publish(c) PROVE FreshOK'
  BY <1>8 DEF Publish, Goto
<1>9. ASSUME NEW c \in Client, Spawn(c) PROVE FreshOK'
  BY <1>9 DEF Spawn, Goto
<1>10. ASSUME NEW c \in Client, Handshake(c) PROVE FreshOK'
  BY <1>10 DEF Handshake, Goto, LeavesHandshake
<1>11. ASSUME NEW c \in Client, LaunchOne(c) PROVE FreshOK'
  BY <1>11 DEF LaunchOne
<1>12. ASSUME NEW c \in Client, AllLaunched(c) PROVE FreshOK'
  BY <1>12 DEF AllLaunched, Goto
<1>13. ASSUME NEW c \in Client, OpenRecord(c) PROVE FreshOK'
  BY <1>13 DEF OpenRecord, Goto
<1>14. ASSUME NEW c \in Client, FillRecord(c) PROVE FreshOK'
  BY <1>14 DEF FillRecord, Goto
<1>15. ASSUME NEW c \in Client, Attach(c) PROVE FreshOK'
  BY <1>15 DEF Attach, Goto
<1>16. ASSUME NEW c \in Client, GiveUp(c) PROVE FreshOK'
  BY <1>16 DEF GiveUp, Exit, LeavesHandshake
<1>17. ASSUME NEW c \in Client, Ready(c) PROVE FreshOK'
  BY <1>17 DEF Ready, Goto, Exit
<1>18. ASSUME NEW c \in Client, Detach(c) PROVE FreshOK'
  BY <1>18 DEF Detach, Exit
<1>19. ASSUME NEW c \in Client, NotReady(c) PROVE FreshOK'
  BY <1>19 DEF NotReady, BeginStop
<1>20. ASSUME NEW c \in Client, EndSession(c) PROVE FreshOK'
  BY <1>20 DEF EndSession, BeginStop
<1>21. ASSUME NEW c \in Client, Stop(c) PROVE FreshOK'
  BY <1>21 DEF Stop, BeginStop
<1>22. ASSUME NEW c \in Client, Escalate(c) PROVE FreshOK'
  BY <1>22 DEF Escalate, Goto
<1>23. ASSUME NEW c \in Client, FirstStageEnds(c) PROVE FreshOK'
  BY <1>23 DEF FirstStageEnds, StageEnds
<1>24. ASSUME NEW c \in Client, StopComplete(c) PROVE FreshOK'
  BY <1>24 DEF StopComplete, StageEnds
<1>25. ASSUME NEW c \in Client, StopIncomplete(c) PROVE FreshOK'
  BY <1>25 DEF StopIncomplete, Exit, StageEnds
<1>26. ASSUME NEW c \in Client, Consume(c) PROVE FreshOK'
  BY <1>26 DEF Consume, Exit, BeginStop
<1>27. ASSUME NEW c \in Client, ClientKilled(c) PROVE FreshOK'
  BY <1>27 DEF ClientKilled, Exit, LeavesHandshake
<1>28. ASSUME NEW s \in Session, TakeSupLock(s) PROVE FreshOK'
  BY <1>28 DEF TakeSupLock
<1>29. ASSUME NEW s \in Session, Answer(s) PROVE FreshOK'
  BY <1>29 DEF Answer
<1>30. ASSUME NEW s \in Session, SupExits(s) PROVE FreshOK'
  BY <1>30 DEF SupExits
<1>31. ASSUME NEW s \in Session, RuntimeExits(s) PROVE FreshOK'
  BY <1>31 DEF RuntimeExits
<1>32. CASE UNCHANGED vars
  BY <1>32
<1> QED
  BY <1>1, <1>2, <1>3, <1>4, <1>5, <1>6, <1>7, <1>8, <1>9, <1>10, <1>11, <1>12, <1>13, <1>14, <1>15, <1>16, <1>17, <1>18, <1>19, <1>20, <1>21, <1>22, <1>23, <1>24, <1>25, <1>26, <1>27, <1>28, <1>29, <1>30, <1>31, <1>32
  DEF Next, ClientStep, ProcessStep

\* Only the holder of the build lock writes a record, and only when there is none.
LEMMA NoLaunchOverRecordStep == TypeOK /\ ControlOK /\ LockDiscipline /\ NoLaunchOverRecord /\ [Next]_vars => NoLaunchOverRecord'
<1> SUFFICES ASSUME TypeOK, ControlOK, LockDiscipline, NoLaunchOverRecord, [Next]_vars PROVE NoLaunchOverRecord'
  OBVIOUS
<1> USE ClientAssumption, NothingAssumption DEF vars, disk, procs, stopper, TypeOK, ControlOK, LockDiscipline, Holds, NoLaunchOverRecord, Prelaunch, Launching, Attached, Stopping, Commands, Launches
<1>1. ASSUME NEW c \in Client, Begin(c) PROVE NoLaunchOverRecord'
  BY <1>1 DEF Begin, Goto
<1>2. ASSUME NEW c \in Client, Probe(c) PROVE NoLaunchOverRecord'
  BY <1>2 DEF Probe, Goto
<1>3. ASSUME NEW c \in Client, Refuse(c) PROVE NoLaunchOverRecord'
  BY <1>3 DEF Refuse, Exit, Refusal
<1>4. ASSUME NEW c \in Client, AcquireLock(c) PROVE NoLaunchOverRecord'
  BY <1>4 DEF AcquireLock, Goto
<1>5. ASSUME NEW c \in Client, Recheck(c) PROVE NoLaunchOverRecord'
  BY <1>5 DEF Recheck, Goto
<1>6. ASSUME NEW c \in Client, Gate(c) PROVE NoLaunchOverRecord'
  BY <1>6 DEF Gate, Goto
<1>7. ASSUME NEW c \in Client, RecordGate(c) PROVE NoLaunchOverRecord'
  BY <1>7 DEF RecordGate, Goto
<1>8. ASSUME NEW c \in Client, Publish(c) PROVE NoLaunchOverRecord'
  BY <1>8 DEF Publish, Goto
<1>9. ASSUME NEW c \in Client, Spawn(c) PROVE NoLaunchOverRecord'
  BY <1>9 DEF Spawn, Goto
<1>10. ASSUME NEW c \in Client, Handshake(c) PROVE NoLaunchOverRecord'
  BY <1>10 DEF Handshake, Goto, LeavesHandshake
<1>11. ASSUME NEW c \in Client, LaunchOne(c) PROVE NoLaunchOverRecord'
  BY <1>11 DEF LaunchOne
<1>12. ASSUME NEW c \in Client, AllLaunched(c) PROVE NoLaunchOverRecord'
  BY <1>12 DEF AllLaunched, Goto
<1>13. ASSUME NEW c \in Client, OpenRecord(c) PROVE NoLaunchOverRecord'
  BY <1>13 DEF OpenRecord, Goto
<1>14. ASSUME NEW c \in Client, FillRecord(c) PROVE NoLaunchOverRecord'
  BY <1>14 DEF FillRecord, Goto
<1>15. ASSUME NEW c \in Client, Attach(c) PROVE NoLaunchOverRecord'
  BY <1>15 DEF Attach, Goto
<1>16. ASSUME NEW c \in Client, GiveUp(c) PROVE NoLaunchOverRecord'
  BY <1>16 DEF GiveUp, Exit, LeavesHandshake
<1>17. ASSUME NEW c \in Client, Ready(c) PROVE NoLaunchOverRecord'
  BY <1>17 DEF Ready, Goto, Exit
<1>18. ASSUME NEW c \in Client, Detach(c) PROVE NoLaunchOverRecord'
  BY <1>18 DEF Detach, Exit
<1>19. ASSUME NEW c \in Client, NotReady(c) PROVE NoLaunchOverRecord'
  BY <1>19 DEF NotReady, BeginStop
<1>20. ASSUME NEW c \in Client, EndSession(c) PROVE NoLaunchOverRecord'
  BY <1>20 DEF EndSession, BeginStop
<1>21. ASSUME NEW c \in Client, Stop(c) PROVE NoLaunchOverRecord'
  BY <1>21 DEF Stop, BeginStop
<1>22. ASSUME NEW c \in Client, Escalate(c) PROVE NoLaunchOverRecord'
  BY <1>22 DEF Escalate, Goto
<1>23. ASSUME NEW c \in Client, FirstStageEnds(c) PROVE NoLaunchOverRecord'
  BY <1>23 DEF FirstStageEnds, StageEnds
<1>24. ASSUME NEW c \in Client, StopComplete(c) PROVE NoLaunchOverRecord'
  BY <1>24 DEF StopComplete, StageEnds
<1>25. ASSUME NEW c \in Client, StopIncomplete(c) PROVE NoLaunchOverRecord'
  BY <1>25 DEF StopIncomplete, Exit, StageEnds
<1>26. ASSUME NEW c \in Client, Consume(c) PROVE NoLaunchOverRecord'
  BY <1>26 DEF Consume, Exit, BeginStop
<1>27. ASSUME NEW c \in Client, ClientKilled(c) PROVE NoLaunchOverRecord'
  BY <1>27 DEF ClientKilled, Exit, LeavesHandshake
<1>28. ASSUME NEW s \in Session, TakeSupLock(s) PROVE NoLaunchOverRecord'
  BY <1>28 DEF TakeSupLock
<1>29. ASSUME NEW s \in Session, Answer(s) PROVE NoLaunchOverRecord'
  BY <1>29 DEF Answer
<1>30. ASSUME NEW s \in Session, SupExits(s) PROVE NoLaunchOverRecord'
  BY <1>30 DEF SupExits
<1>31. ASSUME NEW s \in Session, RuntimeExits(s) PROVE NoLaunchOverRecord'
  BY <1>31 DEF RuntimeExits
<1>32. CASE UNCHANGED vars
  BY <1>32
<1> QED
  BY <1>1, <1>2, <1>3, <1>4, <1>5, <1>6, <1>7, <1>8, <1>9, <1>10, <1>11, <1>12, <1>13, <1>14, <1>15, <1>16, <1>17, <1>18, <1>19, <1>20, <1>21, <1>22, <1>23, <1>24, <1>25, <1>26, <1>27, <1>28, <1>29, <1>30, <1>31, <1>32
  DEF Next, ClientStep, ProcessStep

\* What a launch was told at its gates stays true until its handshake.
LEMMA LaunchStep == TypeOK /\ ControlOK /\ LockDiscipline /\ SupLockOK /\ SpawnedOK /\ LaunchOK /\ [Next]_vars => LaunchOK'
<1> SUFFICES ASSUME TypeOK, ControlOK, LockDiscipline, SupLockOK, SpawnedOK, LaunchOK, [Next]_vars PROVE LaunchOK'
  OBVIOUS
<1> USE ClientAssumption, SessionAssumption, NothingAssumption DEF vars, disk, procs, stopper, TypeOK, ControlOK, LockDiscipline, Holds, SupLockOK, SpawnedOK, LaunchOK, Prelaunch, Launching, Attached, Stopping, Commands, Launches
<1>1. ASSUME NEW c \in Client, Begin(c) PROVE LaunchOK'
  BY <1>1 DEF Begin, Goto
<1>2. ASSUME NEW c \in Client, Probe(c) PROVE LaunchOK'
  BY <1>2 DEF Probe, Goto
<1>3. ASSUME NEW c \in Client, Refuse(c) PROVE LaunchOK'
  BY <1>3 DEF Refuse, Exit, Refusal
<1>4. ASSUME NEW c \in Client, AcquireLock(c) PROVE LaunchOK'
  BY <1>4 DEF AcquireLock, Goto
<1>5. ASSUME NEW c \in Client, Recheck(c) PROVE LaunchOK'
  BY <1>5 DEF Recheck, Goto
<1>6. ASSUME NEW c \in Client, Gate(c) PROVE LaunchOK'
  BY <1>6 DEF Gate, Goto
<1>7. ASSUME NEW c \in Client, RecordGate(c) PROVE LaunchOK'
  BY <1>7 DEF RecordGate, Goto
<1>8. ASSUME NEW c \in Client, Publish(c) PROVE LaunchOK'
  BY <1>8 DEF Publish, Goto
<1>9. ASSUME NEW c \in Client, Spawn(c) PROVE LaunchOK'
  BY <1>9 DEF Spawn, Goto
<1>10. ASSUME NEW c \in Client, Handshake(c) PROVE LaunchOK'
  BY <1>10 DEF Handshake, Goto, LeavesHandshake
<1>11. ASSUME NEW c \in Client, LaunchOne(c) PROVE LaunchOK'
  BY <1>11 DEF LaunchOne
<1>12. ASSUME NEW c \in Client, AllLaunched(c) PROVE LaunchOK'
  BY <1>12 DEF AllLaunched, Goto
<1>13. ASSUME NEW c \in Client, OpenRecord(c) PROVE LaunchOK'
  BY <1>13 DEF OpenRecord, Goto
<1>14. ASSUME NEW c \in Client, FillRecord(c) PROVE LaunchOK'
  BY <1>14 DEF FillRecord, Goto
<1>15. ASSUME NEW c \in Client, Attach(c) PROVE LaunchOK'
  BY <1>15 DEF Attach, Goto
<1>16. ASSUME NEW c \in Client, GiveUp(c) PROVE LaunchOK'
  BY <1>16 DEF GiveUp, Exit, LeavesHandshake
<1>17. ASSUME NEW c \in Client, Ready(c) PROVE LaunchOK'
  BY <1>17 DEF Ready, Goto, Exit
<1>18. ASSUME NEW c \in Client, Detach(c) PROVE LaunchOK'
  BY <1>18 DEF Detach, Exit
<1>19. ASSUME NEW c \in Client, NotReady(c) PROVE LaunchOK'
  BY <1>19 DEF NotReady, BeginStop
<1>20. ASSUME NEW c \in Client, EndSession(c) PROVE LaunchOK'
  BY <1>20 DEF EndSession, BeginStop
<1>21. ASSUME NEW c \in Client, Stop(c) PROVE LaunchOK'
  BY <1>21 DEF Stop, BeginStop
<1>22. ASSUME NEW c \in Client, Escalate(c) PROVE LaunchOK'
  BY <1>22 DEF Escalate, Goto
<1>23. ASSUME NEW c \in Client, FirstStageEnds(c) PROVE LaunchOK'
  BY <1>23 DEF FirstStageEnds, StageEnds
<1>24. ASSUME NEW c \in Client, StopComplete(c) PROVE LaunchOK'
  BY <1>24 DEF StopComplete, StageEnds
<1>25. ASSUME NEW c \in Client, StopIncomplete(c) PROVE LaunchOK'
  BY <1>25 DEF StopIncomplete, Exit, StageEnds
<1>26. ASSUME NEW c \in Client, Consume(c) PROVE LaunchOK'
  BY <1>26 DEF Consume, Exit, BeginStop
<1>27. ASSUME NEW c \in Client, ClientKilled(c) PROVE LaunchOK'
  BY <1>27 DEF ClientKilled, Exit, LeavesHandshake
<1>28. ASSUME NEW s \in Session, TakeSupLock(s) PROVE LaunchOK'
  BY <1>28 DEF TakeSupLock
<1>29. ASSUME NEW s \in Session, Answer(s) PROVE LaunchOK'
  BY <1>29 DEF Answer
<1>30. ASSUME NEW s \in Session, SupExits(s) PROVE LaunchOK'
  BY <1>30 DEF SupExits, SupGone
<1>31. ASSUME NEW s \in Session, RuntimeExits(s) PROVE LaunchOK'
  BY <1>31 DEF RuntimeExits
<1>32. CASE UNCHANGED vars
  BY <1>32
<1> QED
  BY <1>1, <1>2, <1>3, <1>4, <1>5, <1>6, <1>7, <1>8, <1>9, <1>10, <1>11, <1>12, <1>13, <1>14, <1>15, <1>16, <1>17, <1>18, <1>19, <1>20, <1>21, <1>22, <1>23, <1>24, <1>25, <1>26, <1>27, <1>28, <1>29, <1>30, <1>31, <1>32
  DEF Next, ClientStep, ProcessStep

\* Whoever stops waiting for an unlocked supervisor leaves it loose.
LEMMA SpawnedStep == TypeOK /\ ControlOK /\ LaunchOK /\ SpawnedOK /\ [Next]_vars => SpawnedOK'
<1> SUFFICES ASSUME TypeOK, ControlOK, LaunchOK, SpawnedOK, [Next]_vars PROVE SpawnedOK'
  OBVIOUS
<1> USE SessionAssumption DEF vars, disk, procs, stopper, TypeOK, ControlOK, LaunchOK, SpawnedOK, Prelaunch, Launching, Attached, Stopping, Commands, Launches
<1>1. ASSUME NEW c \in Client, Begin(c) PROVE SpawnedOK'
  BY <1>1 DEF Begin, Goto
<1>2. ASSUME NEW c \in Client, Probe(c) PROVE SpawnedOK'
  BY <1>2 DEF Probe, Goto
<1>3. ASSUME NEW c \in Client, Refuse(c) PROVE SpawnedOK'
  BY <1>3 DEF Refuse, Exit, Refusal
<1>4. ASSUME NEW c \in Client, AcquireLock(c) PROVE SpawnedOK'
  BY <1>4 DEF AcquireLock, Goto
<1>5. ASSUME NEW c \in Client, Recheck(c) PROVE SpawnedOK'
  BY <1>5 DEF Recheck, Goto
<1>6. ASSUME NEW c \in Client, Gate(c) PROVE SpawnedOK'
  BY <1>6 DEF Gate, Goto
<1>7. ASSUME NEW c \in Client, RecordGate(c) PROVE SpawnedOK'
  BY <1>7 DEF RecordGate, Goto
<1>8. ASSUME NEW c \in Client, Publish(c) PROVE SpawnedOK'
  BY <1>8 DEF Publish, Goto
<1>9. ASSUME NEW c \in Client, Spawn(c) PROVE SpawnedOK'
  BY <1>9 DEF Spawn, Goto
<1>10. ASSUME NEW c \in Client, Handshake(c) PROVE SpawnedOK'
  BY <1>10 DEF Handshake, Goto, LeavesHandshake
<1>11. ASSUME NEW c \in Client, LaunchOne(c) PROVE SpawnedOK'
  BY <1>11 DEF LaunchOne
<1>12. ASSUME NEW c \in Client, AllLaunched(c) PROVE SpawnedOK'
  BY <1>12 DEF AllLaunched, Goto
<1>13. ASSUME NEW c \in Client, OpenRecord(c) PROVE SpawnedOK'
  BY <1>13 DEF OpenRecord, Goto
<1>14. ASSUME NEW c \in Client, FillRecord(c) PROVE SpawnedOK'
  BY <1>14 DEF FillRecord, Goto
<1>15. ASSUME NEW c \in Client, Attach(c) PROVE SpawnedOK'
  BY <1>15 DEF Attach, Goto
<1>16. ASSUME NEW c \in Client, GiveUp(c) PROVE SpawnedOK'
  BY <1>16 DEF GiveUp, Exit, LeavesHandshake
<1>17. ASSUME NEW c \in Client, Ready(c) PROVE SpawnedOK'
  BY <1>17 DEF Ready, Goto, Exit
<1>18. ASSUME NEW c \in Client, Detach(c) PROVE SpawnedOK'
  BY <1>18 DEF Detach, Exit
<1>19. ASSUME NEW c \in Client, NotReady(c) PROVE SpawnedOK'
  BY <1>19 DEF NotReady, BeginStop
<1>20. ASSUME NEW c \in Client, EndSession(c) PROVE SpawnedOK'
  BY <1>20 DEF EndSession, BeginStop
<1>21. ASSUME NEW c \in Client, Stop(c) PROVE SpawnedOK'
  BY <1>21 DEF Stop, BeginStop
<1>22. ASSUME NEW c \in Client, Escalate(c) PROVE SpawnedOK'
  BY <1>22 DEF Escalate, Goto
<1>23. ASSUME NEW c \in Client, FirstStageEnds(c) PROVE SpawnedOK'
  BY <1>23 DEF FirstStageEnds, StageEnds
<1>24. ASSUME NEW c \in Client, StopComplete(c) PROVE SpawnedOK'
  BY <1>24 DEF StopComplete, StageEnds
<1>25. ASSUME NEW c \in Client, StopIncomplete(c) PROVE SpawnedOK'
  BY <1>25 DEF StopIncomplete, Exit, StageEnds
<1>26. ASSUME NEW c \in Client, Consume(c) PROVE SpawnedOK'
  BY <1>26 DEF Consume, Exit, BeginStop
<1>27. ASSUME NEW c \in Client, ClientKilled(c) PROVE SpawnedOK'
  BY <1>27 DEF ClientKilled, Exit, LeavesHandshake
<1>28. ASSUME NEW s \in Session, TakeSupLock(s) PROVE SpawnedOK'
  BY <1>28 DEF TakeSupLock
<1>29. ASSUME NEW s \in Session, Answer(s) PROVE SpawnedOK'
  BY <1>29 DEF Answer
<1>30. ASSUME NEW s \in Session, SupExits(s) PROVE SpawnedOK'
  BY <1>30 DEF SupExits
<1>31. ASSUME NEW s \in Session, RuntimeExits(s) PROVE SpawnedOK'
  BY <1>31 DEF RuntimeExits
<1>32. CASE UNCHANGED vars
  BY <1>32
<1> QED
  BY <1>1, <1>2, <1>3, <1>4, <1>5, <1>6, <1>7, <1>8, <1>9, <1>10, <1>11, <1>12, <1>13, <1>14, <1>15, <1>16, <1>17, <1>18, <1>19, <1>20, <1>21, <1>22, <1>23, <1>24, <1>25, <1>26, <1>27, <1>28, <1>29, <1>30, <1>31, <1>32
  DEF Next, ClientStep, ProcessStep

\* The bundle a supervisor reads is the one its launch published.
LEMMA OneReleaseStep == TypeOK /\ ControlOK /\ LaunchOK /\ SpawnedOK /\ OneRelease /\ [Next]_vars => OneRelease'
<1> SUFFICES ASSUME TypeOK, ControlOK, LaunchOK, SpawnedOK, OneRelease, [Next]_vars PROVE OneRelease'
  OBVIOUS
<1> USE SessionAssumption DEF vars, disk, procs, stopper, TypeOK, ControlOK, LaunchOK, SpawnedOK, OneRelease, Prelaunch, Launching, Attached, Stopping, Commands, Launches
<1>1. ASSUME NEW c \in Client, Begin(c) PROVE OneRelease'
  BY <1>1 DEF Begin, Goto
<1>2. ASSUME NEW c \in Client, Probe(c) PROVE OneRelease'
  BY <1>2 DEF Probe, Goto
<1>3. ASSUME NEW c \in Client, Refuse(c) PROVE OneRelease'
  BY <1>3 DEF Refuse, Exit, Refusal
<1>4. ASSUME NEW c \in Client, AcquireLock(c) PROVE OneRelease'
  BY <1>4 DEF AcquireLock, Goto
<1>5. ASSUME NEW c \in Client, Recheck(c) PROVE OneRelease'
  BY <1>5 DEF Recheck, Goto
<1>6. ASSUME NEW c \in Client, Gate(c) PROVE OneRelease'
  BY <1>6 DEF Gate, Goto
<1>7. ASSUME NEW c \in Client, RecordGate(c) PROVE OneRelease'
  BY <1>7 DEF RecordGate, Goto
<1>8. ASSUME NEW c \in Client, Publish(c) PROVE OneRelease'
  BY <1>8 DEF Publish, Goto
<1>9. ASSUME NEW c \in Client, Spawn(c) PROVE OneRelease'
  BY <1>9 DEF Spawn, Goto
<1>10. ASSUME NEW c \in Client, Handshake(c) PROVE OneRelease'
  BY <1>10 DEF Handshake, Goto, LeavesHandshake
<1>11. ASSUME NEW c \in Client, LaunchOne(c) PROVE OneRelease'
  BY <1>11 DEF LaunchOne
<1>12. ASSUME NEW c \in Client, AllLaunched(c) PROVE OneRelease'
  BY <1>12 DEF AllLaunched, Goto
<1>13. ASSUME NEW c \in Client, OpenRecord(c) PROVE OneRelease'
  BY <1>13 DEF OpenRecord, Goto
<1>14. ASSUME NEW c \in Client, FillRecord(c) PROVE OneRelease'
  BY <1>14 DEF FillRecord, Goto
<1>15. ASSUME NEW c \in Client, Attach(c) PROVE OneRelease'
  BY <1>15 DEF Attach, Goto
<1>16. ASSUME NEW c \in Client, GiveUp(c) PROVE OneRelease'
  BY <1>16 DEF GiveUp, Exit, LeavesHandshake
<1>17. ASSUME NEW c \in Client, Ready(c) PROVE OneRelease'
  BY <1>17 DEF Ready, Goto, Exit
<1>18. ASSUME NEW c \in Client, Detach(c) PROVE OneRelease'
  BY <1>18 DEF Detach, Exit
<1>19. ASSUME NEW c \in Client, NotReady(c) PROVE OneRelease'
  BY <1>19 DEF NotReady, BeginStop
<1>20. ASSUME NEW c \in Client, EndSession(c) PROVE OneRelease'
  BY <1>20 DEF EndSession, BeginStop
<1>21. ASSUME NEW c \in Client, Stop(c) PROVE OneRelease'
  BY <1>21 DEF Stop, BeginStop
<1>22. ASSUME NEW c \in Client, Escalate(c) PROVE OneRelease'
  BY <1>22 DEF Escalate, Goto
<1>23. ASSUME NEW c \in Client, FirstStageEnds(c) PROVE OneRelease'
  BY <1>23 DEF FirstStageEnds, StageEnds
<1>24. ASSUME NEW c \in Client, StopComplete(c) PROVE OneRelease'
  BY <1>24 DEF StopComplete, StageEnds
<1>25. ASSUME NEW c \in Client, StopIncomplete(c) PROVE OneRelease'
  BY <1>25 DEF StopIncomplete, Exit, StageEnds
<1>26. ASSUME NEW c \in Client, Consume(c) PROVE OneRelease'
  BY <1>26 DEF Consume, Exit, BeginStop
<1>27. ASSUME NEW c \in Client, ClientKilled(c) PROVE OneRelease'
  BY <1>27 DEF ClientKilled, Exit, LeavesHandshake
<1>28. ASSUME NEW s \in Session, TakeSupLock(s) PROVE OneRelease'
  BY <1>28 DEF TakeSupLock
<1>29. ASSUME NEW s \in Session, Answer(s) PROVE OneRelease'
  BY <1>29 DEF Answer
<1>30. ASSUME NEW s \in Session, SupExits(s) PROVE OneRelease'
  BY <1>30 DEF SupExits
<1>31. ASSUME NEW s \in Session, RuntimeExits(s) PROVE OneRelease'
  BY <1>31 DEF RuntimeExits
<1>32. CASE UNCHANGED vars
  BY <1>32
<1> QED
  BY <1>1, <1>2, <1>3, <1>4, <1>5, <1>6, <1>7, <1>8, <1>9, <1>10, <1>11, <1>12, <1>13, <1>14, <1>15, <1>16, <1>17, <1>18, <1>19, <1>20, <1>21, <1>22, <1>23, <1>24, <1>25, <1>26, <1>27, <1>28, <1>29, <1>30, <1>31, <1>32
  DEF Next, ClientStep, ProcessStep

\* A session is stopped, and its record readable, only after its launch.
LEMMA StopsAreLateStep == TypeOK /\ ControlOK /\ LockDiscipline /\ FreshOK /\ NoLaunchOverRecord /\ StopsAreLate /\ [Next]_vars => StopsAreLate'
<1> SUFFICES ASSUME TypeOK, ControlOK, LockDiscipline, FreshOK, NoLaunchOverRecord, StopsAreLate, [Next]_vars PROVE StopsAreLate'
  OBVIOUS
<1> USE ClientAssumption, SessionAssumption, NothingAssumption DEF vars, disk, procs, stopper, TypeOK, ControlOK, LockDiscipline, Holds, FreshOK, NoLaunchOverRecord, StopsAreLate, Prelaunch, Launching, Attached, Stopping, Commands, Launches
<1>1. ASSUME NEW c \in Client, Begin(c) PROVE StopsAreLate'
  BY <1>1 DEF Begin, Goto
<1>2. ASSUME NEW c \in Client, Probe(c) PROVE StopsAreLate'
  BY <1>2 DEF Probe, Goto
<1>3. ASSUME NEW c \in Client, Refuse(c) PROVE StopsAreLate'
  BY <1>3 DEF Refuse, Exit, Refusal
<1>4. ASSUME NEW c \in Client, AcquireLock(c) PROVE StopsAreLate'
  BY <1>4 DEF AcquireLock, Goto
<1>5. ASSUME NEW c \in Client, Recheck(c) PROVE StopsAreLate'
  BY <1>5 DEF Recheck, Goto
<1>6. ASSUME NEW c \in Client, Gate(c) PROVE StopsAreLate'
  BY <1>6 DEF Gate, Goto
<1>7. ASSUME NEW c \in Client, RecordGate(c) PROVE StopsAreLate'
  BY <1>7 DEF RecordGate, Goto
<1>8. ASSUME NEW c \in Client, Publish(c) PROVE StopsAreLate'
  BY <1>8 DEF Publish, Goto
<1>9. ASSUME NEW c \in Client, Spawn(c) PROVE StopsAreLate'
  BY <1>9 DEF Spawn, Goto
<1>10. ASSUME NEW c \in Client, Handshake(c) PROVE StopsAreLate'
  BY <1>10 DEF Handshake, Goto, LeavesHandshake
<1>11. ASSUME NEW c \in Client, LaunchOne(c) PROVE StopsAreLate'
  BY <1>11 DEF LaunchOne
<1>12. ASSUME NEW c \in Client, AllLaunched(c) PROVE StopsAreLate'
  BY <1>12 DEF AllLaunched, Goto
<1>13. ASSUME NEW c \in Client, OpenRecord(c) PROVE StopsAreLate'
  BY <1>13 DEF OpenRecord, Goto
<1>14. ASSUME NEW c \in Client, FillRecord(c) PROVE StopsAreLate'
  BY <1>14 DEF FillRecord, Goto
<1>15. ASSUME NEW c \in Client, Attach(c) PROVE StopsAreLate'
  BY <1>15 DEF Attach, Goto
<1>16. ASSUME NEW c \in Client, GiveUp(c) PROVE StopsAreLate'
  BY <1>16 DEF GiveUp, Exit, LeavesHandshake
<1>17. ASSUME NEW c \in Client, Ready(c) PROVE StopsAreLate'
  BY <1>17 DEF Ready, Goto, Exit
<1>18. ASSUME NEW c \in Client, Detach(c) PROVE StopsAreLate'
  BY <1>18 DEF Detach, Exit
<1>19. ASSUME NEW c \in Client, NotReady(c) PROVE StopsAreLate'
  BY <1>19 DEF NotReady, BeginStop
<1>20. ASSUME NEW c \in Client, EndSession(c) PROVE StopsAreLate'
  BY <1>20 DEF EndSession, BeginStop
<1>21. ASSUME NEW c \in Client, Stop(c) PROVE StopsAreLate'
  BY <1>21 DEF Stop, BeginStop
<1>22. ASSUME NEW c \in Client, Escalate(c) PROVE StopsAreLate'
  BY <1>22 DEF Escalate, Goto
<1>23. ASSUME NEW c \in Client, FirstStageEnds(c) PROVE StopsAreLate'
  BY <1>23 DEF FirstStageEnds, StageEnds
<1>24. ASSUME NEW c \in Client, StopComplete(c) PROVE StopsAreLate'
  BY <1>24 DEF StopComplete, StageEnds
<1>25. ASSUME NEW c \in Client, StopIncomplete(c) PROVE StopsAreLate'
  BY <1>25 DEF StopIncomplete, Exit, StageEnds
<1>26. ASSUME NEW c \in Client, Consume(c) PROVE StopsAreLate'
  BY <1>26 DEF Consume, Exit, BeginStop
<1>27. ASSUME NEW c \in Client, ClientKilled(c) PROVE StopsAreLate'
  BY <1>27 DEF ClientKilled, Exit, LeavesHandshake
<1>28. ASSUME NEW s \in Session, TakeSupLock(s) PROVE StopsAreLate'
  BY <1>28 DEF TakeSupLock
<1>29. ASSUME NEW s \in Session, Answer(s) PROVE StopsAreLate'
  BY <1>29 DEF Answer
<1>30. ASSUME NEW s \in Session, SupExits(s) PROVE StopsAreLate'
  BY <1>30 DEF SupExits
<1>31. ASSUME NEW s \in Session, RuntimeExits(s) PROVE StopsAreLate'
  BY <1>31 DEF RuntimeExits
<1>32. CASE UNCHANGED vars
  BY <1>32
<1> QED
  BY <1>1, <1>2, <1>3, <1>4, <1>5, <1>6, <1>7, <1>8, <1>9, <1>10, <1>11, <1>12, <1>13, <1>14, <1>15, <1>16, <1>17, <1>18, <1>19, <1>20, <1>21, <1>22, <1>23, <1>24, <1>25, <1>26, <1>27, <1>28, <1>29, <1>30, <1>31, <1>32
  DEF Next, ClientStep, ProcessStep

\* What a first stage ended stays ended: nothing launches for that session again.
LEMMA StageOneStep == TypeOK /\ ControlOK /\ LockDiscipline /\ FreshOK /\ LaunchOK /\ StopsAreLate /\ StageOneGone /\ [Next]_vars => StageOneGone'
<1> SUFFICES ASSUME TypeOK, ControlOK, LockDiscipline, FreshOK, LaunchOK, StopsAreLate, StageOneGone, [Next]_vars PROVE StageOneGone'
  OBVIOUS
<1> USE ClientAssumption, SessionAssumption, NothingAssumption DEF vars, disk, procs, stopper, TypeOK, ControlOK, LockDiscipline, Holds, FreshOK, LaunchOK, StopsAreLate, StageOneGone, StopMode, LaunchMode, Modes, EndsRuntimes, StageGone, SupGone, RuntimesGone, Prelaunch, Launching, Attached, Stopping, Commands, Launches
<1>1. ASSUME NEW c \in Client, Begin(c) PROVE StageOneGone'
  BY <1>1 DEF Begin, Goto
<1>2. ASSUME NEW c \in Client, Probe(c) PROVE StageOneGone'
  BY <1>2 DEF Probe, Goto
<1>3. ASSUME NEW c \in Client, Refuse(c) PROVE StageOneGone'
  BY <1>3 DEF Refuse, Exit, Refusal
<1>4. ASSUME NEW c \in Client, AcquireLock(c) PROVE StageOneGone'
  BY <1>4 DEF AcquireLock, Goto
<1>5. ASSUME NEW c \in Client, Recheck(c) PROVE StageOneGone'
  BY <1>5 DEF Recheck, Goto
<1>6. ASSUME NEW c \in Client, Gate(c) PROVE StageOneGone'
  BY <1>6 DEF Gate, Goto
<1>7. ASSUME NEW c \in Client, RecordGate(c) PROVE StageOneGone'
  BY <1>7 DEF RecordGate, Goto
<1>8. ASSUME NEW c \in Client, Publish(c) PROVE StageOneGone'
  BY <1>8 DEF Publish, Goto
<1>9. ASSUME NEW c \in Client, Spawn(c) PROVE StageOneGone'
  BY <1>9 DEF Spawn, Goto
<1>10. ASSUME NEW c \in Client, Handshake(c) PROVE StageOneGone'
  BY <1>10 DEF Handshake, Goto, LeavesHandshake
<1>11. ASSUME NEW c \in Client, LaunchOne(c) PROVE StageOneGone'
  BY <1>11 DEF LaunchOne
<1>12. ASSUME NEW c \in Client, AllLaunched(c) PROVE StageOneGone'
  BY <1>12 DEF AllLaunched, Goto
<1>13. ASSUME NEW c \in Client, OpenRecord(c) PROVE StageOneGone'
  BY <1>13 DEF OpenRecord, Goto
<1>14. ASSUME NEW c \in Client, FillRecord(c) PROVE StageOneGone'
  BY <1>14 DEF FillRecord, Goto
<1>15. ASSUME NEW c \in Client, Attach(c) PROVE StageOneGone'
  BY <1>15 DEF Attach, Goto
<1>16. ASSUME NEW c \in Client, GiveUp(c) PROVE StageOneGone'
  BY <1>16 DEF GiveUp, Exit, LeavesHandshake
<1>17. ASSUME NEW c \in Client, Ready(c) PROVE StageOneGone'
  BY <1>17 DEF Ready, Goto, Exit
<1>18. ASSUME NEW c \in Client, Detach(c) PROVE StageOneGone'
  BY <1>18 DEF Detach, Exit
<1>19. ASSUME NEW c \in Client, NotReady(c) PROVE StageOneGone'
  BY <1>19 DEF NotReady, BeginStop
<1>20. ASSUME NEW c \in Client, EndSession(c) PROVE StageOneGone'
  BY <1>20 DEF EndSession, BeginStop
<1>21. ASSUME NEW c \in Client, Stop(c) PROVE StageOneGone'
  BY <1>21 DEF Stop, BeginStop
<1>22. ASSUME NEW c \in Client, Escalate(c) PROVE StageOneGone'
  BY <1>22 DEF Escalate, Goto
<1>23. ASSUME NEW c \in Client, FirstStageEnds(c) PROVE StageOneGone'
  <2>1. /\ pc' = [pc EXCEPT ![c] = "grace"] /\ stage' = [stage EXCEPT ![c] = 2]
        /\ failed' = [failed EXCEPT ![c] = ~StageGone(c)]
        /\ UNCHANGED <<buildLock, disk, procs, mode, cmd, sess, confirmed, loose>>
        /\ stage[c] = 1
    BY <1>23 DEF FirstStageEnds
  <2>2. StageGone(c) => IF StopMode(c) = "Native" THEN RuntimesGone(sess[c]) ELSE SupGone(sess[c])
    BY <2>1
  <2>3. failed'[c] = ~StageGone(c)
    BY <2>1
  <2>4. ASSUME NEW d \in Client, d # c
        PROVE  pc'[d] = pc[d] /\ stage'[d] = stage[d] /\ failed'[d] = failed[d]
    BY <2>1, <2>4
  <2>5. SUFFICES ASSUME NEW d \in Client, pc'[d] \in Stopping, stage'[d] = 2, ~failed'[d]
                 PROVE  IF StopMode(d)' = "Native"
                        THEN RuntimesGone(sess[d])' ELSE SupGone(sess[d])'
    OBVIOUS
  <2>6. CASE d # c
    BY <2>1, <2>4, <2>5, <2>6
  <2>7. CASE d = c
    BY <2>1, <2>2, <2>3, <2>5, <2>7
  <2> QED
    BY <2>6, <2>7
<1>24. ASSUME NEW c \in Client, StopComplete(c) PROVE StageOneGone'
  BY <1>24 DEF StopComplete, StageEnds
<1>25. ASSUME NEW c \in Client, StopIncomplete(c) PROVE StageOneGone'
  BY <1>25 DEF StopIncomplete, Exit, StageEnds
<1>26. ASSUME NEW c \in Client, Consume(c) PROVE StageOneGone'
  BY <1>26 DEF Consume, Exit, BeginStop
<1>27. ASSUME NEW c \in Client, ClientKilled(c) PROVE StageOneGone'
  BY <1>27 DEF ClientKilled, Exit, LeavesHandshake
<1>28. ASSUME NEW s \in Session, TakeSupLock(s) PROVE StageOneGone'
  BY <1>28 DEF TakeSupLock
<1>29. ASSUME NEW s \in Session, Answer(s) PROVE StageOneGone'
  BY <1>29 DEF Answer
<1>30. ASSUME NEW s \in Session, SupExits(s) PROVE StageOneGone'
  BY <1>30 DEF SupExits
<1>31. ASSUME NEW s \in Session, RuntimeExits(s) PROVE StageOneGone'
  BY <1>31 DEF RuntimeExits
<1>32. CASE UNCHANGED vars
  BY <1>32
<1> QED
  BY <1>1, <1>2, <1>3, <1>4, <1>5, <1>6, <1>7, <1>8, <1>9, <1>10, <1>11, <1>12, <1>13, <1>14, <1>15, <1>16, <1>17, <1>18, <1>19, <1>20, <1>21, <1>22, <1>23, <1>24, <1>25, <1>26, <1>27, <1>28, <1>29, <1>30, <1>31, <1>32
  DEF Next, ClientStep, ProcessStep

\* A record is consumed after both stages left nothing running.
LEMMA StoppedStep == TypeOK /\ ControlOK /\ LockDiscipline /\ FreshOK /\ LaunchOK /\ StopsAreLate /\ StageOneGone /\ StoppedSessionIsGone /\ [Next]_vars => StoppedSessionIsGone'
<1> SUFFICES ASSUME TypeOK, ControlOK, LockDiscipline, FreshOK, LaunchOK, StopsAreLate, StageOneGone, StoppedSessionIsGone, [Next]_vars PROVE StoppedSessionIsGone'
  OBVIOUS
<1> USE ClientAssumption, SessionAssumption, NothingAssumption DEF vars, disk, procs, stopper, TypeOK, ControlOK, LockDiscipline, Holds, FreshOK, LaunchOK, StopsAreLate, StageOneGone, StoppedSessionIsGone, StopMode, LaunchMode, Modes, EndsRuntimes, StageGone, Gone, SupGone, RuntimesGone, Prelaunch, Launching, Attached, Stopping, Commands, Launches
<1>1. ASSUME NEW c \in Client, Begin(c) PROVE StoppedSessionIsGone'
  BY <1>1 DEF Begin, Goto
<1>2. ASSUME NEW c \in Client, Probe(c) PROVE StoppedSessionIsGone'
  BY <1>2 DEF Probe, Goto
<1>3. ASSUME NEW c \in Client, Refuse(c) PROVE StoppedSessionIsGone'
  BY <1>3 DEF Refuse, Exit, Refusal
<1>4. ASSUME NEW c \in Client, AcquireLock(c) PROVE StoppedSessionIsGone'
  BY <1>4 DEF AcquireLock, Goto
<1>5. ASSUME NEW c \in Client, Recheck(c) PROVE StoppedSessionIsGone'
  BY <1>5 DEF Recheck, Goto
<1>6. ASSUME NEW c \in Client, Gate(c) PROVE StoppedSessionIsGone'
  BY <1>6 DEF Gate, Goto
<1>7. ASSUME NEW c \in Client, RecordGate(c) PROVE StoppedSessionIsGone'
  BY <1>7 DEF RecordGate, Goto
<1>8. ASSUME NEW c \in Client, Publish(c) PROVE StoppedSessionIsGone'
  BY <1>8 DEF Publish, Goto
<1>9. ASSUME NEW c \in Client, Spawn(c) PROVE StoppedSessionIsGone'
  BY <1>9 DEF Spawn, Goto
<1>10. ASSUME NEW c \in Client, Handshake(c) PROVE StoppedSessionIsGone'
  BY <1>10 DEF Handshake, Goto, LeavesHandshake
<1>11. ASSUME NEW c \in Client, LaunchOne(c) PROVE StoppedSessionIsGone'
  BY <1>11 DEF LaunchOne
<1>12. ASSUME NEW c \in Client, AllLaunched(c) PROVE StoppedSessionIsGone'
  BY <1>12 DEF AllLaunched, Goto
<1>13. ASSUME NEW c \in Client, OpenRecord(c) PROVE StoppedSessionIsGone'
  BY <1>13 DEF OpenRecord, Goto
<1>14. ASSUME NEW c \in Client, FillRecord(c) PROVE StoppedSessionIsGone'
  BY <1>14 DEF FillRecord, Goto
<1>15. ASSUME NEW c \in Client, Attach(c) PROVE StoppedSessionIsGone'
  BY <1>15 DEF Attach, Goto
<1>16. ASSUME NEW c \in Client, GiveUp(c) PROVE StoppedSessionIsGone'
  BY <1>16 DEF GiveUp, Exit, LeavesHandshake
<1>17. ASSUME NEW c \in Client, Ready(c) PROVE StoppedSessionIsGone'
  BY <1>17 DEF Ready, Goto, Exit
<1>18. ASSUME NEW c \in Client, Detach(c) PROVE StoppedSessionIsGone'
  BY <1>18 DEF Detach, Exit
<1>19. ASSUME NEW c \in Client, NotReady(c) PROVE StoppedSessionIsGone'
  BY <1>19 DEF NotReady, BeginStop
<1>20. ASSUME NEW c \in Client, EndSession(c) PROVE StoppedSessionIsGone'
  BY <1>20 DEF EndSession, BeginStop
<1>21. ASSUME NEW c \in Client, Stop(c) PROVE StoppedSessionIsGone'
  BY <1>21 DEF Stop, BeginStop
<1>22. ASSUME NEW c \in Client, Escalate(c) PROVE StoppedSessionIsGone'
  BY <1>22 DEF Escalate, Goto
<1>23. ASSUME NEW c \in Client, FirstStageEnds(c) PROVE StoppedSessionIsGone'
  BY <1>23 DEF FirstStageEnds, StageEnds
<1>24. ASSUME NEW c \in Client, StopComplete(c) PROVE StoppedSessionIsGone'
  BY <1>24 DEF StopComplete, StageEnds
<1>25. ASSUME NEW c \in Client, StopIncomplete(c) PROVE StoppedSessionIsGone'
  BY <1>25 DEF StopIncomplete, Exit, StageEnds
<1>26. ASSUME NEW c \in Client, Consume(c) PROVE StoppedSessionIsGone'
  BY <1>26 DEF Consume, Exit, BeginStop
<1>27. ASSUME NEW c \in Client, ClientKilled(c) PROVE StoppedSessionIsGone'
  BY <1>27 DEF ClientKilled, Exit, LeavesHandshake
<1>28. ASSUME NEW s \in Session, TakeSupLock(s) PROVE StoppedSessionIsGone'
  BY <1>28 DEF TakeSupLock
<1>29. ASSUME NEW s \in Session, Answer(s) PROVE StoppedSessionIsGone'
  BY <1>29 DEF Answer
<1>30. ASSUME NEW s \in Session, SupExits(s) PROVE StoppedSessionIsGone'
  BY <1>30 DEF SupExits
<1>31. ASSUME NEW s \in Session, RuntimeExits(s) PROVE StoppedSessionIsGone'
  BY <1>31 DEF RuntimeExits
<1>32. CASE UNCHANGED vars
  BY <1>32
<1> QED
  BY <1>1, <1>2, <1>3, <1>4, <1>5, <1>6, <1>7, <1>8, <1>9, <1>10, <1>11, <1>12, <1>13, <1>14, <1>15, <1>16, <1>17, <1>18, <1>19, <1>20, <1>21, <1>22, <1>23, <1>24, <1>25, <1>26, <1>27, <1>28, <1>29, <1>30, <1>31, <1>32
  DEF Next, ClientStep, ProcessStep

(***************************************************************************)
(* The invariant and what follows from it.                                 *)
(***************************************************************************)
\* The strengthening of the safety properties holds in every reachable state.
THEOREM Invariant == Spec => []IInv
<1>1. Init => IInv
  BY ClientAssumption, SessionAssumption, NothingAssumption
  DEF Init, IInv, TypeOK, ControlOK, LockDiscipline, Holds, SupLockOK, FreshOK,
      NoLaunchOverRecord, LaunchOK, SpawnedOK, OneRelease, StopsAreLate, StageOneGone,
      StoppedSessionIsGone, PCs, Modes, Prelaunch, Launching, Attached, Stopping,
      Commands, Launches
<1>2. IInv /\ [Next]_vars => IInv'
  BY TypeStep, ControlStep, LockStep, SupLockStep, FreshStep, NoLaunchOverRecordStep,
     LaunchStep, SpawnedStep, OneReleaseStep, StopsAreLateStep, StageOneStep, StoppedStep
  DEF IInv
<1> QED
  BY <1>1, <1>2, PTL DEF Spec

\* Type correctness of the whole command lifecycle.
THEOREM TypeCorrect == Spec => []TypeOK
<1>1. IInv => TypeOK
  BY DEF IInv
<1> QED
  BY <1>1, Invariant, PTL

\* Commands exclude each other from the build lock to their end, and none of
\* them launches over a record.
THEOREM LaunchesExclude == Spec => [](LockDiscipline /\ NoLaunchOverRecord)
<1>1. IInv => LockDiscipline /\ NoLaunchOverRecord
  BY DEF IInv
<1> QED
  BY <1>1, Invariant, PTL

\* A supervisor that was waited for executes its own release.
THEOREM ReleaseIsWhole == Spec => []OneRelease
<1>1. IInv => OneRelease
  BY DEF IInv
<1> QED
  BY <1>1, Invariant, PTL

\* Whoever consumes a record has seen every process it stopped go.
THEOREM StopIsComplete == Spec => []StoppedSessionIsGone
<1>1. IInv => StoppedSessionIsGone
  BY DEF IInv
<1> QED
  BY <1>1, Invariant, PTL

\* The owner of a simulation execution stops its supervisor first.
THEOREM OwnerOrder == Spec => []OwnerStopsSimulationSupervisorFirst
<1>1. IInv => OwnerStopsSimulationSupervisorFirst
  BY DEF IInv, TypeOK, StageOneGone, OwnerStopsSimulationSupervisorFirst, StopMode,
         LaunchMode, EndsRuntimes, Stopping
<1> QED
  BY <1>1, Invariant, PTL

\* The published release is replaced by a publication alone.
LEMMA BundleWriters == [Next]_vars /\ bundle' # bundle => \E c \in Client : Publish(c)
  BY DEF Next, ClientStep, ProcessStep, vars, disk, Begin, Probe, Refuse, AcquireLock,
      Recheck, Gate, RecordGate, Publish, Spawn, Handshake, LaunchOne, AllLaunched,
      OpenRecord, FillRecord, Attach, GiveUp, Ready, Detach, NotReady, EndSession,
      Stop, Escalate, FirstStageEnds, StopComplete, StopIncomplete, Consume,
      ClientKilled, TakeSupLock, Answer, SupExits, RuntimeExits

\* The record is changed by its writer and by a stop alone.
LEMMA RecordWriters ==
  [Next]_vars /\ record' # record =>
    \E c \in Client : OpenRecord(c) \/ FillRecord(c) \/ Consume(c)
  BY DEF Next, ClientStep, ProcessStep, vars, disk, Begin, Probe, Refuse, AcquireLock,
      Recheck, Gate, RecordGate, Publish, Spawn, Handshake, LaunchOne, AllLaunched,
      OpenRecord, FillRecord, Attach, GiveUp, Ready, Detach, NotReady, EndSession,
      Stop, Escalate, FirstStageEnds, StopComplete, StopIncomplete, Consume,
      ClientKilled, TakeSupLock, Answer, SupExits, RuntimeExits

\* The release is never replaced under a supervisor its launch waited for.
THEOREM PublishesAlone == Spec => NeverPublishedUnderfoot
<1>1. IInv /\ [Next]_vars =>
        [bundle' # bundle =>
           \A s \in Session \ loose : sup[s] \notin {"locked", "answering"}]_vars
  <2> SUFFICES ASSUME IInv, [Next]_vars, bundle' # bundle, NEW s \in Session \ loose
               PROVE  sup[s] \notin {"locked", "answering"}
    OBVIOUS
  <2>1. PICK c \in Client : Publish(c)
    BY BundleWriters
  <2>2. supLock \in loose \cup {Nothing}
    BY <2>1 DEF Publish, Goto, IInv, LaunchOK
  <2>3. supLock # s
    BY <2>2, SessionAssumption
  <2> QED
    BY <2>3 DEF IInv, SupLockOK
<1> QED
  BY <1>1, Invariant, PTL DEF Spec, NeverPublishedUnderfoot

\* A record is only replaced by nothing, or completed by its writer.
THEOREM RecordsAreKept == Spec => RecordNeverOverwritten
<1>1. IInv /\ [Next]_vars =>
        [record' # record => \/ record' = Nothing
                             \/ record = Nothing
                             \/ /\ record = Garbled
                                /\ \E c \in Client : /\ pc[c] = "writing"
                                                     /\ record' = sess[c]]_vars
  <2> SUFFICES ASSUME IInv, [Next]_vars, record' # record, record' # Nothing, record # Nothing
               PROVE  /\ record = Garbled
                      /\ \E c \in Client : pc[c] = "writing" /\ record' = sess[c]
    OBVIOUS
  <2>1. PICK c \in Client : OpenRecord(c) \/ FillRecord(c) \/ Consume(c)
    BY RecordWriters
  <2>2. CASE OpenRecord(c)
    BY <2>2 DEF OpenRecord, Goto, IInv, NoLaunchOverRecord
  <2>3. CASE FillRecord(c)
    BY <2>3 DEF FillRecord, Goto
  <2>4. CASE Consume(c)
    BY <2>4 DEF Consume
  <2> QED
    BY <2>1, <2>2, <2>3, <2>4
<1> QED
  BY <1>1, Invariant, PTL DEF Spec, RecordNeverOverwritten

(***************************************************************************)
(* RunCommand, for every robot and every bound.  The reducer and the       *)
(* mailbox of the dashboard are recursive functions of the messages that   *)
(* have arrived; what a pass does is an induction on their number: < is    *)
(* well founded on Nat, so a set of numbers that is not empty has a least  *)
(* element.                                                                *)
(***************************************************************************)

\* A non-empty set of numbers has a least one: the induction of this module.
LEMMA LeastNumber ==
  ASSUME NEW T \in SUBSET Nat, T # {}
  PROVE  \E n \in T : \A m \in T : n <= m
<1> DEFINE R == OpToRel(<, Nat)
<1>1. IsWellFoundedOn(R, Nat) BY NatLessThanWellFounded
<1>2. \A x, y \in Nat : x < y => <<x, y>> \in R BY DEF OpToRel
<1> HIDE DEF R
<1>3. PICK n \in T : \A m \in T : ~ (<<m, n>> \in R) BY <1>1, WFMin
<1>4. ASSUME NEW m \in T PROVE n <= m
  <2>1. m \in Nat /\ n \in Nat OBVIOUS
  <2>2. ~ (m < n) BY <1>2, <1>3, <2>1
  <2> QED BY <2>1, <2>2
<1> QED BY <1>4

\* A set of numbers with 0 and with the successor of each of its elements below
\* a bound holds every number up to the bound.
LEMMA UpTo ==
  ASSUME NEW T, NEW N \in Nat, 0 \in T,
         \A k \in 0 .. N - 1 : k \in T => k + 1 \in T
  PROVE  0 .. N \subseteq T
<1>1. SUFFICES ASSUME 0 .. N \ T # {} PROVE FALSE OBVIOUS
<1> DEFINE S == 0 .. N \ T
<1>0. S \in SUBSET Nat /\ S # {} BY <1>1
<1>2. PICK n \in S : \A m \in S : n <= m BY <1>0, LeastNumber
<1>3. n # 0 /\ n - 1 \in 0 .. N - 1 /\ n - 1 \in 0 .. N BY <1>2
<1>4. n - 1 \in T BY <1>2, <1>3
<1>5. (n - 1) + 1 \in T BY <1>3, <1>4
<1>6. (n - 1) + 1 = n BY <1>2
<1> QED BY <1>2, <1>5, <1>6

(***************************************************************************)
(* The startup, for every robot, every selection and every bound.          *)
(***************************************************************************)
Working     == {"prepare", "supervisor", "look", "wait", "admit", "member"}
HandingOver == {"ready", "quiet", "handed-over"}

\* A checklist none of whose steps has failed.
Unfailed(list) ==
  \E ids \in SUBSET ToSet(StepOrder) : list \in [ids -> {"pending", "active", "done"}]

\* While the command works on the checklist nothing of it has failed; the
\* attachment has not begun before the robot is admitted, and is all that may be
\* active after.
ChecklistOK ==
  step \in Working \cup HandingOver =>
    /\ Unfailed(checklist)
    /\ step \in Working \ {"member"} /\ "attachment" \in DOMAIN checklist
         => checklist["attachment"] = "pending"
    /\ step = "member" =>
         \A id \in DOMAIN checklist : checklist[id] = "active" => id = "attachment"
    /\ step \in {"admit"} \cup HandingOver =>
         \A id \in DOMAIN checklist : checklist[id] # "active"

\* What is handed over has been earned.
EarnedOK == step \in {"admit", "member"} \cup HandingOver => earned

\* Whose the terminal is, and who takes the diagnostics then.
TerminalOK ==
  /\ step \in Working \cup {"ready", "rollback", "failed"} => terminal # "dashboard"
  /\ step \in Working \cup {"ready", "rollback", "failed"} => routed = "checklist"
  /\ step \in {"quiet", "over"} => terminal # "dashboard"
  /\ step = "handed-over" => closed
  /\ terminal = "dashboard" => closed /\ routed = "dashboard"

StartupOK ==
  /\ step \in Working \cup HandingOver \cup {"rollback", "failed", "over", "driving"}
  /\ ChecklistOK /\ EarnedOK /\ TerminalOK
  /\ ~ scribbled

StepNames == {"project", "prepare", "supervisor", "runtimes", "attachment"}

\* The steps of a checklist, as a set.
LEMMA StepOrderNames == ToSet(StepOrder) = StepNames
<1>1. Len(StepOrder) = 5 /\ DOMAIN StepOrder = 1 .. 5 BY DEF StepOrder
<1>2. ToSet(StepOrder) = {StepOrder[i] : i \in 1 .. 5} BY <1>1 DEF ToSet
<1>3. 1 .. 5 = {1, 2, 3, 4, 5} OBVIOUS
<1>4. /\ StepOrder[1] = "project" /\ StepOrder[2] = "prepare" /\ StepOrder[3] = "supervisor"
      /\ StepOrder[4] = "runtimes" /\ StepOrder[5] = "attachment"
  BY DEF StepOrder
<1> HIDE DEF StepOrder
<1> QED BY <1>2, <1>3, <1>4 DEF StepNames

\* Settling the steps before another one ends those that are active and leaves
\* the rest alone.
LEMMA Settling ==
  ASSUME NEW list, Unfailed(list), NEW id
  PROVE  /\ Unfailed(SettleBefore(list, id))
         /\ DOMAIN SettleBefore(list, id) = DOMAIN list
         /\ \A s \in DOMAIN list :
              \/ SettleBefore(list, id)[s] = list[s]
              \/ list[s] = "active" /\ SettleBefore(list, id)[s] = "done"
<1>1. PICK ids \in SUBSET ToSet(StepOrder) : list \in [ids -> {"pending", "active", "done"}]
  BY DEF Unfailed
<1> DEFINE before == {StepOrder[i] : i \in {j \in DOMAIN StepOrder :
                        j < CHOOSE k \in DOMAIN StepOrder : StepOrder[k] = id}}
           settled == [s \in DOMAIN list |->
                         IF s \in before /\ list[s] = "active" THEN "done" ELSE list[s]]
<1>2. SettleBefore(list, id) = settled BY DEF SettleBefore, Running
<1> HIDE DEF before
<1>3. settled \in [ids -> {"pending", "active", "done"}] BY <1>1
<1>4. Unfailed(settled)
  <2> HIDE DEF settled
  <2> QED BY <1>3 DEF Unfailed
<1>5. /\ DOMAIN settled = DOMAIN list
      /\ \A s \in DOMAIN list : settled[s] = list[s] \/ (list[s] = "active" /\ settled[s] = "done")
  OBVIOUS
<1> HIDE DEF settled
<1> QED BY <1>2, <1>4, <1>5

\* The steps before the runtimes are settled by them.
LEMMA SettlingForRuntimes ==
  ASSUME NEW list, NEW s \in DOMAIN list, s \in {"project", "prepare", "supervisor"}
  PROVE  SettleBefore(list, "runtimes")[s] # "active"
<1> DEFINE at == CHOOSE k \in DOMAIN StepOrder : StepOrder[k] = "runtimes"
           before == {StepOrder[i] : i \in {j \in DOMAIN StepOrder : j < at}}
<1>1. DOMAIN StepOrder = 1 .. 5 BY DEF StepOrder
<1>2. /\ StepOrder[1] = "project" /\ StepOrder[2] = "prepare" /\ StepOrder[3] = "supervisor"
      /\ StepOrder[4] = "runtimes" /\ StepOrder[5] = "attachment"
  BY DEF StepOrder
<1>3. at \in DOMAIN StepOrder /\ StepOrder[at] = "runtimes"
  <2>1. 4 \in DOMAIN StepOrder BY <1>1
  <2> HIDE DEF StepOrder
  <2> QED BY <1>2, <2>1
<1> HIDE DEF at
<1>4. at = 4
  <2>1. at \in {1, 2, 3, 4, 5} BY <1>1, <1>3
  <2> QED BY <1>2, <1>3, <2>1
<1>5. s \in before
  <2>1. 1 \in DOMAIN StepOrder /\ 2 \in DOMAIN StepOrder /\ 3 \in DOMAIN StepOrder BY <1>1
  <2>2. 1 < at /\ 2 < at /\ 3 < at BY <1>4
  <2> QED BY <1>2, <2>1, <2>2
<1>6. SettleBefore(list, "runtimes") =
        [t \in DOMAIN list |-> IF t \in before /\ list[t] = "active" THEN "done" ELSE list[t]]
  BY DEF SettleBefore, Running, at
<1> HIDE DEF before
<1> QED BY <1>5, <1>6

\* Beginning a step makes nothing else active, completing one makes nothing active.
LEMMA Beginning ==
  ASSUME NEW list, Unfailed(list), NEW id
  PROVE  /\ Unfailed(BeginStep(list, id))
         /\ DOMAIN BeginStep(list, id) = DOMAIN list
         /\ \A s \in DOMAIN list \ {id} :
              \/ BeginStep(list, id)[s] = list[s]
              \/ list[s] = "active" /\ BeginStep(list, id)[s] = "done"
<1> DEFINE settled == SettleBefore(list, id)
<1>1. /\ Unfailed(settled) /\ DOMAIN settled = DOMAIN list
      /\ \A s \in DOMAIN list : settled[s] = list[s] \/ (list[s] = "active" /\ settled[s] = "done")
  BY Settling
<1>2. BeginStep(list, id) = [settled EXCEPT ![id] = "active"] BY DEF BeginStep
<1> HIDE DEF settled
<1>3. Unfailed([settled EXCEPT ![id] = "active"]) BY <1>1 DEF Unfailed
<1> QED BY <1>1, <1>2, <1>3

\* A step that is completed is not active, and its like are settled.
LEMMA Completing ==
  ASSUME NEW list, Unfailed(list), NEW id
  PROVE  /\ Unfailed(Complete(list, id))
         /\ DOMAIN Complete(list, id) = DOMAIN list
         /\ \A s \in DOMAIN list : Complete(list, id)[s] # "active" \/ s # id
         /\ \A s \in DOMAIN list \ {id} :
              Complete(list, id)[s] = SettleBefore(list, id)[s]
<1> DEFINE settled == SettleBefore(list, id)
<1>1. Unfailed(settled) /\ DOMAIN settled = DOMAIN list BY Settling
<1>2. Complete(list, id) = IF settled[id] \in {"done", "failed"} THEN settled
                           ELSE [settled EXCEPT ![id] = "done"]
  BY DEF Complete, Finish, Settled
<1> HIDE DEF settled
<1>3. Unfailed([settled EXCEPT ![id] = "done"]) BY <1>1 DEF Unfailed
<1>4. \A s \in DOMAIN list : Complete(list, id)[s] # "active" \/ s # id BY <1>1, <1>2
<1>5. \A s \in DOMAIN list \ {id} : Complete(list, id)[s] = settled[s] BY <1>1, <1>2
<1> QED BY <1>1, <1>2, <1>3, <1>4, <1>5 DEF settled

\* StartupOK speaks of these variables only.
gate == <<step, checklist, closed, routed, terminal, scribbled, earned>>

\* Nothing else than these variables matters.
LEMMA StartupUnchanged ==
  ASSUME StartupOK, UNCHANGED gate PROVE StartupOK'
BY DEF StartupOK, gate, ChecklistOK, EarnedOK, TerminalOK

\* A line is drawn while the terminal is not the dashboard's.
LEMMA Drawing ==
  ASSUME StartupOK, Draw, terminal # "dashboard" \/ closed
  PROVE  ~ scribbled'
BY DEF StartupOK, Draw

\* A command that starts has failed at nothing and handed over nothing.
LEMMA InitialChecklist ==
  ASSUME StartupInit PROVE StartupOK
<1>1. step = "prepare" /\ checklist = NewChecklist /\ terminal = "checklist"
      /\ routed = "checklist" /\ ~ scribbled /\ ~ earned
  BY DEF StartupInit
<1>2. \E ids \in SUBSET ToSet(StepOrder) : ToSet(Steps) = ids
  <2>1. ToSet(SubSeq(StepOrder, 1, 4)) \subseteq ToSet(StepOrder)
    <3>1. DOMAIN StepOrder = 1 .. 5 BY DEF StepOrder
    <3>2. SubSeq(StepOrder, 1, 4) = [i \in 1 .. 4 |-> StepOrder[i]]
      BY DEF StepOrder
    <3> HIDE DEF StepOrder
    <3>3. \A i \in 1 .. 4 : i \in 1 .. 5 OBVIOUS
    <3> QED BY <3>1, <3>2, <3>3 DEF ToSet
  <2> QED BY <2>1 DEF Steps
<1>3. Unfailed(NewChecklist) BY <1>2 DEF NewChecklist, Unfailed
<1>4. \A id \in DOMAIN NewChecklist : NewChecklist[id] = "pending" BY DEF NewChecklist
<1> QED
  BY <1>1, <1>3, <1>4
  DEF StartupOK, ChecklistOK, EarnedOK, TerminalOK, Working, HandingOver

\* A phase of the preparation is begun or completed.
LEMMA ReportPhaseStep ==
  ASSUME StartupOK, ReportPhase PROVE StartupOK'
<1>1. step = "prepare" /\ UNCHANGED <<step, closed, routed, terminal, earned>> /\ Draw
  BY DEF ReportPhase
<1>2. ~ scribbled'
  BY <1>1, Drawing DEF StartupOK, TerminalOK, Working
<1>3. Unfailed(checklist) /\ ("attachment" \in DOMAIN checklist => checklist["attachment"] = "pending")
  BY <1>1 DEF StartupOK, ChecklistOK, Working
<1>4. \/ \E id \in {"project", "prepare"} : checklist' = BeginStep(checklist, id)
      \/ checklist' = Complete(checklist, "project")
  BY DEF ReportPhase
<1>5. Unfailed(checklist')
      /\ ("attachment" \in DOMAIN checklist' => checklist'["attachment"] = "pending")
  <2>1. CASE \E id \in {"project", "prepare"} : checklist' = BeginStep(checklist, id)
    BY <1>3, <2>1, Beginning
  <2>2. CASE checklist' = Complete(checklist, "project")
    BY <1>3, <2>2, Completing, Settling
  <2> QED BY <1>4, <2>1, <2>2
<1>6. ChecklistOK' BY <1>1, <1>5 DEF ChecklistOK, Working, HandingOver
<1> QED BY <1>1, <1>2, <1>6 DEF StartupOK, EarnedOK, TerminalOK

\* The preparation is over: its steps are settled.
LEMMA PreparationEndsStep ==
  ASSUME StartupOK, PreparationEnds PROVE StartupOK'
<1>1. step = "prepare" /\ UNCHANGED <<closed, routed, terminal, earned>>
  BY DEF PreparationEnds
<1>2. Unfailed(checklist) /\ ("attachment" \in DOMAIN checklist => checklist["attachment"] = "pending")
  BY <1>1 DEF StartupOK, ChecklistOK, Working
<1>3. ~ scribbled'
  <2>1. Draw \/ scribbled' = scribbled BY DEF PreparationEnds
  <2> QED BY <1>1, <2>1, Drawing DEF StartupOK, TerminalOK, Working
<1>4. CASE step' = "failed"
  BY <1>1, <1>3, <1>4
  DEF StartupOK, ChecklistOK, EarnedOK, TerminalOK, Working, HandingOver
<1>5. CASE step' # "failed"
  <2> DEFINE prepared == Complete(checklist, "prepare")
  <2>1. step' = "supervisor" /\ checklist' = BeginStep(prepared, "supervisor")
    BY <1>1, <1>5 DEF PreparationEnds, Failing
  <2>2. Unfailed(prepared) /\ ("attachment" \in DOMAIN prepared => prepared["attachment"] = "pending")
    BY <1>2, Completing, Settling
  <2> HIDE DEF prepared
  <2>3. Unfailed(checklist')
        /\ ("attachment" \in DOMAIN checklist' => checklist'["attachment"] = "pending")
    BY <2>1, <2>2, Beginning
  <2>4. ChecklistOK' BY <2>1, <2>3 DEF ChecklistOK, Working, HandingOver
  <2> QED
    BY <1>1, <1>3, <2>1, <2>4 DEF StartupOK, EarnedOK, TerminalOK, Working, HandingOver
<1> QED BY <1>4, <1>5

\* The supervisor is launched and attached to.
LEMMA LaunchAndAttachStep ==
  ASSUME StartupOK, LaunchAndAttach PROVE StartupOK'
<1>1. step = "supervisor" /\ UNCHANGED <<closed, routed, terminal, earned>>
  BY DEF LaunchAndAttach
<1>2. Unfailed(checklist) /\ ("attachment" \in DOMAIN checklist => checklist["attachment"] = "pending")
  BY <1>1 DEF StartupOK, ChecklistOK, Working
<1>3. ~ scribbled'
  <2>1. Draw \/ scribbled' = scribbled BY DEF LaunchAndAttach
  <2> QED BY <1>1, <2>1, Drawing DEF StartupOK, TerminalOK, Working
<1>4. CASE step' = "failed"
  BY <1>1, <1>3, <1>4
  DEF StartupOK, ChecklistOK, EarnedOK, TerminalOK, Working, HandingOver
<1>5. CASE step' # "failed"
  <2>1. step' = "look" /\ checklist' = Complete(checklist, "supervisor")
    BY <1>5 DEF LaunchAndAttach
  <2>2. Unfailed(checklist')
        /\ ("attachment" \in DOMAIN checklist' => checklist'["attachment"] = "pending")
    BY <1>2, <2>1, Completing, Settling
  <2>3. ChecklistOK' BY <2>1, <2>2 DEF ChecklistOK, Working, HandingOver
  <2> QED
    BY <1>1, <1>3, <2>1, <2>3 DEF StartupOK, EarnedOK, TerminalOK, Working, HandingOver
<1> QED BY <1>4, <1>5

\* What a snapshot advances: nothing is active any more once the launch is up.
LEMMA Observing ==
  ASSUME NEW list, Unfailed(list), NEW seen, NEW local,
         "attachment" \in DOMAIN list => list["attachment"] = "pending"
  PROVE  LET next == Observed(list, seen, local) IN
           /\ Unfailed(next) /\ DOMAIN next = DOMAIN list
           /\ "attachment" \in DOMAIN next => next["attachment"] = "pending"
           /\ LaunchIsUp(seen, local) => \A id \in DOMAIN next : next[id] # "active"
<1> DEFINE begun == IF /\ Settled(list, "supervisor") /\ ~Settled(list, "runtimes")
                       /\ ~Running(list, "runtimes")
                    THEN BeginStep(list, "runtimes") ELSE list
           done == Complete(begun, "runtimes")
<1>1. Observed(list, seen, local) = IF LaunchIsUp(seen, local) THEN done ELSE begun
  BY DEF Observed
<1>2. /\ Unfailed(begun) /\ DOMAIN begun = DOMAIN list
      /\ "attachment" \in DOMAIN list => begun["attachment"] = "pending"
  <2>1. CASE begun = list BY <2>1
  <2>2. CASE begun = BeginStep(list, "runtimes") BY <2>2, Beginning
  <2> QED BY <2>1, <2>2
<1> HIDE DEF begun
<1>3. /\ Unfailed(done) /\ DOMAIN done = DOMAIN list
      /\ "attachment" \in DOMAIN list => done["attachment"] = "pending"
  BY <1>2, Completing, Settling
<1>4. ASSUME NEW id \in DOMAIN done PROVE done[id] # "active"
  <2>1. id \in StepNames /\ id \in DOMAIN begun
    BY <1>2, <1>3, StepOrderNames DEF Unfailed
  <2>2. CASE id = "runtimes" BY <1>2, <2>1, <2>2, Completing
  <2>3. CASE id = "attachment" BY <1>2, <1>3, <2>1, <2>3
  <2>4. CASE id \in {"project", "prepare", "supervisor"}
    <3>1. SettleBefore(begun, "runtimes")[id] # "active" BY <2>1, <2>4, SettlingForRuntimes
    <3> QED BY <1>2, <2>1, <2>4, <3>1, Completing
  <2> QED BY <2>1, <2>2, <2>3, <2>4 DEF StepNames
<1> HIDE DEF done
<1> QED BY <1>1, <1>2, <1>3, <1>4

\* A snapshot is looked at: what is up is settled, and earns the hand-over.
LEMMA LookStep ==
  ASSUME StartupOK, Look PROVE StartupOK'
<1>1. step = "look" /\ UNCHANGED <<closed, routed, terminal>> BY DEF Look
<1>2. Unfailed(checklist) /\ ("attachment" \in DOMAIN checklist => checklist["attachment"] = "pending")
  BY <1>1 DEF StartupOK, ChecklistOK, Working
<1>3. ~ scribbled'
  <2>1. Draw \/ scribbled' = scribbled BY DEF Look
  <2> QED BY <1>1, <2>1, Drawing DEF StartupOK, TerminalOK, Working
<1>4. TerminalOK' /\ step' \in {"wait", "ready", "admit"}
  BY <1>1 DEF Look, StartupOK, TerminalOK, Working
<1>5. EarnedOK' BY DEF Look, EarnedOK, Working, HandingOver
<1>6. ChecklistOK'
  <2>1. CASE snapshot = NoSnapshot
    <3>1. step' = "wait" /\ checklist' = checklist BY <2>1 DEF Look
    <3> QED BY <1>2, <3>1 DEF ChecklistOK, Working, HandingOver
  <2>2. CASE snapshot # NoSnapshot
    <3>1. checklist' = Observed(checklist, snapshot, facts) BY <2>2 DEF Look
    <3>2. step' # "wait" => LaunchIsUp(snapshot, facts) BY <2>2 DEF Look
    <3>3. /\ Unfailed(checklist')
          /\ "attachment" \in DOMAIN checklist' => checklist'["attachment"] = "pending"
          /\ step' # "wait" => \A id \in DOMAIN checklist' : checklist'[id] # "active"
      BY <1>2, <3>1, <3>2, Observing
    <3> QED BY <1>4, <3>3 DEF ChecklistOK, Working, HandingOver
  <2> QED BY <2>1, <2>2
<1> QED BY <1>3, <1>4, <1>5, <1>6 DEF StartupOK, Working, HandingOver

\* A failure leaves nothing to hand over.
LEMMA FailingStep ==
  ASSUME StartupOK, step \in Working, step' \in {"rollback", "failed"},
         UNCHANGED <<closed, routed, terminal>>, ~ scribbled'
  PROVE  StartupOK'
BY DEF StartupOK, ChecklistOK, EarnedOK, TerminalOK, Working, HandingOver

\* Another snapshot is looked at, or the wait fails.
LEMMA WaitStep ==
  ASSUME StartupOK, Wait PROVE StartupOK'
<1>1. step = "wait" /\ UNCHANGED <<checklist, closed, routed, terminal, scribbled, earned>>
  BY DEF Wait, presenter
<1>2. step' = "look" \/ step' = "rollback" BY <1>1 DEF Wait, Failing
<1>3. CASE step' = "look"
  BY <1>1, <1>3 DEF StartupOK, ChecklistOK, EarnedOK, TerminalOK, Working, HandingOver
<1>4. CASE step' = "rollback"
  BY <1>1, <1>4, FailingStep DEF StartupOK, Working
<1> QED BY <1>2, <1>3, <1>4

\* Without its drivers the robot is admitted, and the attachment begins.
LEMMA AdmitStep ==
  ASSUME StartupOK, Admit PROVE StartupOK'
<1>1. step = "admit" /\ UNCHANGED <<closed, routed, terminal, earned>> BY DEF Admit
<1>2. Unfailed(checklist) /\ \A id \in DOMAIN checklist : checklist[id] # "active"
  BY <1>1 DEF StartupOK, ChecklistOK, Working
<1>3. ~ scribbled'
  <2>1. Draw \/ scribbled' = scribbled BY DEF Admit
  <2> QED BY <1>1, <2>1, Drawing DEF StartupOK, TerminalOK, Working
<1>4. CASE step' = "member"
  <2>1. checklist' = BeginStep(checklist, "attachment") BY <1>1, <1>4 DEF Admit, Failing
  <2>2. Unfailed(checklist')
        /\ \A id \in DOMAIN checklist' : checklist'[id] = "active" => id = "attachment"
    BY <1>2, <2>1, Beginning
  <2>3. ChecklistOK' BY <1>4, <2>2 DEF ChecklistOK, Working, HandingOver
  <2> QED
    BY <1>1, <1>3, <1>4, <2>3 DEF StartupOK, EarnedOK, TerminalOK, Working, HandingOver
<1>5. CASE step' # "member"
  <2>1. step' = "rollback" BY <1>1, <1>5 DEF Admit, Failing
  <2> QED BY <1>1, <1>3, <2>1, FailingStep DEF Working
<1> QED BY <1>4, <1>5

\* The member is active, or the wait fails.
LEMMA AwaitMemberStep ==
  ASSUME StartupOK, AwaitMember PROVE StartupOK'
<1>1. step = "member" /\ UNCHANGED <<closed, routed, terminal, earned>> BY DEF AwaitMember
<1>2. Unfailed(checklist)
      /\ \A id \in DOMAIN checklist : checklist[id] = "active" => id = "attachment"
  BY <1>1 DEF StartupOK, ChecklistOK, Working
<1>3. ~ scribbled'
  <2>1. Draw \/ scribbled' = scribbled BY DEF AwaitMember
  <2> QED BY <1>1, <2>1, Drawing DEF StartupOK, TerminalOK, Working
<1>4. CASE step' = "ready"
  <2>1. checklist' = Complete(checklist, "attachment") BY <1>1, <1>4 DEF AwaitMember, Failing
  <2>2. Unfailed(checklist') BY <1>2, <2>1, Completing
  <2>3. ASSUME NEW id \in DOMAIN checklist' PROVE checklist'[id] # "active"
    <3>1. id \in DOMAIN checklist BY <1>2, <2>1, Completing
    <3>2. CASE id = "attachment" BY <1>2, <2>1, <3>1, <3>2, Completing
    <3>3. CASE id # "attachment"
      <4>1. checklist'[id] = SettleBefore(checklist, "attachment")[id]
        BY <1>2, <2>1, <3>1, <3>3, Completing
      <4>2. SettleBefore(checklist, "attachment")[id] # "active"
        BY <1>2, <3>1, <3>3, Settling
      <4> QED BY <4>1, <4>2
    <3> QED BY <3>2, <3>3
  <2>4. ChecklistOK' BY <1>4, <2>2, <2>3 DEF ChecklistOK, Working, HandingOver
  <2> QED
    BY <1>1, <1>3, <1>4, <2>4 DEF StartupOK, EarnedOK, TerminalOK, Working, HandingOver
<1>5. CASE step' # "ready"
  <2>1. step' = "rollback" BY <1>1, <1>5 DEF AwaitMember, Failing
  <2> QED BY <1>1, <1>3, <2>1, FailingStep DEF Working
<1> QED BY <1>4, <1>5

\* A launch that failed is rolled back.
LEMMA RollBackLaunchStep ==
  ASSUME StartupOK, RollBackLaunch PROVE StartupOK'
BY DEF RollBackLaunch, presenter, StartupOK, ChecklistOK, EarnedOK, TerminalOK, Working,
       HandingOver

\* The terminal is handed over: quiet first, then the routes, then the screen.
LEMMA HandingOverSteps ==
  ASSUME StartupOK, Quiesce \/ HandOver \/ RouteToDashboard \/ TakeTerminal PROVE StartupOK'
<1>1. CASE Quiesce
  BY <1>1 DEF Quiesce, Quiesced, StartupOK, ChecklistOK, EarnedOK, TerminalOK, Working,
              HandingOver
<1>2. CASE HandOver
  BY <1>2 DEF HandOver, StartupOK, ChecklistOK, EarnedOK, TerminalOK, Working, HandingOver
<1>3. CASE RouteToDashboard
  BY <1>3 DEF RouteToDashboard, StartupOK, ChecklistOK, EarnedOK, TerminalOK, Working,
              HandingOver
<1>4. CASE TakeTerminal
  BY <1>4 DEF TakeTerminal, presenter, StartupOK, ChecklistOK, EarnedOK, TerminalOK, Working,
              HandingOver
<1> QED BY <1>1, <1>2, <1>3, <1>4

\* A startup that failed reports and is over.
LEMMA FailedStep ==
  ASSUME StartupOK, Failed PROVE StartupOK'
<1>1. step = "failed" /\ Draw BY DEF Failed
<1>2. ~ scribbled' BY <1>1, Drawing DEF StartupOK, TerminalOK
<1>3. step' = "over" /\ terminal' = "nobody" BY DEF Failed
<1> QED
  BY <1>2, <1>3 DEF StartupOK, ChecklistOK, EarnedOK, TerminalOK, Working, HandingOver

\* Neither the presenter nor a line that is traced writes on the dashboard.
LEMMA PresentStep ==
  ASSUME StartupOK, Present PROVE StartupOK'
<1>1. UNCHANGED <<step, checklist, closed, routed, terminal, earned>> BY DEF Present
<1>2. Draw \/ scribbled' = scribbled BY DEF Present, Note
<1>3. terminal # "dashboard" \/ closed BY DEF StartupOK, TerminalOK
<1>4. ~ scribbled' /\ ~ scribbled BY <1>2, <1>3, Drawing DEF StartupOK
<1> QED BY <1>1, <1>4 DEF StartupOK, ChecklistOK, EarnedOK, TerminalOK

\* A line that is traced goes to where the diagnostics are routed.
LEMMA TraceStep ==
  ASSUME StartupOK, NEW level, Trace(level) PROVE StartupOK'
<1>1. UNCHANGED <<step, checklist, closed, routed, terminal, earned>> BY DEF Trace
<1>2. \/ scribbled' = scribbled
      \/ routed = "nobody" /\ scribbled' = (scribbled \/ terminal = "dashboard")
  BY DEF Trace, Route
<1>3. ~ scribbled BY DEF StartupOK
<1>4. routed = "nobody" => terminal # "dashboard" BY DEF StartupOK, TerminalOK
<1>5. ~ scribbled'
  <2>1. CASE scribbled' = scribbled BY <1>3, <2>1
  <2>2. CASE routed = "nobody" /\ scribbled' = (scribbled \/ terminal = "dashboard")
    BY <1>3, <1>4, <2>2
  <2> QED BY <1>2, <2>1, <2>2
<1> QED BY <1>1, <1>5 DEF StartupOK, ChecklistOK, EarnedOK, TerminalOK

\* What runs beside the startup touches none of this.
LEMMA OtherBesideSteps ==
  ASSUME StartupOK, PresenterEnds \/ Interrupted \/ WatchChildren \/ Publishes
  PROVE  StartupOK'
<1>1. UNCHANGED gate
  BY DEF PresenterEnds, Interrupted, WatchChildren, Publishes, gate, presenter
<1> QED BY <1>1, StartupUnchanged

\* Every step of the startup keeps StartupOK.
LEMMA StartupStep ==
  ASSUME StartupOK, [StartupNext]_startupVars PROVE StartupOK'
<1>1. CASE CommandSteps
  BY <1>1, ReportPhaseStep, PreparationEndsStep, LaunchAndAttachStep, LookStep, WaitStep,
     AdmitStep, AwaitMemberStep, RollBackLaunchStep, HandingOverSteps, FailedStep
  DEF CommandSteps
<1>2. CASE BesideSteps BY <1>2, PresentStep, TraceStep, OtherBesideSteps DEF BesideSteps
<1>3. CASE UNCHANGED startupVars
  BY <1>3, StartupUnchanged DEF startupVars, presenter, gate
<1> QED BY <1>1, <1>2, <1>3 DEF StartupNext

\* StartupOK is what a clean hand-over needs.
LEMMA StartupIsClean ==
  ASSUME StartupOK PROVE HandOverIsClean
<1>1. ASSUME step \in HandingOver
      PROVE  earned /\ \A id \in DOMAIN checklist : checklist[id] \in {"pending", "done"}
  <2>1. earned BY <1>1 DEF StartupOK, EarnedOK
  <2>2. Unfailed(checklist) /\ \A id \in DOMAIN checklist : checklist[id] # "active"
    BY <1>1 DEF StartupOK, ChecklistOK
  <2>3. \A id \in DOMAIN checklist : checklist[id] \in {"pending", "active", "done"}
    BY <2>2 DEF Unfailed
  <2> QED BY <2>1, <2>2, <2>3
<1> QED BY <1>1 DEF StartupOK, HandOverIsClean, HandingOver

\* A startup hands over a terminal that nobody else writes on, once a snapshot
\* showed the launch up by the rule of launch_is_up (Ready or Degraded, or all
\* that this client launched present), and with no step of the checklist running
\* or failed (startup.rs await_graph, ready, failed; welcome.rs close).
THEOREM StartupHandsOverCleanly == StartupSpec => []HandOverIsClean
<1>1. StartupInit => StartupOK BY InitialChecklist
<1>2. StartupOK /\ [StartupNext]_startupVars => StartupOK' BY StartupStep
<1>3. StartupOK => HandOverIsClean BY StartupIsClean
<1> QED BY <1>1, <1>2, <1>3, PTL DEF StartupSpec

\* What drives an execution after the startup, and a command that attached,
\* leave the terminal as clean as the startup left it.
THEOREM RunHandsOverCleanly == RunSpec => []HandOverIsClean
<1>1. ASSUME RunInit PROVE StartupOK
  <2>1. CASE StartupInit BY <2>1, InitialChecklist
  <2>2. CASE AttachInit
    BY <2>2 DEF AttachInit, StartupOK, ChecklistOK, EarnedOK, TerminalOK, Working, HandingOver
  <2> QED BY <1>1, <2>1, <2>2 DEF RunInit
<1>2. ASSUME StartupOK, [RunNext]_runVars PROVE StartupOK'
  <2>1. CASE StartupNext BY <1>2, <2>1, StartupStep
  <2>2. CASE EnterDashboard
    BY <1>2, <2>2
    DEF EnterDashboard, StartupOK, ChecklistOK, EarnedOK, TerminalOK, Working, HandingOver
  <2>3. CASE UNCHANGED startupVars BY <1>2, <2>3, StartupStep
  <2> QED BY <1>2, <2>1, <2>2, <2>3 DEF RunNext, ReturnedEarly, runVars
<1>3. StartupOK => HandOverIsClean BY StartupIsClean
<1> QED BY <1>1, <1>2, <1>3, PTL DEF RunSpec

(***************************************************************************)
(* Queues: that none, exactly one, or the last of some kinds of message is *)
(* in one, as it is appended to, taken from and joined.                    *)
(***************************************************************************)
NoKind(s, kinds) == \A k \in 1 .. Len(s) : s[k].kind \notin kinds

OneOf(s, e, kinds) ==
  \E k \in 1 .. Len(s) : /\ s[k] = e
                         /\ \A j \in 1 .. Len(s) : j # k => s[j].kind \notin kinds

LastOf(s, e, kinds) ==
  \E k \in 1 .. Len(s) : /\ s[k] = e
                         /\ \A j \in k + 1 .. Len(s) : s[j].kind \notin kinds

\* What a queue becomes when an element is appended.
LEMMA Appended ==
  ASSUME NEW S, NEW s \in Seq(S), NEW e
  PROVE  /\ Len(Append(s, e)) = Len(s) + 1 /\ Len(s) \in Nat
         /\ Append(s, e)[Len(s) + 1] = e
         /\ \A k \in 1 .. Len(s) : Append(s, e)[k] = s[k]
OBVIOUS

\* An element is taken from the front.
LEMMA Taken ==
  ASSUME NEW S, NEW s \in Seq(S), s # <<>>
  PROVE  /\ Len(s) \in Nat \ {0} /\ Len(Tail(s)) = Len(s) - 1 /\ Head(s) = s[1]
         /\ \A k \in 1 .. Len(s) - 1 : Tail(s)[k] = s[k + 1]
         /\ Tail(s) \in Seq(S) /\ Head(s) \in S
OBVIOUS

\* Two queues one after the other.
LEMMA Joined ==
  ASSUME NEW S, NEW s \in Seq(S), NEW t \in Seq(S)
  PROVE  /\ Len(s \o t) = Len(s) + Len(t) /\ Len(s) \in Nat /\ Len(t) \in Nat
         /\ \A k \in 1 .. Len(s) : (s \o t)[k] = s[k]
         /\ \A k \in 1 .. Len(t) : (s \o t)[Len(s) + k] = t[k]
         /\ s \o t \in Seq(S)
OBVIOUS

\* Appending keeps what is said of the kinds that are not appended.
LEMMA AppendOther ==
  ASSUME NEW S, NEW s \in Seq(S), NEW e, NEW kinds, e.kind \notin kinds
  PROVE  /\ NoKind(s, kinds) => NoKind(Append(s, e), kinds)
         /\ \A x : OneOf(s, x, kinds) => OneOf(Append(s, e), x, kinds)
         /\ \A x : LastOf(s, x, kinds) => LastOf(Append(s, e), x, kinds)
<1> DEFINE t == Append(s, e)
           n == Len(s)
<1>1. Len(t) = n + 1 /\ n \in Nat /\ t[n + 1] = e /\ \A k \in 1 .. n : t[k] = s[k]
  BY Appended
<1>2. 1 .. n + 1 = 1 .. n \cup {n + 1} BY <1>1
<1> HIDE DEF t
<1>3. NoKind(s, kinds) => NoKind(t, kinds) BY <1>1, <1>2 DEF NoKind
<1>4. ASSUME NEW x, OneOf(s, x, kinds) PROVE OneOf(t, x, kinds)
  <2>1. PICK k \in 1 .. n : s[k] = x /\ \A j \in 1 .. n : j # k => s[j].kind \notin kinds
    BY <1>4 DEF OneOf
  <2>2. k \in 1 .. Len(t) /\ t[k] = x BY <1>1, <2>1
  <2>3. \A j \in 1 .. Len(t) : j # k => t[j].kind \notin kinds BY <1>1, <1>2, <2>1
  <2> QED BY <2>2, <2>3 DEF OneOf
<1>5. ASSUME NEW x, LastOf(s, x, kinds) PROVE LastOf(t, x, kinds)
  <2>1. PICK k \in 1 .. n : s[k] = x /\ \A j \in k + 1 .. n : s[j].kind \notin kinds
    BY <1>5 DEF LastOf
  <2>2. k \in 1 .. Len(t) /\ t[k] = x BY <1>1, <2>1
  <2>3. ASSUME NEW j \in k + 1 .. Len(t) PROVE t[j].kind \notin kinds
    <3>1. CASE j = n + 1 BY <1>1, <3>1
    <3>2. CASE j \in k + 1 .. n
      <4>1. j \in 1 .. n BY <3>2
      <4> QED BY <1>1, <2>1, <3>2, <4>1
    <3> QED BY <1>1, <3>1, <3>2
  <2> QED BY <2>2, <2>3 DEF LastOf
<1> QED BY <1>3, <1>4, <1>5 DEF t

\* Appending one of a kind that was not there.
LEMMA AppendFirst ==
  ASSUME NEW S, NEW s \in Seq(S), NEW e, NEW kinds
  PROVE  /\ NoKind(s, kinds) => OneOf(Append(s, e), e, kinds)
         /\ LastOf(Append(s, e), e, kinds)
<1> DEFINE t == Append(s, e)
           n == Len(s)
<1>1. Len(t) = n + 1 /\ n \in Nat /\ t[n + 1] = e /\ \A k \in 1 .. n : t[k] = s[k]
  BY Appended
<1>2. n + 1 \in 1 .. n + 1 /\ \A j \in 1 .. n + 1 : j # n + 1 => j \in 1 .. n BY <1>1
<1> HIDE DEF t
<1>3. ASSUME NoKind(s, kinds) PROVE OneOf(t, e, kinds)
  BY <1>1, <1>2, <1>3 DEF NoKind, OneOf
<1>4. LastOf(t, e, kinds)
  <2>1. \A j \in (n + 1) + 1 .. n + 1 : FALSE BY <1>1
  <2> QED BY <1>1, <1>2, <2>1 DEF LastOf
<1> QED BY <1>3, <1>4 DEF t

\* Taking from the front.
LEMMA TakenKinds ==
  ASSUME NEW S, NEW s \in Seq(S), s # <<>>, NEW kinds
  PROVE  /\ NoKind(s, kinds) => NoKind(Tail(s), kinds)
         /\ \A x : OneOf(s, x, kinds) =>
              IF Head(s).kind \in kinds THEN Head(s) = x /\ NoKind(Tail(s), kinds)
              ELSE x.kind \in kinds => OneOf(Tail(s), x, kinds)
         /\ \A x : LastOf(s, x, kinds) =>
              LastOf(Tail(s), x, kinds) \/ (Head(s) = x /\ NoKind(Tail(s), kinds))
<1> DEFINE t == Tail(s)
           n == Len(s)
<1>1. /\ n \in Nat \ {0} /\ Len(t) = n - 1 /\ Head(s) = s[1]
      /\ \A k \in 1 .. n - 1 : t[k] = s[k + 1]
  BY Taken
<1> HIDE DEF t
<1>0. \A k \in 1 .. n - 1 : k + 1 \in 1 .. n /\ k + 1 # 1 BY <1>1
<1>2. NoKind(s, kinds) => NoKind(t, kinds) BY <1>0, <1>1 DEF NoKind
<1>3. ASSUME NEW x, OneOf(s, x, kinds)
      PROVE  IF Head(s).kind \in kinds THEN Head(s) = x /\ NoKind(t, kinds)
             ELSE x.kind \in kinds => OneOf(t, x, kinds)
  <2>1. PICK k \in 1 .. n : s[k] = x /\ \A j \in 1 .. n : j # k => s[j].kind \notin kinds
    BY <1>3 DEF OneOf
  <2>2. 1 \in 1 .. n BY <1>1
  <2>3. CASE Head(s).kind \in kinds
    <3>1. k = 1 BY <1>1, <2>1, <2>2, <2>3
    <3>2. \A j \in 1 .. n - 1 : t[j].kind \notin kinds BY <1>0, <1>1, <2>1, <3>1
    <3> QED BY <1>1, <2>1, <2>3, <3>1, <3>2 DEF NoKind
  <2>4. CASE Head(s).kind \notin kinds /\ x.kind \in kinds
    <3>1. k # 1 BY <1>1, <2>1, <2>4
    <3>2. k - 1 \in 1 .. n - 1 /\ (k - 1) + 1 = k BY <1>1, <3>1
    <3>3. t[k - 1] = x BY <1>1, <2>1, <3>2
    <3>4. ASSUME NEW j \in 1 .. n - 1, j # k - 1 PROVE t[j].kind \notin kinds
      <4>1. j + 1 \in 1 .. n /\ j + 1 # k BY <1>1, <3>4
      <4> QED BY <1>1, <2>1, <4>1
    <3>5. OneOf(t, x, kinds) BY <1>1, <3>2, <3>3, <3>4 DEF OneOf
    <3> QED BY <2>4, <3>5
  <2> QED BY <2>3, <2>4
<1>4. ASSUME NEW x, LastOf(s, x, kinds)
      PROVE  LastOf(t, x, kinds) \/ (Head(s) = x /\ NoKind(t, kinds))
  <2>1. PICK k \in 1 .. n : s[k] = x /\ \A j \in k + 1 .. n : s[j].kind \notin kinds
    BY <1>4 DEF LastOf
  <2>2. CASE k = 1
    <3>1. ASSUME NEW j \in 1 .. n - 1 PROVE t[j].kind \notin kinds
      <4>1. j + 1 \in k + 1 .. n BY <1>1, <2>2
      <4> QED BY <1>1, <2>1, <4>1
    <3> QED BY <1>1, <2>1, <2>2, <3>1 DEF NoKind
  <2>3. CASE k # 1
    <3>2. k - 1 \in 1 .. n - 1 /\ (k - 1) + 1 = k BY <1>1, <2>3
    <3>3. t[k - 1] = x BY <1>1, <2>1, <3>2
    <3>4. ASSUME NEW j \in (k - 1) + 1 .. n - 1 PROVE t[j].kind \notin kinds
      <4>1. j + 1 \in k + 1 .. n /\ j \in 1 .. n - 1 BY <1>1, <3>2
      <4> QED BY <1>1, <2>1, <4>1
    <3>5. LastOf(t, x, kinds) BY <1>1, <3>2, <3>3, <3>4 DEF LastOf
    <3> QED BY <3>5
  <2> QED BY <2>2, <2>3
<1> QED BY <1>2, <1>3, <1>4 DEF t

\* Joining a queue and another without the kinds.
LEMMA JoinedKinds ==
  ASSUME NEW S, NEW s \in Seq(S), NEW t \in Seq(S), NEW kinds
  PROVE  /\ NoKind(s, kinds) /\ NoKind(t, kinds) => NoKind(s \o t, kinds)
         /\ \A x : OneOf(s, x, kinds) /\ NoKind(t, kinds) => OneOf(s \o t, x, kinds)
         /\ \A x : NoKind(s, kinds) /\ OneOf(t, x, kinds) => OneOf(s \o t, x, kinds)
         /\ ~ NoKind(s, kinds) \/ ~ NoKind(t, kinds) => ~ NoKind(s \o t, kinds)
<1> DEFINE u == s \o t
           n == Len(s)
           m == Len(t)
<1>1. /\ Len(u) = n + m /\ n \in Nat /\ m \in Nat
      /\ \A k \in 1 .. n : u[k] = s[k]
      /\ \A k \in 1 .. m : u[n + k] = t[k]
  BY Joined
<1> HIDE DEF u
<1>2. \A k \in 1 .. n + m : k \notin 1 .. n => k - n \in 1 .. m /\ n + (k - n) = k BY <1>1
<1>3. ASSUME NEW k \in 1 .. n + m PROVE (k \in 1 .. n /\ u[k] = s[k]) \/ (k - n \in 1 .. m /\ u[k] = t[k - n])
  <2>1. CASE k \in 1 .. n BY <1>1, <2>1
  <2>2. CASE k \notin 1 .. n
    <3>1. k - n \in 1 .. m /\ n + (k - n) = k BY <1>2, <2>2
    <3>2. u[n + (k - n)] = t[k - n] BY <1>1, <3>1
    <3> QED BY <3>1, <3>2
  <2> QED BY <2>1, <2>2
<1>4. \A k \in 1 .. n : k \in 1 .. n + m BY <1>1
<1>5. \A k \in 1 .. m : n + k \in 1 .. n + m BY <1>1
<1>6. NoKind(s, kinds) /\ NoKind(t, kinds) => NoKind(u, kinds) BY <1>1, <1>3 DEF NoKind
<1>7. ASSUME NEW x, OneOf(s, x, kinds), NoKind(t, kinds) PROVE OneOf(u, x, kinds)
  <2>1. PICK k \in 1 .. n : s[k] = x /\ \A j \in 1 .. n : j # k => s[j].kind \notin kinds
    BY <1>7 DEF OneOf
  <2>2. k \in 1 .. n + m /\ u[k] = x BY <1>1, <1>4, <2>1
  <2>3. \A j \in 1 .. n + m : j # k => u[j].kind \notin kinds
    BY <1>3, <1>7, <2>1 DEF NoKind
  <2> QED BY <1>1, <2>2, <2>3 DEF OneOf
<1>8. ASSUME NEW x, NoKind(s, kinds), OneOf(t, x, kinds) PROVE OneOf(u, x, kinds)
  <2>1. PICK k \in 1 .. m : t[k] = x /\ \A j \in 1 .. m : j # k => t[j].kind \notin kinds
    BY <1>8 DEF OneOf
  <2>2. n + k \in 1 .. n + m /\ u[n + k] = x BY <1>1, <1>5, <2>1
  <2>3. ASSUME NEW j \in 1 .. n + m, j # n + k PROVE u[j].kind \notin kinds
    <3>1. CASE j \in 1 .. n /\ u[j] = s[j] BY <1>8, <3>1 DEF NoKind
    <3>2. CASE j - n \in 1 .. m /\ u[j] = t[j - n]
      <4>1. n + (j - n) = j
        <5>1. n \in Nat /\ j \in Int BY <1>1
        <5> QED BY <5>1
      <4>2. j - n # k BY <2>3, <4>1
      <4> QED BY <2>1, <3>2, <4>2
    <3> QED BY <1>3, <3>1, <3>2
  <2> QED BY <1>1, <2>2, <2>3 DEF OneOf
<1>9. ~ NoKind(s, kinds) => ~ NoKind(u, kinds) BY <1>1, <1>4 DEF NoKind
<1>10. ~ NoKind(t, kinds) => ~ NoKind(u, kinds) BY <1>1, <1>5 DEF NoKind
<1> QED BY <1>6, <1>7, <1>8, <1>9, <1>10 DEF u

(***************************************************************************)
(* The reducer.  Everything it does but the arrival of an epoch and of an  *)
(* answer concerns the window of runtime rows, or leaving and stopping.    *)
(***************************************************************************)
Effects == [kind : {"stop"}] \cup [kind : {"read"}, query : Queries]

Models ==
  [epoch : BOOLEAN, stoppable : BOOLEAN, stopRequested : BOOLEAN, exit : Exits \cup {None},
   connection : {None, "connected", "lost"}, processes : SUBSET Participants,
   modal : Modals, page : {"runtimes", "others"}, focus : {"tabs", "panels", "content"},
   panel : {None, "processes", "performance"}, candidate : Participants \cup {None},
   detail : Queries, owed : BOOLEAN, asked : Queries \cup {None}, rows : Queries,
   effects : Seq(Effects)]

Read(query) == [kind |-> "read", query |-> query]
ConfirmedStop        == [kind |-> "stop"]

\* The model is the same but for what is shown and what is marked.
Aside(m, x) ==
  /\ x \in Models
  /\ x.epoch = m.epoch /\ x.stoppable = m.stoppable
  /\ x.stopRequested = m.stopRequested /\ x.exit = m.exit
  /\ x.asked = m.asked /\ x.rows = m.rows /\ x.effects = m.effects

\* A step of the window of rows: nothing is asked and a read is owed, or the
\* page is left, or the detail is the same; or its detail is asked.
ReadSide(m, n) ==
  /\ n \in Models
  /\ n.epoch = m.epoch /\ n.stoppable = m.stoppable
  /\ n.stopRequested = m.stopRequested /\ n.exit = m.exit
  /\ \/ /\ n.asked = m.asked /\ n.rows = m.rows /\ n.effects = m.effects
        /\ \/ n.owed \/ n.page # "runtimes"
           \/ n.owed = m.owed /\ n.detail = m.detail /\ n.page = m.page
     \/ /\ m.asked = None /\ n.asked = n.detail
        /\ n.effects = Append(m.effects, Read(n.detail))

\* A step of leaving or stopping.
StopSide(m, n) ==
  /\ n \in Models
  /\ n.epoch = m.epoch /\ n.stoppable = m.stoppable /\ n.page = m.page
  /\ n.processes = m.processes
  /\ n.detail = m.detail /\ n.owed = m.owed /\ n.asked = m.asked /\ n.rows = m.rows
  /\ n.exit = m.exit \/ n.exit = "detached"
  /\ \/ n.effects = m.effects /\ n.stopRequested = m.stopRequested
     \/ n.effects = Append(m.effects, ConfirmedStop) /\ m.stoppable /\ n.stopRequested

\* A refresh asks when nothing is asked, and owes the read otherwise.
LEMMA RefreshReads ==
  ASSUME NEW m \in Models, NEW x, Aside(m, x)
  PROVE  ReadSide(m, RefreshRuntimes(x)) /\ RefreshRuntimes(x).processes = x.processes
<1> DEFINE y == [x EXCEPT !.owed = TRUE]
           z == [y EXCEPT !.owed = FALSE, !.asked = y.detail]
           w == [z EXCEPT !.effects = Append(@, Read(y.detail))]
<1>1. x \in Models BY DEF Aside
<1>2. y \in Models BY <1>1 DEF Models
<1>3. /\ y.epoch = x.epoch /\ y.stoppable = x.stoppable /\ y.stopRequested = x.stopRequested
      /\ y.exit = x.exit /\ y.asked = x.asked /\ y.rows = x.rows /\ y.effects = x.effects
      /\ y.processes = x.processes /\ y.owed
  BY <1>1 DEF Models
<1>4. RefreshRuntimes(x) = IF y.epoch /\ y.asked = None /\ y.owed THEN w ELSE y
  BY DEF RefreshRuntimes, IssueRuntimesIfIdle, Emit, Read
<1> HIDE DEF y
<1>5. y.detail \in Queries BY <1>2 DEF Models
<1>6. z \in Models BY <1>2, <1>5 DEF Models
<1>7. /\ z.epoch = y.epoch /\ z.stoppable = y.stoppable /\ z.stopRequested = y.stopRequested
      /\ z.exit = y.exit /\ z.asked = y.detail /\ z.detail = y.detail /\ z.effects = y.effects
      /\ z.processes = y.processes
  BY <1>2 DEF Models
<1> HIDE DEF z
<1>8. Append(z.effects, Read(y.detail)) \in Seq(Effects)
  <2>1. Read(y.detail) \in Effects BY <1>5 DEF Effects, Read
  <2>2. z.effects \in Seq(Effects) BY <1>6 DEF Models
  <2> QED BY <2>1, <2>2
<1>9. w \in Models BY <1>6, <1>8 DEF Models
<1>10. /\ w.epoch = z.epoch /\ w.stoppable = z.stoppable /\ w.stopRequested = z.stopRequested
       /\ w.exit = z.exit /\ w.asked = z.asked /\ w.detail = z.detail
       /\ w.processes = z.processes
       /\ w.effects = Append(z.effects, Read(y.detail))
  BY <1>6 DEF Models
<1> HIDE DEF w
<1>11. CASE y.epoch /\ y.asked = None /\ y.owed
  <2>1. RefreshRuntimes(x) = w BY <1>4, <1>11
  <2>2. /\ w.epoch = m.epoch /\ w.stoppable = m.stoppable
        /\ w.stopRequested = m.stopRequested /\ w.exit = m.exit
        /\ m.asked = None /\ w.asked = w.detail
        /\ w.effects = Append(m.effects, Read(w.detail)) /\ w.processes = x.processes
    BY <1>3, <1>7, <1>10, <1>11 DEF Aside
  <2> QED BY <1>9, <2>1, <2>2 DEF ReadSide
<1>12. CASE ~ (y.epoch /\ y.asked = None /\ y.owed)
  BY <1>2, <1>3, <1>4, <1>12 DEF ReadSide, Aside
<1> QED BY <1>11, <1>12

\* An answer is shown, and what is owed is asked.
LEMMA AcceptReads ==
  ASSUME NEW m \in Models, NEW query \in Queries
  PROVE  LET n == AcceptRuntimes(m, query)
         IN  /\ n \in Models
             /\ n.epoch = m.epoch /\ n.stoppable = m.stoppable /\ n.page = m.page
             /\ n.stopRequested = m.stopRequested /\ n.exit = m.exit
             /\ n.processes = m.processes /\ n.detail = m.detail
             /\ m.asked # None =>
                  /\ n.rows = query
                  /\ \/ n.asked = None /\ n.owed = m.owed /\ n.effects = m.effects
                     \/ /\ n.asked = n.detail
                        /\ n.effects = Append(m.effects, Read(n.detail))
<1> DEFINE n == AcceptRuntimes(m, query)
           y == [m EXCEPT !.rows = query, !.asked = None]
           z == [y EXCEPT !.owed = FALSE, !.asked = y.detail]
           w == [z EXCEPT !.effects = Append(@, Read(y.detail))]
<1>1. CASE m.asked = None BY <1>1 DEF AcceptRuntimes
<1>2. CASE m.asked # None
  <2>2. y \in Models BY DEF Models
  <2>3. /\ y.epoch = m.epoch /\ y.stoppable = m.stoppable /\ y.stopRequested = m.stopRequested
        /\ y.exit = m.exit /\ y.asked = None /\ y.rows = query /\ y.effects = m.effects
        /\ y.processes = m.processes /\ y.owed = m.owed /\ y.detail = m.detail
        /\ y.page = m.page
    BY DEF Models
  <2>4. n = IF y.epoch /\ y.asked = None /\ y.owed THEN w ELSE y
    BY <1>2 DEF AcceptRuntimes, IssueRuntimesIfIdle, Emit, Read
  <2> HIDE DEF y, n
  <2>5. y.detail \in Queries BY <2>2 DEF Models
  <2>6. z \in Models BY <2>2, <2>5 DEF Models
  <2>7. /\ z.epoch = y.epoch /\ z.stoppable = y.stoppable /\ z.stopRequested = y.stopRequested
        /\ z.exit = y.exit /\ z.asked = y.detail /\ z.detail = y.detail
        /\ z.effects = y.effects /\ z.processes = y.processes /\ z.rows = y.rows
        /\ z.page = y.page
    BY <2>2 DEF Models
  <2> HIDE DEF z
  <2>8. Append(z.effects, Read(y.detail)) \in Seq(Effects)
    <3>1. Read(y.detail) \in Effects BY <2>5 DEF Effects, Read
    <3>2. z.effects \in Seq(Effects) BY <2>6 DEF Models
    <3> QED BY <3>1, <3>2
  <2>9. w \in Models BY <2>6, <2>8 DEF Models
  <2>10. /\ w.epoch = z.epoch /\ w.stoppable = z.stoppable /\ w.stopRequested = z.stopRequested
         /\ w.exit = z.exit /\ w.asked = z.asked /\ w.detail = z.detail
         /\ w.processes = z.processes /\ w.rows = z.rows /\ w.page = z.page
         /\ w.effects = Append(z.effects, Read(y.detail))
    BY <2>6 DEF Models
  <2> HIDE DEF w
  <2>11. CASE n = w
    BY <1>2, <2>3, <2>7, <2>9, <2>10, <2>11 DEF n
  <2>12. CASE n = y
    BY <1>2, <2>2, <2>3, <2>12 DEF n
  <2> QED BY <2>4, <2>11, <2>12
<1> QED BY <1>1, <1>2

\* The steps of leaving and stopping that ask for nothing.
LEMMA ModalSteps ==
  ASSUME NEW m \in Models
  PROVE  /\ StopSide(m, m) /\ StopSide(m, CloseModal(m)) /\ StopSide(m, Detaching(m))
         /\ StopSide(m, Detaching(CloseModal(m)))
         /\ Detaching(m).exit = "detached" /\ CloseModal(m).exit = m.exit
         /\ CloseModal(m).stopRequested = m.stopRequested
         /\ CloseModal(m).effects = m.effects
         /\ \A id \in Modals : StopSide(m, OpenModal(m, id)) /\ OpenModal(m, id).exit = m.exit
<1>1. CloseModal(m) \in Models BY DEF CloseModal, Models, Modals
<1>2. ASSUME NEW x \in Models PROVE Detaching(x) \in Models BY DEF Detaching, Models, Exits
<1>3. \A id \in Modals : OpenModal(m, id) \in Models BY DEF OpenModal, Models, Modals
<1>4. StopSide(m, CloseModal(m)) /\ CloseModal(m).exit = m.exit
      /\ CloseModal(m).stopRequested = m.stopRequested /\ CloseModal(m).effects = m.effects
  BY <1>1 DEF StopSide, CloseModal, Models
<1>5. ASSUME NEW x \in Models, StopSide(m, x), x.stopRequested = m.stopRequested, x.effects = m.effects
      PROVE  StopSide(m, Detaching(x)) /\ Detaching(x).exit = "detached"
  <2> DEFINE y == Detaching(x)
  <2>1. y \in Models BY <1>2
  <2>2. /\ y.epoch = x.epoch /\ y.stoppable = x.stoppable /\ y.page = x.page
        /\ y.processes = x.processes /\ y.detail = x.detail /\ y.owed = x.owed
        /\ y.asked = x.asked /\ y.rows = x.rows /\ y.exit = "detached"
        /\ y.effects = x.effects /\ y.stopRequested = x.stopRequested
    BY DEF Detaching, Models
  <2> HIDE DEF y
  <2>3. StopSide(m, y) BY <1>5, <2>1, <2>2 DEF StopSide
  <2> QED BY <2>2, <2>3 DEF y
<1>6. \A id \in Modals : StopSide(m, OpenModal(m, id)) /\ OpenModal(m, id).exit = m.exit
  BY <1>3 DEF StopSide, OpenModal, Models
<1>7. StopSide(m, m) BY DEF StopSide
<1> QED BY <1>1, <1>4, <1>5, <1>6, <1>7

\* A confirmation is sent once, and only by the session's owner.
LEMMA RequestStops ==
  ASSUME NEW m \in Models
  PROVE  /\ StopSide(m, RequestStop(m)) /\ StopSide(m, Interrupt(m))
         /\ RequestStop(m).exit = m.exit /\ Interrupt(m).exit = m.exit
<1> DEFINE c == CloseModal(m)
           r == [c EXCEPT !.stopRequested = TRUE]
           w == [r EXCEPT !.effects = Append(@, ConfirmedStop)]
<1>1. c \in Models /\ StopSide(m, c) /\ c.exit = m.exit
  BY ModalSteps DEF StopSide
<1>2. RequestStop(m) = IF ~ m.stoppable \/ m.stopRequested THEN c ELSE w
  BY DEF RequestStop, Emit, ConfirmedStop
<1>3. c.effects = m.effects BY ModalSteps
<1> HIDE DEF c
<1>4. r \in Models BY <1>1 DEF Models
<1>5. /\ r.epoch = c.epoch /\ r.stoppable = c.stoppable /\ r.page = c.page
      /\ r.processes = c.processes /\ r.detail = c.detail /\ r.owed = c.owed
      /\ r.asked = c.asked /\ r.rows = c.rows /\ r.exit = c.exit
      /\ r.effects = c.effects /\ r.stopRequested
  BY <1>1 DEF Models
<1> HIDE DEF r
<1>6. Append(r.effects, ConfirmedStop) \in Seq(Effects)
  <2>1. ConfirmedStop \in Effects BY DEF Effects, ConfirmedStop
  <2>2. r.effects \in Seq(Effects) BY <1>4 DEF Models
  <2> QED BY <2>1, <2>2
<1>7. w \in Models BY <1>4, <1>6 DEF Models
<1>8. /\ w.epoch = r.epoch /\ w.stoppable = r.stoppable /\ w.page = r.page
      /\ w.processes = r.processes /\ w.detail = r.detail /\ w.owed = r.owed
      /\ w.asked = r.asked /\ w.rows = r.rows /\ w.exit = r.exit
      /\ w.effects = Append(r.effects, ConfirmedStop) /\ w.stopRequested = r.stopRequested
  BY <1>4 DEF Models
<1> HIDE DEF w
<1>9. m.stoppable => StopSide(m, w)
  BY <1>1, <1>3, <1>5, <1>7, <1>8 DEF StopSide
<1>10. StopSide(m, RequestStop(m)) /\ RequestStop(m).exit = m.exit
  BY <1>1, <1>2, <1>5, <1>8, <1>9
<1>11. "confirm-stop" \in Modals BY DEF Modals
<1> QED BY <1>10, <1>11, ModalSteps DEF Interrupt

\* A key of the runtimes page, of the tabs and of the panels.
LEMMA KeysOfPages ==
  ASSUME NEW m \in Models
  PROVE  /\ \A page \in {"runtimes", "others"} :
              ReadSide(m, EnterPage(m, page)) /\ EnterPage(m, page).processes = m.processes
         /\ ReadSide(m, EscapeContent(m)) /\ EscapeContent(m).processes = m.processes
         /\ \A key \in Keys :
              ReadSide(m, RuntimesKey(m, key)) /\ RuntimesKey(m, key).processes = m.processes
<1>0. ReadSide(m, m) BY DEF ReadSide
<1>1. ASSUME NEW page \in {"runtimes", "others"}
      PROVE  ReadSide(m, EnterPage(m, page)) /\ EnterPage(m, page).processes = m.processes
  <2> DEFINE x == [m EXCEPT !.detail = All, !.page = page, !.focus = "panels", !.panel = None]
  <2>1. x \in Models BY DEF Models, Queries
  <2>2. Aside(m, x) /\ x.processes = m.processes /\ x.page = page BY <2>1 DEF Aside, Models
  <2>3. EnterPage(m, page) = IF page = "runtimes" THEN RefreshRuntimes(x) ELSE x
    BY DEF EnterPage
  <2> HIDE DEF x
  <2>4. CASE page = "runtimes" BY <2>2, <2>3, <2>4, RefreshReads
  <2>5. CASE page # "runtimes" BY <2>1, <2>2, <2>3, <2>5 DEF ReadSide, Aside
  <2> QED BY <2>4, <2>5
<1>2. ReadSide(m, EscapeContent(m)) /\ EscapeContent(m).processes = m.processes
  <2> DEFINE u == [m EXCEPT !.focus = "panels"]
             x == [u EXCEPT !.detail = All]
  <2>1. u \in Models BY DEF Models
  <2>2. x \in Models BY <2>1 DEF Models, Queries
  <2>3. Aside(m, x) /\ x.processes = m.processes BY <2>2 DEF Aside, Models
  <2>4. ReadSide(m, u) /\ u.processes = m.processes BY <2>1 DEF ReadSide, Models
  <2>5. EscapeContent(m) = IF m.page = "runtimes" THEN RefreshRuntimes(x) ELSE u
    BY DEF EscapeContent
  <2> HIDE DEF x, u
  <2> QED BY <2>3, <2>4, <2>5, RefreshReads
<1>3. ASSUME NEW key \in Keys
      PROVE  ReadSide(m, RuntimesKey(m, key)) /\ RuntimesKey(m, key).processes = m.processes
  <2>1. CASE m.panel # "processes" BY <1>0, <2>1 DEF RuntimesKey
  <2>2. CASE m.panel = "processes" /\ key = "enter"
    <3> DEFINE x == [m EXCEPT !.panel = "performance",
                              !.detail = IF m.candidate = None THEN All ELSE m.candidate]
    <3>1. x \in Models
      <4>1. (IF m.candidate = None THEN All ELSE m.candidate) \in Queries
        <5>1. m.candidate \in Participants \cup {None} BY DEF Models
        <5> QED BY <5>1 DEF Queries
      <4> DEFINE shown == IF m.candidate = None THEN All ELSE m.candidate
      <4>2. shown \in Queries BY <4>1
      <4> HIDE DEF shown
      <4>3. [m EXCEPT !.panel = "performance", !.detail = shown] \in Models BY <4>2 DEF Models
      <4> QED BY <4>3 DEF shown
    <3>2. Aside(m, x) /\ x.processes = m.processes BY <3>1 DEF Aside, Models
    <3>3. RuntimesKey(m, key) = RefreshRuntimes(x) BY <2>2 DEF RuntimesKey
    <3> HIDE DEF x
    <3> QED BY <3>2, <3>3, RefreshReads
  <2>3. CASE m.panel = "processes" /\ key = "l"
    <3> DEFINE x == [m EXCEPT !.page = "others", !.panel = None]
    <3>1. x \in Models BY DEF Models
    <3>2. ReadSide(m, x) /\ x.processes = m.processes BY <3>1 DEF ReadSide, Models
    <3>3. RuntimesKey(m, key) = IF m.candidate # None THEN x ELSE m BY <2>3 DEF RuntimesKey
    <3> HIDE DEF x
    <3> QED BY <1>0, <3>2, <3>3
  <2>4. CASE m.panel = "processes" /\ key = "mark"
    <3> DEFINE to == IF m.processes = {} THEN None
                     ELSE CHOOSE p \in m.processes : p # m.candidate \/ m.processes = {p}
               x == [m EXCEPT !.candidate = to]
    <3>1. m.processes \subseteq Participants BY DEF Models
    <3>2. to \in Participants \cup {None}
      <4>1. CASE m.processes = {} BY <4>1
      <4>2. CASE m.processes # {}
        <5>1. \E p \in m.processes : p # m.candidate \/ m.processes = {p} BY <4>2
        <5>2. (CHOOSE p \in m.processes : p # m.candidate \/ m.processes = {p}) \in m.processes
          BY <5>1
        <5> QED BY <3>1, <4>2, <5>2
      <4> QED BY <4>1, <4>2
    <3>3. RuntimesKey(m, key) = x BY <2>4 DEF RuntimesKey
    <3> HIDE DEF to
    <3>4. x \in Models BY <3>2 DEF Models
    <3>5. ReadSide(m, x) /\ x.processes = m.processes BY <3>4 DEF ReadSide, Models
    <3> QED BY <3>3, <3>5
  <2>5. CASE m.panel = "processes" /\ key \notin {"enter", "l", "mark"}
    <3>1. RuntimesKey(m, key) = m BY <2>5 DEF RuntimesKey
    <3> QED BY <1>0, <3>1
  <2> QED BY <2>1, <2>2, <2>3, <2>4, <2>5
<1> QED BY <1>1, <1>2, <1>3

\* A key that no modal and no page takes.
LEMMA RoutedKeys ==
  ASSUME NEW m \in Models, NEW key \in Keys
  PROVE  ReadSide(m, RouteKey(m, key)) /\ RouteKey(m, key).processes = m.processes
<1> DEFINE t == [m EXCEPT !.focus = "tabs"]
           u == [m EXCEPT !.focus = "content", !.panel = "processes"]
           v == [m EXCEPT !.focus = "content", !.panel = "performance"]
<1>0. ReadSide(m, m) BY DEF ReadSide
<1>1. t \in Models /\ u \in Models /\ v \in Models BY DEF Models
<1>2. ReadSide(m, t) /\ t.processes = m.processes BY <1>1 DEF ReadSide, Models
<1>3. ReadSide(m, u) /\ u.processes = m.processes BY <1>1 DEF ReadSide, Models
<1>4. ReadSide(m, v) /\ v.processes = m.processes BY <1>1 DEF ReadSide, Models
<1>5. RouteKey(m, key) \in {t, u, v, m, EscapeContent(m), RuntimesKey(m, key)}
  BY DEF RouteKey
<1> HIDE DEF t, u, v
<1> QED BY <1>0, <1>2, <1>3, <1>4, <1>5, KeysOfPages

\* Every key is a step of the window or of leaving and stopping.
LEMMA EveryKey ==
  ASSUME NEW m \in Models, NEW key \in Keys
  PROVE  LET n == HandleKey(m, key)
         IN  n.processes = m.processes /\ (ReadSide(m, n) \/ StopSide(m, n))
<1> DEFINE n == HandleKey(m, key)
<1>1. "help" \in Modals /\ "confirm-stop" \in Modals BY DEF Modals
<1>2. StopSide(m, ModalKey(m, key))
  <2>1. ModalKey(m, key) \in {OpenModal(m, "help"), CloseModal(m), RequestStop(m),
                              Detaching(CloseModal(m)), m}
    BY DEF ModalKey
  <2> QED BY <1>1, <2>1, ModalSteps, RequestStops
<1>3. CASE key = "ctrl-c"
  <2>1. n = Interrupt(m) BY <1>3 DEF HandleKey
  <2> QED BY <2>1, RequestStops DEF StopSide
<1>4. CASE key # "ctrl-c" /\ m.modal # "none"
  <2>1. n = ModalKey(m, key) BY <1>4 DEF HandleKey
  <2> QED BY <1>2, <2>1 DEF StopSide
<1>5. CASE key # "ctrl-c" /\ m.modal = "none" /\ key \in {"help", "stop", "quit"}
  <2>1. n \in {OpenModal(m, "help"), OpenModal(m, "confirm-stop"), Detaching(m)}
    BY <1>5 DEF HandleKey
  <2>2. StopSide(m, OpenModal(m, "help")) /\ StopSide(m, OpenModal(m, "confirm-stop"))
    BY <1>1, ModalSteps
  <2>3. StopSide(m, Detaching(m)) BY ModalSteps
  <2>4. StopSide(m, n) BY <2>1, <2>2, <2>3
  <2> HIDE DEF n
  <2> QED BY <2>4 DEF StopSide, n
<1>6. CASE key # "ctrl-c" /\ m.modal = "none" /\ key \in {"runtimes", "others"}
  <2>1. n = EnterPage(m, key) BY <1>6 DEF HandleKey
  <2> QED BY <1>6, <2>1, KeysOfPages
<1>7. CASE /\ key # "ctrl-c" /\ m.modal = "none"
           /\ key \notin {"help", "stop", "quit", "runtimes", "others"}
  <2>1. n = RouteKey(m, key) BY <1>7 DEF HandleKey
  <2> QED BY <2>1, RoutedKeys
<1> QED BY <1>3, <1>4, <1>5, <1>6, <1>7

\* A table of processes is shown; the detail that is not in it any more is left.
LEMMA TableReads ==
  ASSUME NEW m \in Models, NEW table \in SUBSET Participants
  PROVE  /\ ReadSide(m, PreserveCandidate(m, table))
         /\ PreserveCandidate(m, table).processes = table
<1> DEFINE cleared == m.detail # All /\ m.detail \notin table
           to == IF m.candidate \in table THEN m.candidate
                 ELSE IF table = {} THEN None ELSE CHOOSE p \in table : TRUE
           left == IF cleared THEN All ELSE m.detail
           x == [m EXCEPT !.processes = table, !.candidate = to, !.detail = left]
<1>1. to \in Participants \cup {None}
  <2>1. table # {} => (CHOOSE p \in table : TRUE) \in table OBVIOUS
  <2>2. CASE m.candidate \in table BY <2>2
  <2>3. CASE m.candidate \notin table BY <2>1, <2>3
  <2> QED BY <2>2, <2>3
<1>2. PreserveCandidate(m, table) = IF cleared THEN RefreshRuntimes(x) ELSE x
  BY DEF PreserveCandidate
<1>8. left \in Queries BY DEF Models, Queries
<1>5. ~ cleared => left = m.detail OBVIOUS
<1> HIDE DEF to, left
<1>3. x \in Models BY <1>1, <1>8 DEF Models
<1>4. /\ Aside(m, x) /\ x.processes = table /\ x.owed = m.owed /\ x.page = m.page
      /\ x.detail = left
  BY <1>3 DEF Aside, Models
<1> HIDE DEF x, cleared
<1>6. CASE cleared BY <1>2, <1>4, <1>6, RefreshReads
<1>7. CASE ~ cleared BY <1>2, <1>3, <1>4, <1>5, <1>7 DEF ReadSide, Aside
<1> QED BY <1>6, <1>7

(***************************************************************************)
(* What every message that the reducer takes keeps, while the session is   *)
(* what it is.  An ending has its cause; a supervisor that is down has     *)
(* ended by itself, or a stop was confirmed or has failed; the rows of the *)
(* runtimes page are those of its detail, or that read is asked or owed;   *)
(* and what is asked is what the one read on its way is for, a read that   *)
(* the router has (AwayRead) or one among the effects (HomeRead).          *)
(***************************************************************************)
Caused == history.alone \/ history.failed

\* A confirmed stop is with the router or its task.
StopUnderWay == ~ NoKind(guaranteed, {"stop"}) \/ stops # <<>>


Ends(m) ==
  /\ m.exit = "ended" => Caused
  /\ m.exit = "stopped" => ~ session.supervisor
  /\ ~ session.supervisor => Caused \/ m.stopRequested \/ m.exit # None
  /\ ~ m.stoppable => ~ m.stopRequested /\ NoKind(m.effects, {"stop"})
  /\ StopUnderWay \/ ~ NoKind(m.effects, {"stop"}) => m.stopRequested \/ history.failed

Rows(m) ==
  m.epoch /\ m.page = "runtimes" /\ ~ m.owed =>
    IF m.asked = None THEN m.rows = m.detail ELSE m.asked = m.detail

AwayRead(m, query) == m.asked = query /\ NoKind(m.effects, {"read"})

HomeRead(m) ==
  IF m.asked = None THEN NoKind(m.effects, {"read"})
  ELSE OneOf(m.effects, Read(m.asked), {"read"})

\* A stop was asked that is not among the effects.
Owes(m) == m.stopRequested /\ NoKind(m.effects, {"stop"})

\* What a message claims is so.
Honest(msg) ==
  /\ msg.kind \in {"lost", "stopped", "supervisor-stopped", "supervisor-failed"}
       => ~ session.supervisor
  /\ msg.kind = "stop-failed" => history.failed

\* A step that changes at most whether a stop is asked, and the exit.
ExitSide(m, n) ==
  /\ n \in Models
  /\ n.epoch = m.epoch /\ n.stoppable = m.stoppable /\ n.page = m.page
  /\ n.processes = m.processes /\ n.detail = m.detail /\ n.owed = m.owed
  /\ n.asked = m.asked /\ n.rows = m.rows /\ n.effects = m.effects

\* What every step keeps that is not of the arrival of an answer.
KeepsReads(m, n) ==
  /\ Rows(m) => Rows(n)
  /\ \A query \in Queries : AwayRead(m, query) => AwayRead(n, query)
  /\ HomeRead(m) => HomeRead(n)

KeepsEnds(m, n) ==
  /\ Ends(m) => Ends(n)
  /\ Owes(n) => Owes(m)
  /\ m.exit # None => n.exit # None
  /\ n.stoppable = m.stoppable

\* A step of the window of rows keeps all of it.
LEMMA ReadSideKeeps ==
  ASSUME NEW m \in Models, NEW n, ReadSide(m, n)
  PROVE  KeepsReads(m, n) /\ KeepsEnds(m, n)
<1> DEFINE e == Read(n.detail)
<1>0. /\ m.effects \in Seq(Effects) /\ n.detail \in Queries
  BY DEF Models, ReadSide
<1>1. e.kind = "read" BY DEF Read
<1>2. \A x \in Queries : x # None BY NoneAssumption
<1> HIDE DEF e
<1>3. CASE n.asked = m.asked /\ n.rows = m.rows /\ n.effects = m.effects
  <2>1. Rows(m) => Rows(n) BY <1>3 DEF Rows, ReadSide
  <2>2. KeepsReads(m, n) BY <1>3, <2>1 DEF KeepsReads, AwayRead, HomeRead
  <2>3. KeepsEnds(m, n) BY <1>3 DEF KeepsEnds, Ends, Owes, ReadSide
  <2> QED BY <2>2, <2>3
<1>4. CASE m.asked = None /\ n.asked = n.detail /\ n.effects = Append(m.effects, e)
  <2>1. Rows(n) BY <1>0, <1>2, <1>4 DEF Rows
  <2>2. \A query \in Queries : ~ AwayRead(m, query) BY <1>2, <1>4 DEF AwayRead
  <2>3. NoKind(m.effects, {"read"}) => OneOf(n.effects, e, {"read"})
    BY <1>0, <1>4, AppendFirst
  <2>4. HomeRead(m) => HomeRead(n) BY <1>0, <1>2, <1>4, <2>3 DEF HomeRead, e
  <2>5. NoKind(m.effects, {"stop"}) => NoKind(n.effects, {"stop"})
    BY <1>0, <1>1, <1>4, AppendOther
  <2>6. NoKind(n.effects, {"stop"}) => NoKind(m.effects, {"stop"})
    BY <1>0, <1>4, Appended DEF NoKind
  <2>7. /\ n.stoppable = m.stoppable /\ n.stopRequested = m.stopRequested /\ n.exit = m.exit
    BY DEF ReadSide
  <2>8. KeepsEnds(m, n) BY <2>5, <2>6, <2>7 DEF KeepsEnds, Ends, Owes
  <2> QED BY <2>1, <2>2, <2>4, <2>8 DEF KeepsReads
<1> QED BY <1>3, <1>4 DEF ReadSide, e

\* A step of leaving or stopping keeps all of it.
LEMMA StopSideKeeps ==
  ASSUME NEW m \in Models, NEW n, StopSide(m, n)
  PROVE  KeepsReads(m, n) /\ KeepsEnds(m, n)
<1>0. m.effects \in Seq(Effects) /\ n.stoppable = m.stoppable BY DEF Models, StopSide
<1>1. ConfirmedStop.kind = "stop" BY DEF ConfirmedStop
<1>2. Rows(m) => Rows(n) BY DEF Rows, StopSide
<1>3. n.exit = m.exit \/ n.exit = "detached" BY DEF StopSide
<1>4. "detached" # None BY NoneAssumption DEF Exits
<1>5. m.exit # None => n.exit # None BY <1>3, <1>4
<1>6. CASE n.effects = m.effects /\ n.stopRequested = m.stopRequested
  <2>1. KeepsReads(m, n) BY <1>2, <1>6 DEF KeepsReads, AwayRead, HomeRead, StopSide
  <2>2. Ends(m) => Ends(n) BY <1>0, <1>3, <1>5, <1>6 DEF Ends
  <2>3. Owes(n) => Owes(m) BY <1>6 DEF Owes
  <2> QED BY <1>0, <1>5, <2>1, <2>2, <2>3 DEF KeepsEnds
<1>7. CASE n.effects = Append(m.effects, ConfirmedStop) /\ m.stoppable /\ n.stopRequested
  <2>1. /\ NoKind(m.effects, {"read"}) => NoKind(n.effects, {"read"})
        /\ \A x : OneOf(m.effects, x, {"read"}) => OneOf(n.effects, x, {"read"})
    BY <1>0, <1>1, <1>7, AppendOther
  <2>2. KeepsReads(m, n) BY <1>2, <2>1 DEF KeepsReads, AwayRead, HomeRead, StopSide
  <2>3. Ends(m) => Ends(n) BY <1>0, <1>3, <1>5, <1>7 DEF Ends
  <2>4. ~ NoKind(n.effects, {"stop"})
    <3>1. /\ Len(n.effects) = Len(m.effects) + 1 /\ Len(m.effects) \in Nat
          /\ n.effects[Len(m.effects) + 1] = ConfirmedStop
      BY <1>0, <1>7, Appended
    <3>2. Len(m.effects) + 1 \in 1 .. Len(n.effects) BY <3>1
    <3> QED BY <1>1, <3>1, <3>2 DEF NoKind
  <2> QED BY <1>0, <1>5, <2>2, <2>3, <2>4 DEF KeepsEnds, Owes
<1> QED BY <1>6, <1>7 DEF StopSide

\* A change of the exit alone keeps the reads.
LEMMA ExitSideKeeps ==
  ASSUME NEW m \in Models, NEW n, ExitSide(m, n)
  PROVE  KeepsReads(m, n)
BY DEF KeepsReads, ExitSide, Rows, AwayRead, HomeRead

\* An answer to what is asked brings the read home.
LEMMA AnswerKeeps ==
  ASSUME NEW m \in Models, NEW query \in Queries
  PROVE  LET n == AcceptRuntimes(m, query)
         IN  /\ KeepsEnds(m, n)
             /\ Rows(m) /\ AwayRead(m, query) => Rows(n) /\ HomeRead(n)
<1> DEFINE n == AcceptRuntimes(m, query)
           e == Read(n.detail)
<1>1. /\ n \in Models
      /\ n.epoch = m.epoch /\ n.stoppable = m.stoppable /\ n.page = m.page
      /\ n.stopRequested = m.stopRequested /\ n.exit = m.exit /\ n.detail = m.detail
      /\ m.asked # None =>
           /\ n.rows = query
           /\ \/ n.asked = None /\ n.owed = m.owed /\ n.effects = m.effects
              \/ n.asked = n.detail /\ n.effects = Append(m.effects, e)
  BY AcceptReads
<1>2. m.asked = None => n = m BY DEF AcceptRuntimes
<1>3. /\ m.effects \in Seq(Effects) /\ n.detail \in Queries
  BY <1>1 DEF Models
<1>4. \A x \in Queries : x # None BY NoneAssumption
<1>5. e.kind = "read" BY DEF Read
<1> HIDE DEF n, e
<1>6. /\ NoKind(Append(m.effects, e), {"stop"}) <=> NoKind(m.effects, {"stop"})
      /\ NoKind(m.effects, {"read"}) => OneOf(Append(m.effects, e), e, {"read"})
  <2>1. NoKind(m.effects, {"stop"}) => NoKind(Append(m.effects, e), {"stop"})
    BY <1>3, <1>5, AppendOther
  <2>2. NoKind(Append(m.effects, e), {"stop"}) => NoKind(m.effects, {"stop"})
    BY <1>3, Appended DEF NoKind
  <2> QED BY <1>3, <2>1, <2>2, AppendFirst
<1>7. NoKind(n.effects, {"stop"}) <=> NoKind(m.effects, {"stop"}) BY <1>1, <1>2, <1>6
<1>8. KeepsEnds(m, n) BY <1>1, <1>7 DEF KeepsEnds, Ends, Owes
<1>9. ASSUME Rows(m), AwayRead(m, query) PROVE Rows(n) /\ HomeRead(n)
  <2>1. m.asked # None /\ m.asked = query /\ NoKind(m.effects, {"read"})
    BY <1>4, <1>9 DEF AwayRead
  <2>2. CASE n.asked = None /\ n.owed = m.owed /\ n.effects = m.effects
    <3>1. Rows(n) BY <1>1, <1>9, <2>1, <2>2 DEF Rows
    <3>2. HomeRead(n) BY <2>1, <2>2 DEF HomeRead
    <3> QED BY <3>1, <3>2
  <2>3. CASE n.asked = n.detail /\ n.effects = Append(m.effects, e)
    <3>1. n.asked # None BY <1>3, <1>4, <2>3
    <3>2. Rows(n) BY <2>3, <3>1 DEF Rows
    <3>3. HomeRead(n) BY <1>6, <2>1, <2>3, <3>1 DEF HomeRead, e
    <3> QED BY <3>2, <3>3
  <2> QED BY <1>1, <2>1, <2>2, <2>3
<1> QED BY <1>8, <1>9 DEF n

\* The messages that leave or end: what they claim is so.
LEMMA ExitMessages ==
  ASSUME NEW m \in Models, NEW msg \in Message, Honest(msg),
         msg.kind \in {"connected", "lost", "stopped", "stop-failed",
                       "supervisor-stopped", "supervisor-failed"}
  PROVE  LET n == Update(m, msg)
         IN  /\ ExitSide(m, n)
             /\ Ends(m) => Ends(n)
             /\ m.exit # None => n.exit # None
             /\ msg.kind \notin {"stopped", "stop-failed"} => n.stopRequested = m.stopRequested
             /\ msg.kind \in {"stopped", "stop-failed"} => ~ n.stopRequested \/ n.exit # None
<1> DEFINE n == Update(m, msg)
<1>0. "ended" # None /\ "stopped" # None BY NoneAssumption DEF Exits
<1>1. CASE msg.kind = "connected"
  <2> DEFINE x == [m EXCEPT !.connection = "connected"]
  <2>1. n = x BY <1>1 DEF Update, UpdateClient, ClientEvents
  <2>2. x \in Models BY DEF Models
  <2>3. ExitSide(m, x) /\ x.exit = m.exit /\ x.stopRequested = m.stopRequested
    BY <2>2 DEF ExitSide, Models
  <2> HIDE DEF x, n
  <2> QED BY <1>1, <2>1, <2>3 DEF Ends, ExitSide, n
<1>2. CASE msg.kind = "lost"
  <2> DEFINE exit == IF m.exit = None /\ ~ m.stopRequested THEN "ended" ELSE m.exit
             x == [m EXCEPT !.connection = "lost", !.exit = exit]
  <2>1. n = x BY <1>2 DEF Update, UpdateClient, ClientEvents, Lose
  <2>2. exit \in Exits \cup {None} BY DEF Models, Exits
  <2>3. Ends(m) => (exit = "ended" => Caused) BY <1>2 DEF Honest, Ends
  <2>4. Ends(m) => (exit = "stopped" => ~ session.supervisor) BY DEF Ends
  <2>5. m.exit # None => exit # None OBVIOUS
  <2> HIDE DEF exit
  <2>6. x \in Models BY <2>2 DEF Models
  <2>7. ExitSide(m, x) /\ x.exit = exit /\ x.stopRequested = m.stopRequested
    BY <2>6 DEF ExitSide, Models
  <2> HIDE DEF x, n
  <2>8. Ends(m) => Ends(x) BY <2>3, <2>4, <2>5, <2>7 DEF Ends, ExitSide
  <2> QED BY <1>2, <2>1, <2>5, <2>7, <2>8 DEF n
<1>3. CASE msg.kind = "stopped"
  <2> DEFINE x == [m EXCEPT !.exit = "stopped"]
  <2>1. n = x BY <1>3 DEF Update, ClientEvents
  <2>2. x \in Models BY DEF Models, Exits
  <2>3. ExitSide(m, x) /\ x.exit = "stopped" /\ x.stopRequested = m.stopRequested
    BY <2>2 DEF ExitSide, Models
  <2> HIDE DEF x, n
  <2>4. Ends(m) => Ends(x) BY <1>0, <1>3, <2>3 DEF Ends, ExitSide, Honest
  <2> QED BY <1>0, <1>3, <2>1, <2>3, <2>4 DEF n
<1>4. CASE msg.kind = "stop-failed"
  <2> DEFINE x == [m EXCEPT !.stopRequested = FALSE]
  <2>1. n = x BY <1>4 DEF Update, ClientEvents
  <2>2. x \in Models BY DEF Models
  <2>3. ExitSide(m, x) /\ x.exit = m.exit /\ ~ x.stopRequested
    BY <2>2 DEF ExitSide, Models
  <2> HIDE DEF x, n
  <2>4. Ends(m) => Ends(x) BY <1>4, <2>3 DEF Ends, ExitSide, Honest, Caused
  <2> QED BY <1>4, <2>1, <2>3, <2>4 DEF n
<1>5. ASSUME NEW as \in {"stopped", "ended"}, ~ session.supervisor, n = SupervisorExited(m, as),
             msg.kind \in {"supervisor-stopped", "supervisor-failed"}
      PROVE  /\ ExitSide(m, n)
             /\ Ends(m) => Ends(n)
             /\ m.exit # None => n.exit # None
             /\ n.stopRequested = m.stopRequested
  <2> DEFINE x == [m EXCEPT !.exit = as]
  <2>1. n = IF m.stopRequested \/ m.exit \notin {None, "ended"} THEN m ELSE x
    BY <1>5 DEF SupervisorExited
  <2>2. x \in Models BY DEF Models, Exits
  <2>3. ExitSide(m, x) /\ x.exit = as /\ x.stopRequested = m.stopRequested
    BY <2>2 DEF ExitSide, Models
  <2>4. ExitSide(m, m) BY DEF ExitSide
  <2> HIDE DEF x, n
  <2>5. ASSUME ~ m.stopRequested, m.exit \in {None, "ended"}, Ends(m) PROVE Ends(x)
    <3>1. Caused BY <1>5, <2>5 DEF Ends
    <3> QED BY <1>0, <1>5, <2>3, <2>5, <3>1 DEF Ends, ExitSide
  <2> QED BY <1>0, <1>5, <2>1, <2>3, <2>4, <2>5
<1>6. CASE msg.kind = "supervisor-stopped"
  <2>1. n = SupervisorExited(m, "stopped") /\ ~ session.supervisor
    BY <1>6 DEF Update, ClientEvents, Honest
  <2> QED BY <1>5, <1>6, <2>1
<1>7. CASE msg.kind = "supervisor-failed"
  <2>1. n = SupervisorExited(m, "ended") /\ ~ session.supervisor
    BY <1>7 DEF Update, ClientEvents, Honest
  <2> QED BY <1>5, <1>7, <2>1
<1> QED BY <1>1, <1>2, <1>3, <1>4, <1>6, <1>7

(***************************************************************************)
(* A pass of the reducer over what the mailbox drained, by induction on    *)
(* the messages that were taken.                                           *)
(***************************************************************************)
Completions == {"stopped", "stop-failed"}

\* The message is there, and of one of these kinds.
IsA(msg, kinds) == msg # None /\ msg.kind \in kinds

Taking(m, msg, n) ==
  /\ n \in Models /\ n.epoch /\ n.stoppable = m.stoppable
  /\ Ends(m) => Ends(n)
  /\ m.exit # None => n.exit # None
  /\ ~ IsA(msg, Completions) => (Owes(n) => Owes(m))
  /\ IsA(msg, Completions) => (Owes(n) => n.exit # None)
  /\ ~ IsA(msg, {"reply"}) => KeepsReads(m, n)
  /\ IsA(msg, {"reply"}) => (Rows(m) /\ AwayRead(m, msg.query) => Rows(n) /\ HomeRead(n))
  /\ n.processes = IF IsA(msg, {"processes"}) THEN msg.table ELSE m.processes
  /\ IsA(msg, ClientEvents) => n.stopRequested = m.stopRequested

\* A message that is taken keeps it, answers and completions as they do.
LEMMA TakeKeeps ==
  ASSUME NEW m \in Models, m.epoch, NEW msg \in Message,
         msg.kind # "epoch", Honest(msg)
  PROVE  Taking(m, msg, Update(m, msg))
<1> DEFINE n == Update(m, msg)
<1>0. msg # None BY NoneAssumption
<1>1. CASE msg.kind \in {"connected", "lost", "stopped", "stop-failed",
                         "supervisor-stopped", "supervisor-failed"}
  <2>1. /\ ExitSide(m, n)
        /\ Ends(m) => Ends(n)
        /\ m.exit # None => n.exit # None
        /\ msg.kind \notin {"stopped", "stop-failed"} => n.stopRequested = m.stopRequested
        /\ msg.kind \in {"stopped", "stop-failed"} => ~ n.stopRequested \/ n.exit # None
    BY <1>1, ExitMessages
  <2> HIDE DEF n
  <2>2. KeepsReads(m, n) BY <2>1, ExitSideKeeps
  <2>3. ~ IsA(msg, Completions) => (Owes(n) => Owes(m))
    BY <1>0, <2>1 DEF IsA, Completions, Owes, ExitSide
  <2>4. IsA(msg, Completions) => (Owes(n) => n.exit # None)
    BY <2>1 DEF IsA, Completions, Owes
  <2>5. ~ IsA(msg, {"reply"}) /\ ~ IsA(msg, {"processes"}) BY <1>1 DEF IsA
  <2>6. IsA(msg, ClientEvents) => n.stopRequested = m.stopRequested
    BY <2>1 DEF IsA, ClientEvents
  <2>7. n \in Models /\ n.epoch /\ n.stoppable = m.stoppable /\ n.processes = m.processes
    BY <2>1 DEF ExitSide
  <2> QED BY <2>1, <2>2, <2>3, <2>4, <2>5, <2>6, <2>7 DEF Taking, n
<1>2. CASE msg.kind \in {"processes", "changed"}
  <2>1. ReadSide(m, n) /\ n.processes = IF msg.kind = "processes" THEN msg.table ELSE m.processes
    <3>1. CASE msg.kind = "processes"
      <4>1. msg.table \in SUBSET Participants BY <3>1 DEF Message
      <4>2. n = PreserveCandidate(m, msg.table)
        BY <3>1 DEF Update, UpdateClient, ClientEvents
      <4> QED BY <3>1, <4>1, <4>2, TableReads
    <3>2. CASE msg.kind = "changed"
      <4>1. n = RefreshRuntimes(m)
        BY <3>2 DEF Update, UpdateClient, ClientEvents, InvalidateRuntimes
      <4>2. Aside(m, m) BY DEF Aside
      <4> QED BY <3>2, <4>1, <4>2, RefreshReads
    <3> QED BY <1>2, <3>1, <3>2
  <2> HIDE DEF n
  <2>2. KeepsReads(m, n) /\ KeepsEnds(m, n) BY <2>1, ReadSideKeeps
  <2>3. ~ IsA(msg, {"reply"}) /\ ~ IsA(msg, Completions) BY <1>2 DEF IsA, Completions
  <2>4. n.processes = IF IsA(msg, {"processes"}) THEN msg.table ELSE m.processes
    BY <1>0, <2>1 DEF IsA
  <2>5. n \in Models /\ n.epoch /\ n.stopRequested = m.stopRequested BY <2>1 DEF ReadSide
  <2> QED BY <2>2, <2>3, <2>4, <2>5 DEF Taking, KeepsEnds, n
<1>3. CASE msg.kind \in {"interrupt", "terminate"}
  <2>1. StopSide(m, n)
    <3>1. n \in {Interrupt(m), Detaching(m)} BY <1>3 DEF Update, ClientEvents
    <3> QED BY <3>1, ModalSteps, RequestStops
  <2> HIDE DEF n
  <2>2. KeepsReads(m, n) /\ KeepsEnds(m, n) BY <2>1, StopSideKeeps
  <2>3. /\ ~ IsA(msg, {"reply"}) /\ ~ IsA(msg, Completions) /\ ~ IsA(msg, {"processes"})
        /\ ~ IsA(msg, ClientEvents)
    BY <1>3 DEF IsA, Completions, ClientEvents
  <2>4. n \in Models /\ n.epoch /\ n.processes = m.processes BY <2>1 DEF StopSide
  <2> QED BY <2>2, <2>3, <2>4 DEF Taking, KeepsEnds, n
<1>4. CASE msg.kind = "reply"
  <2>0. msg.query \in Queries BY <1>4 DEF Message
  <2>1. n = AcceptRuntimes(m, msg.query) BY <1>4 DEF Update, ClientEvents
  <2>2. /\ KeepsEnds(m, n)
        /\ Rows(m) /\ AwayRead(m, msg.query) => Rows(n) /\ HomeRead(n)
    BY <2>0, <2>1, AnswerKeeps
  <2>3. n \in Models /\ n.epoch /\ n.processes = m.processes
    BY <2>0, <2>1, AcceptReads
  <2> HIDE DEF n
  <2>4. /\ IsA(msg, {"reply"}) /\ ~ IsA(msg, Completions) /\ ~ IsA(msg, {"processes"})
        /\ ~ IsA(msg, ClientEvents)
    BY <1>0, <1>4 DEF IsA, Completions, ClientEvents
  <2> QED BY <2>2, <2>3, <2>4 DEF Taking, KeepsEnds, n
<1>5. msg.kind \in {"epoch", "connected", "lost", "changed", "stopped", "stop-failed",
                    "supervisor-stopped", "supervisor-failed", "interrupt", "terminate",
                    "processes", "reply"}
  BY DEF Message
<1> QED BY <1>1, <1>2, <1>3, <1>4, <1>5

\* An empty slot changes nothing.
LEMMA TakeNothing == ASSUME NEW m \in Models, m.epoch PROVE Taking(m, None, m)
BY DEF Taking, IsA, KeepsReads

\* Reduced has a model for every prefix of what it takes.
LEMMA ReducedAfter ==
  ASSUME NEW m, NEW S, NEW msgs \in Seq(S)
  PROVE  \E after : /\ after[0] = m
                    /\ \A k \in 1 .. Len(msgs) : after[k] = Take(after[k - 1], msgs[k])
                    /\ Reduced(m, msgs) = after[Len(msgs)]
<1> DEFINE N == Len(msgs)
           Is(f, n) == f = [k \in 0 .. n |-> IF k = 0 THEN m ELSE Take(f[k - 1], msgs[k])]
           T == {n \in Nat : \E f : Is(f, n)}
<1>1. N \in Nat OBVIOUS
<1>2. 0 \in T
  <2>1. Is([k \in 0 .. 0 |-> m], 0) OBVIOUS
  <2> QED BY <2>1
<1>3. ASSUME NEW n \in 0 .. N - 1, n \in T PROVE n + 1 \in T
  <2>1. PICK f : Is(f, n) BY <1>3
  <2> DEFINE g == [k \in 0 .. n + 1 |-> IF k = n + 1 THEN Take(f[n], msgs[k]) ELSE f[k]]
  <2>2. ASSUME NEW k \in 0 .. n + 1
        PROVE  g[k] = IF k = 0 THEN m ELSE Take(g[k - 1], msgs[k])
    <3>1. CASE k = 0 BY <2>1, <3>1
    <3>2. CASE k = n + 1 BY <3>2
    <3>3. CASE k \in 1 .. n
      <4>1. g[k] = f[k] /\ g[k - 1] = f[k - 1] BY <3>3
      <4>2. f[k] = Take(f[k - 1], msgs[k]) BY <2>1, <3>3
      <4> QED BY <3>3, <4>1, <4>2
    <3> QED BY <3>1, <3>2, <3>3
  <2>3. g = [k \in 0 .. n + 1 |-> g[k]] OBVIOUS
  <2> HIDE DEF g
  <2>4. Is(g, n + 1) BY <2>2, <2>3
  <2> QED BY <1>3, <2>4
<1>4. N \in T
  <2> HIDE DEF T
  <2>1. 0 .. N \subseteq T BY <1>1, <1>2, <1>3, UpTo
  <2> QED BY <1>1, <2>1
<1> DEFINE f0 == CHOOSE f : Is(f, N)
<1>5. Is(f0, N) BY <1>4
<1>6. Reduced(m, msgs) = f0[N] BY DEF Reduced
<1> HIDE DEF f0
<1>7. f0[0] = m /\ \A k \in 1 .. N : f0[k] = Take(f0[k - 1], msgs[k]) BY <1>1, <1>5
<1> QED BY <1>6, <1>7

\* What a pass may take: an epoch at most as its first message, at most one
\* answer, and nothing that is not so.
Drainable(msgs, query) ==
  /\ msgs \in Seq(Message \cup {None})
  /\ \A k \in 1 .. Len(msgs) : msgs[k] # None => Honest(msgs[k])
  /\ \A k \in 2 .. Len(msgs) : ~ IsA(msgs[k], {"epoch"})
  /\ \A k \in 1 .. Len(msgs) : IsA(msgs[k], {"reply"}) =>
       /\ msgs[k].query = query
       /\ \A j \in 1 .. Len(msgs) : IsA(msgs[j], {"reply"}) => j = k

\* What a pass makes of a model it starts or goes on from.
Passed(m, msgs, query, n) ==
  /\ n \in Models /\ n.epoch /\ n.stoppable = m.stoppable
  /\ Ends(n) /\ Rows(n)
  /\ Owes(n) => \/ n.exit # None
                \/ Owes(m) /\ \A k \in 1 .. Len(msgs) : ~ IsA(msgs[k], Completions)
  /\ \/ /\ AwayRead(n, query) /\ AwayRead(m, query)
        /\ \A k \in 1 .. Len(msgs) : ~ IsA(msgs[k], {"reply"})
     \/ /\ HomeRead(n)
        /\ HomeRead(m) \/ \E k \in 1 .. Len(msgs) : IsA(msgs[k], {"reply"})
  /\ \A table : /\ m.processes = table \/ \E k \in 1 .. Len(msgs) : IsA(msgs[k], {"processes"})
                /\ \A k \in 1 .. Len(msgs) : IsA(msgs[k], {"processes"}) => msgs[k].table = table
                => n.processes = table
  /\ (\A k \in 1 .. Len(msgs) : IsA(msgs[k], ClientEvents) \/ msgs[k] = None) =>
       n.stopRequested = m.stopRequested

\* A pass of a model whose epoch is known.
LEMMA PassKeeps ==
  ASSUME NEW m \in Models, m.epoch, Ends(m), Rows(m),
         NEW query \in Queries, NEW msgs, Drainable(msgs, query),
         \A k \in 1 .. Len(msgs) : ~ IsA(msgs[k], {"epoch"}),
         \/ AwayRead(m, query)
         \/ HomeRead(m) /\ \A k \in 1 .. Len(msgs) : ~ IsA(msgs[k], {"reply"})
  PROVE  Passed(m, msgs, query, Reduced(m, msgs))
<1> DEFINE N == Len(msgs)
<1>0. msgs \in Seq(Message \cup {None}) BY DEF Drainable
<1>1. PICK after : /\ after[0] = m
                   /\ \A k \in 1 .. N : after[k] = Take(after[k - 1], msgs[k])
                   /\ Reduced(m, msgs) = after[N]
  BY <1>0, ReducedAfter
<1>2. N \in Nat BY <1>0
<1> DEFINE
     Reads(k) ==
       \/ /\ AwayRead(after[k], query) /\ AwayRead(m, query)
          /\ \A j \in 1 .. k : ~ IsA(msgs[j], {"reply"})
       \/ /\ HomeRead(after[k])
          /\ \A j \in k + 1 .. N : ~ IsA(msgs[j], {"reply"})
          /\ HomeRead(m) \/ \E j \in 1 .. N : IsA(msgs[j], {"reply"})
     Stops(k) ==
       Owes(after[k]) => \/ after[k].exit # None
                         \/ Owes(m) /\ \A j \in 1 .. k : ~ IsA(msgs[j], Completions)
     Shows(k) ==
       \A table : /\ m.processes = table \/ \E j \in 1 .. N : IsA(msgs[j], {"processes"})
                  /\ \A j \in 1 .. N : IsA(msgs[j], {"processes"}) => msgs[j].table = table
                  => \/ after[k].processes = table
                     \/ \E j \in k + 1 .. N : IsA(msgs[j], {"processes"})
     Unasked(k) ==
       (\A j \in 1 .. N : IsA(msgs[j], ClientEvents) \/ msgs[j] = None)
         => after[k].stopRequested = m.stopRequested
     Good(k) ==
       /\ after[k] \in Models /\ after[k].epoch /\ after[k].stoppable = m.stoppable
       /\ Ends(after[k]) /\ Rows(after[k])
     T == {k \in Nat : Good(k) /\ Reads(k) /\ Stops(k) /\ Shows(k) /\ Unasked(k)}
<1>3. 0 \in T
  <2>1. \A j \in 1 .. 0 : FALSE OBVIOUS
  <2>2. Good(0) BY <1>1
  <2>3. Reads(0) BY <1>1, <2>1
  <2>4. Stops(0) BY <1>1, <2>1
  <2>5. Shows(0) BY <1>1
  <2>6. Unasked(0) BY <1>1
  <2> HIDE DEF Good, Reads, Stops, Shows, Unasked
  <2> QED BY <2>2, <2>3, <2>4, <2>5, <2>6
<1>4. ASSUME NEW k \in 0 .. N - 1, k \in T PROVE k + 1 \in T
  <2> DEFINE a == after[k]
             b == after[k + 1]
             msg == msgs[k + 1]
  <2>1. k + 1 \in 1 .. N /\ (k + 1) - 1 = k BY <1>2
  <2>2. b = Take(a, msg) BY <1>1, <2>1
  <2>3. /\ Good(k) /\ Reads(k) /\ Stops(k) /\ Shows(k) /\ Unasked(k) BY <1>4
  <2>4. a \in Models /\ a.epoch BY <2>3
  <2>5. Taking(a, msg, b)
    <3>1. CASE msg = None
      <4>1. b = a BY <2>2, <3>1 DEF Take
      <4> HIDE DEF a, b
      <4> QED BY <2>4, <3>1, <4>1, TakeNothing
    <3>2. CASE msg # None
      <4>1. msg \in Message BY <1>0, <2>1, <3>2
      <4>2. Honest(msg) /\ msg.kind # "epoch" BY <2>1, <3>2 DEF Drainable, IsA
      <4>3. b = Update(a, msg) BY <2>2, <3>2 DEF Take
      <4> HIDE DEF a, b, msg
      <4> QED BY <2>4, <4>1, <4>2, <4>3, TakeKeeps
    <3> QED BY <3>1, <3>2
  <2>6. IsA(msg, {"reply"}) =>
          msg.query = query /\ \A j \in 1 .. N : IsA(msgs[j], {"reply"}) => j = k + 1
    BY <2>1 DEF Drainable
  <2>7. \A j \in 1 .. k + 1 : j = k + 1 \/ j \in 1 .. k BY <2>1
  <2>8. \A j \in k + 1 .. N : j = k + 1 \/ j \in (k + 1) + 1 .. N BY <2>1
  <2>9. \A j \in (k + 1) + 1 .. N : j \in k + 1 .. N /\ j # k + 1 /\ j \in 1 .. N BY <2>1
  <2>10. Good(k + 1)
    <3>1. Rows(b)
      <4>1. CASE ~ IsA(msg, {"reply"})
        <5> HIDE DEF a, b, msg
        <5> QED BY <2>3, <2>5, <4>1 DEF Taking, KeepsReads, a
      <4>2. CASE IsA(msg, {"reply"})
        <5>1. AwayRead(a, query)
          <6>1. k + 1 \in k + 1 .. N BY <2>1
          <6> QED BY <2>3, <4>2, <6>1
        <5> HIDE DEF a, b, msg
        <5> QED BY <2>3, <2>5, <2>6, <4>2, <5>1 DEF Taking, a
      <4> QED BY <4>1, <4>2
    <3>2. b \in Models /\ b.epoch /\ b.stoppable = m.stoppable /\ Ends(b)
      <4> HIDE DEF b, msg
      <4> QED BY <2>3, <2>5 DEF Taking
    <3> QED BY <3>1, <3>2
  <2>11. Reads(k + 1)
    <3>1. CASE ~ IsA(msg, {"reply"})
      <4>1. KeepsReads(a, b)
        <5> HIDE DEF a, b, msg
        <5> QED BY <2>5, <3>1 DEF Taking
      <4>2. /\ AwayRead(a, query) => AwayRead(b, query)
            /\ HomeRead(a) => HomeRead(b)
        <5> HIDE DEF a, b
        <5> QED BY <4>1 DEF KeepsReads
      <4>3. CASE /\ AwayRead(a, query) /\ AwayRead(m, query)
                 /\ \A j \in 1 .. k : ~ IsA(msgs[j], {"reply"})
        BY <2>7, <3>1, <4>2, <4>3
      <4>4. CASE /\ HomeRead(a)
                 /\ \A j \in k + 1 .. N : ~ IsA(msgs[j], {"reply"})
                 /\ HomeRead(m) \/ \E j \in 1 .. N : IsA(msgs[j], {"reply"})
        BY <2>9, <4>2, <4>4
      <4> QED BY <2>3, <4>3, <4>4
    <3>2. CASE IsA(msg, {"reply"})
      <4>1. AwayRead(a, query)
        <5>1. k + 1 \in k + 1 .. N BY <2>1
        <5> QED BY <2>3, <3>2, <5>1
      <4>2. HomeRead(b)
        <5>1. Rows(a) BY <2>3
        <5> HIDE DEF a, b, msg
        <5> QED BY <2>5, <2>6, <3>2, <4>1, <5>1 DEF Taking
      <4>3. \A j \in (k + 1) + 1 .. N : ~ IsA(msgs[j], {"reply"})
        BY <2>6, <2>9, <3>2
      <4> QED BY <2>1, <3>2, <4>2, <4>3
    <3> QED BY <3>1, <3>2
  <2>12. Stops(k + 1)
    <3>1. /\ ~ IsA(msg, Completions) => (Owes(b) => Owes(a))
          /\ IsA(msg, Completions) => (Owes(b) => b.exit # None)
          /\ a.exit # None => b.exit # None
      <4> HIDE DEF a, b, msg
      <4> QED BY <2>5 DEF Taking
    <3> QED BY <2>3, <2>7, <3>1
  <2>13. Shows(k + 1)
    <3>1. b.processes = IF IsA(msg, {"processes"}) THEN msg.table ELSE a.processes
      <4> HIDE DEF a, b, msg
      <4> QED BY <2>5 DEF Taking
    <3>2. SUFFICES ASSUME NEW table,
                          m.processes = table \/ \E j \in 1 .. N : IsA(msgs[j], {"processes"}),
                          \A j \in 1 .. N : IsA(msgs[j], {"processes"}) => msgs[j].table = table
                   PROVE  \/ b.processes = table
                          \/ \E j \in (k + 1) + 1 .. N : IsA(msgs[j], {"processes"})
      OBVIOUS
    <3>3. a.processes = table \/ \E j \in k + 1 .. N : IsA(msgs[j], {"processes"})
      BY <2>3, <3>2
    <3>4. IsA(msg, {"processes"}) => msg.table = table BY <2>1, <3>2
    <3> QED BY <2>8, <3>1, <3>3, <3>4
  <2>14. Unasked(k + 1)
    <3>1. IsA(msg, ClientEvents) => b.stopRequested = a.stopRequested
      <4> HIDE DEF a, b, msg
      <4> QED BY <2>5 DEF Taking
    <3>2. msg = None => b = a BY <2>2 DEF Take
    <3> QED BY <2>1, <2>3, <3>1, <3>2
  <2>15. k + 1 \in Nat BY <1>2
  <2> HIDE DEF Good, Reads, Stops, Shows, Unasked
  <2> QED BY <2>10, <2>11, <2>12, <2>13, <2>14, <2>15
<1>5. N \in T
  <2> HIDE DEF T
  <2>1. 0 .. N \subseteq T BY <1>2, <1>3, <1>4, UpTo
  <2> QED BY <1>2, <2>1
<1>6. Good(N) /\ Reads(N) /\ Stops(N) /\ Shows(N) /\ Unasked(N) BY <1>5
<1>7. \A j \in N + 1 .. N : FALSE BY <1>2
<1> DEFINE n == after[N]
<1>8. n \in Models /\ n.epoch /\ n.stoppable = m.stoppable /\ Ends(n) /\ Rows(n) BY <1>6
<1>9. Owes(n) => \/ n.exit # None
                 \/ Owes(m) /\ \A k \in 1 .. N : ~ IsA(msgs[k], Completions)
  BY <1>6
<1>10. \/ /\ AwayRead(n, query) /\ AwayRead(m, query)
          /\ \A k \in 1 .. N : ~ IsA(msgs[k], {"reply"})
       \/ /\ HomeRead(n)
          /\ HomeRead(m) \/ \E k \in 1 .. N : IsA(msgs[k], {"reply"})
  BY <1>6
<1>11. \A table : /\ m.processes = table \/ \E k \in 1 .. N : IsA(msgs[k], {"processes"})
                  /\ \A k \in 1 .. N : IsA(msgs[k], {"processes"}) => msgs[k].table = table
                  => n.processes = table
  BY <1>6, <1>7
<1>12. (\A k \in 1 .. N : IsA(msgs[k], ClientEvents) \/ msgs[k] = None)
         => n.stopRequested = m.stopRequested
  BY <1>6
<1>13. Reduced(m, msgs) = n BY <1>1
<1> HIDE DEF n, Good, Reads, Stops, Shows, Unasked, T
<1> QED BY <1>8, <1>9, <1>10, <1>11, <1>12, <1>13 DEF Passed

(***************************************************************************)
(* The mailbox: each slot has the last input that went to it, if one did.  *)
(***************************************************************************)
SlotNames == {"connection", "processes", "changed", "reply", "completion", "supervisor"}
Controls  == {"interrupt", "terminate"}

Goes(msg, s) == msg.kind \notin Controls \cup {"epoch"} /\ SlotOf(msg) = s

Boxes == [epoch : BOOLEAN, epochPending : BOOLEAN,
          slots : [SlotNames -> Message \cup {None}], controls : Seq(Message)]

\* The mailbox after so many of the inputs.
Boxed(box, inputs, k) ==
  /\ box \in Boxes /\ box.epoch
  /\ \A s \in SlotNames :
       \/ box.slots[s] = None /\ \A j \in 1 .. k : ~ Goes(inputs[j], s)
       \/ \E i \in 1 .. k : /\ box.slots[s] = inputs[i] /\ Goes(inputs[i], s)
                            /\ \A j \in i + 1 .. k : ~ Goes(inputs[j], s)
  /\ \A i \in 1 .. Len(box.controls) :
       \E j \in 1 .. k : box.controls[i] = inputs[j] /\ inputs[j].kind \in Controls

\* The slots by their names.
LEMMA SlotsNamed ==
  /\ DOMAIN Slots = 1 .. 6 /\ ToSet(Slots) = SlotNames
  /\ Slots[1] = "connection" /\ Slots[2] = "processes" /\ Slots[3] = "changed"
  /\ Slots[4] = "reply" /\ Slots[5] = "completion" /\ Slots[6] = "supervisor"
<1>1. DOMAIN Slots = 1 .. 6 BY DEF Slots
<1>2. ToSet(Slots) = {Slots[i] : i \in 1 .. 6} BY <1>1 DEF ToSet
<1>3. 1 .. 6 = {1, 2, 3, 4, 5, 6} OBVIOUS
<1>4. /\ Slots[1] = "connection" /\ Slots[2] = "processes" /\ Slots[3] = "changed"
      /\ Slots[4] = "reply" /\ Slots[5] = "completion" /\ Slots[6] = "supervisor"
  BY DEF Slots
<1> HIDE DEF Slots
<1> QED BY <1>1, <1>2, <1>3, <1>4 DEF SlotNames

\* Every message but an epoch and a control goes to one slot.
LEMMA GoesToOne ==
  ASSUME NEW msg \in Message
  PROVE  /\ msg.kind \notin Controls \cup {"epoch"} => SlotOf(msg) \in SlotNames
         /\ Goes(msg, "processes") <=> msg.kind = "processes"
         /\ Goes(msg, "reply") <=> msg.kind = "reply"
         /\ Goes(msg, "completion") <=> msg.kind \in Completions
         /\ Goes(msg, "connection") => msg.kind \in {"connected", "lost"}
         /\ Goes(msg, "changed") => msg.kind = "changed"
         /\ Goes(msg, "supervisor") => msg.kind \in {"supervisor-stopped", "supervisor-failed"}
<1>1. msg.kind \in {"epoch", "connected", "lost", "changed", "stopped", "stop-failed",
                    "supervisor-stopped", "supervisor-failed", "interrupt", "terminate",
                    "processes", "reply"}
  BY DEF Message
<1>2. CASE msg.kind \in {"connected", "lost"}
  <2>1. SlotOf(msg) = "connection" BY <1>2 DEF SlotOf
  <2> QED BY <1>2, <2>1 DEF Goes, SlotNames, Completions
<1>3. CASE msg.kind \in {"processes", "changed", "reply"}
  <2>1. SlotOf(msg) = msg.kind BY <1>3 DEF SlotOf
  <2> QED BY <1>3, <2>1 DEF Goes, SlotNames, Completions, Controls
<1>4. CASE msg.kind \in {"stopped", "stop-failed"}
  <2>1. SlotOf(msg) = "completion" BY <1>4 DEF SlotOf
  <2> QED BY <1>4, <2>1 DEF Goes, SlotNames, Completions, Controls
<1>5. CASE msg.kind \in {"supervisor-stopped", "supervisor-failed"}
  <2>1. SlotOf(msg) = "supervisor" BY <1>5 DEF SlotOf
  <2> QED BY <1>5, <2>1 DEF Goes, SlotNames, Completions, Controls
<1>6. CASE msg.kind \in {"epoch", "interrupt", "terminate"}
  BY <1>6 DEF Goes, Controls, Completions
<1> QED BY <1>1, <1>2, <1>3, <1>4, <1>5, <1>6

\* One more input of an execution whose epoch is known.
LEMMA PushKeeps ==
  ASSUME NEW inputs \in Seq(Message), NEW k \in Nat, k + 1 \in 1 .. Len(inputs),
         NEW box, Boxed(box, inputs, k), inputs[k + 1].kind # "epoch"
  PROVE  /\ Boxed(Push(box, inputs[k + 1]), inputs, k + 1)
         /\ Push(box, inputs[k + 1]).epochPending = box.epochPending
<1> DEFINE msg == inputs[k + 1]
           b == Push(box, msg)
<1>0. msg \in Message OBVIOUS
<1>1. box \in Boxes /\ box.epoch BY DEF Boxed
<1>2. \A j \in 1 .. k + 1 : j = k + 1 \/ j \in 1 .. k OBVIOUS
<1>3. CASE msg.kind \in Controls
  <2>1. b = PushControl(box, msg) BY <1>3 DEF Push, Controls
  <2>2. b.slots = box.slots /\ b.epoch = box.epoch /\ b.epochPending = box.epochPending
        /\ b \in Boxes /\ (b.controls = box.controls \/ b.controls = Append(box.controls, msg))
    <3> DEFINE controls == Append(box.controls, msg)
               x == [box EXCEPT !.controls = controls]
    <3>1. b = box \/ b = x BY <2>1 DEF PushControl
    <3>2. controls \in Seq(Message) BY <1>0, <1>1 DEF Boxes
    <3> HIDE DEF controls
    <3>3. x \in Boxes BY <1>1, <3>2 DEF Boxes
    <3>4. /\ x.slots = box.slots /\ x.epoch = box.epoch /\ x.epochPending = box.epochPending
          /\ x.controls = controls
      BY <1>1 DEF Boxes
    <3> HIDE DEF x, b
    <3> QED BY <1>1, <3>1, <3>3, <3>4 DEF controls
  <2>3. \A i \in 1 .. Len(b.controls) :
          \E j \in 1 .. k + 1 : b.controls[i] = inputs[j] /\ inputs[j].kind \in Controls
    <3>0. box.controls \in Seq(Message) BY <1>1 DEF Boxes
    <3>1. \A i \in 1 .. Len(box.controls) :
            \E j \in 1 .. k : box.controls[i] = inputs[j] /\ inputs[j].kind \in Controls
      BY DEF Boxed
    <3>4. k + 1 \in 1 .. k + 1 /\ \A j \in 1 .. k : j \in 1 .. k + 1 OBVIOUS
    <3>2. CASE b.controls = box.controls BY <3>1, <3>2, <3>4
    <3>3. CASE b.controls = Append(box.controls, msg)
      <4> DEFINE n == Len(box.controls)
      <4>1. Len(b.controls) = n + 1 /\ n \in Nat /\ b.controls[n + 1] = msg
            /\ \A i \in 1 .. n : b.controls[i] = box.controls[i]
        BY <3>0, <3>3, Appended
      <4>2. \A i \in 1 .. n + 1 : i = n + 1 \/ i \in 1 .. n BY <4>1
      <4>3. b.controls[n + 1] = inputs[k + 1] /\ inputs[k + 1].kind \in Controls BY <1>3, <4>1
      <4>4. ASSUME NEW i \in 1 .. n
            PROVE  \E j \in 1 .. k + 1 : b.controls[i] = inputs[j] /\ inputs[j].kind \in Controls
        <5>1. b.controls[i] = box.controls[i] BY <4>1
        <5> HIDE DEF b
        <5> QED BY <3>1, <3>4, <5>1
      <4> HIDE DEF b
      <4> QED BY <3>4, <4>1, <4>2, <4>3, <4>4
    <3> QED BY <2>2, <3>2, <3>3
  <2>4. \A s \in SlotNames : ~ Goes(msg, s) BY <1>3 DEF Goes
  <2> HIDE DEF b
  <2>5. ASSUME NEW s \in SlotNames
        PROVE  \/ b.slots[s] = None /\ \A j \in 1 .. k + 1 : ~ Goes(inputs[j], s)
               \/ \E i \in 1 .. k + 1 : /\ b.slots[s] = inputs[i] /\ Goes(inputs[i], s)
                                        /\ \A j \in i + 1 .. k + 1 : ~ Goes(inputs[j], s)
    <3>1. CASE box.slots[s] = None /\ \A j \in 1 .. k : ~ Goes(inputs[j], s)
      BY <1>2, <2>2, <2>4, <3>1
    <3>2. CASE \E i \in 1 .. k : /\ box.slots[s] = inputs[i] /\ Goes(inputs[i], s)
                                 /\ \A j \in i + 1 .. k : ~ Goes(inputs[j], s)
      <4>1. PICK i \in 1 .. k : /\ box.slots[s] = inputs[i] /\ Goes(inputs[i], s)
                                /\ \A j \in i + 1 .. k : ~ Goes(inputs[j], s)
        BY <3>2
      <4>2. \A j \in i + 1 .. k + 1 : j = k + 1 \/ j \in i + 1 .. k OBVIOUS
      <4>3. i \in 1 .. k + 1 OBVIOUS
      <4> QED BY <2>2, <2>4, <4>1, <4>2, <4>3
    <3> QED BY <3>1, <3>2 DEF Boxed
  <2> QED BY <1>1, <2>2, <2>3, <2>5 DEF Boxed, b
<1>4. CASE msg.kind \notin Controls
  <2> DEFINE to == SlotOf(msg)
             slots == [box.slots EXCEPT ![to] = msg]
             x == [box EXCEPT !.slots = slots]
  <2>0. to \in SlotNames BY <1>0, <1>4, GoesToOne
  <2>1. b = x BY <1>1, <1>4 DEF Push, Controls
  <2>2. box.slots \in [SlotNames -> Message \cup {None}] BY <1>1 DEF Boxes
  <2>3. slots \in [SlotNames -> Message \cup {None}] BY <1>0, <2>2
  <2>4. \A s \in SlotNames : slots[s] = IF s = to THEN msg ELSE box.slots[s] BY <2>2
  <2>5. \A s \in SlotNames : Goes(msg, s) <=> s = to BY <1>4 DEF Goes
  <2> HIDE DEF slots, to
  <2>6. x \in Boxes BY <1>1, <2>3 DEF Boxes
  <2>7. /\ x.slots = slots /\ x.epoch = box.epoch /\ x.epochPending = box.epochPending
        /\ x.controls = box.controls
    BY <1>1 DEF Boxes
  <2> HIDE DEF x, b
  <2>8. ASSUME NEW s \in SlotNames
        PROVE  \/ x.slots[s] = None /\ \A j \in 1 .. k + 1 : ~ Goes(inputs[j], s)
               \/ \E i \in 1 .. k + 1 : /\ x.slots[s] = inputs[i] /\ Goes(inputs[i], s)
                                        /\ \A j \in i + 1 .. k + 1 : ~ Goes(inputs[j], s)
    <3>0. CASE s = to
      <4>1. \A j \in (k + 1) + 1 .. k + 1 : FALSE OBVIOUS
      <4>2. k + 1 \in 1 .. k + 1 OBVIOUS
      <4> QED BY <2>4, <2>5, <2>7, <3>0, <4>1, <4>2
    <3>1. CASE s # to /\ box.slots[s] = None /\ \A j \in 1 .. k : ~ Goes(inputs[j], s)
      BY <1>2, <2>4, <2>5, <2>7, <3>1
    <3>2. CASE s # to /\ \E i \in 1 .. k : /\ box.slots[s] = inputs[i] /\ Goes(inputs[i], s)
                                 /\ \A j \in i + 1 .. k : ~ Goes(inputs[j], s)
      <4>1. PICK i \in 1 .. k : /\ box.slots[s] = inputs[i] /\ Goes(inputs[i], s)
                                /\ \A j \in i + 1 .. k : ~ Goes(inputs[j], s)
        BY <3>2
      <4>2. \A j \in i + 1 .. k + 1 : j = k + 1 \/ j \in i + 1 .. k OBVIOUS
      <4>3. i \in 1 .. k + 1 OBVIOUS
      <4>4. x.slots[s] = inputs[i] BY <2>4, <2>7, <3>2, <4>1
      <4>5. \A j \in i + 1 .. k + 1 : ~ Goes(inputs[j], s) BY <2>5, <3>2, <4>1, <4>2
      <4> QED BY <4>1, <4>3, <4>4, <4>5
    <3> QED BY <3>0, <3>1, <3>2 DEF Boxed
  <2>9. \A i \in 1 .. Len(x.controls) :
          \E j \in 1 .. k + 1 : x.controls[i] = inputs[j] /\ inputs[j].kind \in Controls
    <3>1. \A j \in 1 .. k : j \in 1 .. k + 1 OBVIOUS
    <3> QED BY <2>7, <3>1 DEF Boxed
  <2> QED BY <1>1, <2>1, <2>6, <2>7, <2>8, <2>9 DEF Boxed, b
<1> QED BY <1>3, <1>4

\* The mailbox has a content for every prefix of its inputs.
LEMMA PushedAfter ==
  ASSUME NEW box, NEW S, NEW inputs \in Seq(S)
  PROVE  \E after : /\ after[0] = box
                    /\ \A k \in 1 .. Len(inputs) : after[k] = Push(after[k - 1], inputs[k])
                    /\ Pushed(box, inputs) = after[Len(inputs)]
<1> DEFINE N == Len(inputs)
           Is(f, n) == f = [k \in 0 .. n |-> IF k = 0 THEN box ELSE Push(f[k - 1], inputs[k])]
           T == {n \in Nat : \E f : Is(f, n)}
<1>1. N \in Nat OBVIOUS
<1>2. 0 \in T
  <2>1. Is([k \in 0 .. 0 |-> box], 0) OBVIOUS
  <2> QED BY <2>1
<1>3. ASSUME NEW n \in 0 .. N - 1, n \in T PROVE n + 1 \in T
  <2>1. PICK f : Is(f, n) BY <1>3
  <2> DEFINE g == [k \in 0 .. n + 1 |-> IF k = n + 1 THEN Push(f[n], inputs[k]) ELSE f[k]]
  <2>2. ASSUME NEW k \in 0 .. n + 1
        PROVE  g[k] = IF k = 0 THEN box ELSE Push(g[k - 1], inputs[k])
    <3>1. CASE k = 0 BY <2>1, <3>1
    <3>2. CASE k = n + 1 BY <3>2
    <3>3. CASE k \in 1 .. n
      <4>1. g[k] = f[k] /\ g[k - 1] = f[k - 1] BY <3>3
      <4>2. f[k] = Push(f[k - 1], inputs[k]) BY <2>1, <3>3
      <4> QED BY <3>3, <4>1, <4>2
    <3> QED BY <3>1, <3>2, <3>3
  <2>3. g = [k \in 0 .. n + 1 |-> g[k]] OBVIOUS
  <2> HIDE DEF g
  <2>4. Is(g, n + 1) BY <2>2, <2>3
  <2> QED BY <1>3, <2>4
<1>4. N \in T
  <2> HIDE DEF T
  <2>1. 0 .. N \subseteq T BY <1>1, <1>2, <1>3, UpTo
  <2> QED BY <1>1, <2>1
<1> DEFINE f0 == CHOOSE f : Is(f, N)
<1>5. Is(f0, N) BY <1>4
<1>6. Pushed(box, inputs) = f0[N] BY DEF Pushed
<1> HIDE DEF f0
<1>7. f0[0] = box /\ \A k \in 1 .. N : f0[k] = Push(f0[k - 1], inputs[k]) BY <1>1, <1>5
<1> QED BY <1>6, <1>7

\* Once the epoch is in the mailbox every input that follows is.
LEMMA BoxedOn ==
  ASSUME NEW inputs \in Seq(Message), NEW after, NEW b \in 0 .. Len(inputs),
         \A k \in 1 .. Len(inputs) : after[k] = Push(after[k - 1], inputs[k]),
         Boxed(after[b], inputs, b),
         \A k \in b + 1 .. Len(inputs) : inputs[k].kind # "epoch"
  PROVE  /\ Boxed(after[Len(inputs)], inputs, Len(inputs))
         /\ after[Len(inputs)].epochPending = after[b].epochPending
<1> DEFINE N == Len(inputs)
           T == {k \in Nat : k >= b => /\ Boxed(after[k], inputs, k)
                                       /\ after[k].epochPending = after[b].epochPending}
<1>1. N \in Nat /\ b \in Nat OBVIOUS
<1>2. 0 \in T
  <2>1. 0 >= b => b = 0 BY <1>1
  <2> QED BY <2>1
<1>3. ASSUME NEW k \in 0 .. N - 1, k \in T PROVE k + 1 \in T
  <2>1. k + 1 \in 1 .. N /\ (k + 1) - 1 = k /\ k \in Nat /\ k + 1 \in Nat BY <1>1
  <2>2. CASE k + 1 < b BY <1>1, <2>1, <2>2
  <2>3. CASE k + 1 = b
    <3> QED BY <2>1, <2>3
  <2>4. CASE k >= b
    <3>1. Boxed(after[k], inputs, k) /\ after[k].epochPending = after[b].epochPending
      BY <1>3, <2>4
    <3>2. inputs[k + 1].kind # "epoch" BY <1>1, <2>1, <2>4
    <3>3. after[k + 1] = Push(after[k], inputs[k + 1]) BY <2>1
    <3>4. /\ Boxed(after[k + 1], inputs, k + 1)
          /\ after[k + 1].epochPending = after[k].epochPending
      BY <2>1, <3>1, <3>2, <3>3, PushKeeps
    <3> QED BY <2>1, <3>1, <3>4
  <2> QED BY <1>1, <2>1, <2>2, <2>3, <2>4
<1>4. N \in T
  <2> HIDE DEF T
  <2>1. 0 .. N \subseteq T BY <1>1, <1>2, <1>3, UpTo
  <2> QED BY <1>1, <2>1
<1> QED BY <1>1, <1>4

\* An empty mailbox, and one whose epoch is known.
LEMMA EmptyBoxes ==
  /\ EmptySlots \in [SlotNames -> {None}]
  /\ NewMailbox \in Boxes /\ NewMailbox.slots = EmptySlots /\ NewMailbox.controls = <<>>
  /\ ~ NewMailbox.epochPending
  /\ [NewMailbox EXCEPT !.epoch = TRUE] \in Boxes
  /\ [NewMailbox EXCEPT !.epoch = TRUE].slots = EmptySlots
  /\ [NewMailbox EXCEPT !.epoch = TRUE].controls = <<>>
  /\ [NewMailbox EXCEPT !.epoch = TRUE].epoch
  /\ ~ [NewMailbox EXCEPT !.epoch = TRUE].epochPending
<1>1. EmptySlots \in [SlotNames -> {None}] BY SlotsNamed DEF EmptySlots
<1>2. EmptySlots \in [SlotNames -> Message \cup {None}] BY <1>1
<1>3. NewMailbox = [epoch |-> FALSE, epochPending |-> FALSE, slots |-> EmptySlots,
                    controls |-> <<>>]
  BY DEF NewMailbox
<1>4. <<>> \in Seq(Message) OBVIOUS
<1> HIDE DEF EmptySlots
<1>5. NewMailbox \in Boxes BY <1>2, <1>3, <1>4 DEF Boxes
<1>6. NewMailbox.slots = EmptySlots /\ NewMailbox.controls = <<>> /\ ~ NewMailbox.epochPending
  BY <1>3
<1> DEFINE x == [NewMailbox EXCEPT !.epoch = TRUE]
<1>7. x \in Boxes BY <1>5 DEF Boxes
<1>8. /\ x.slots = NewMailbox.slots /\ x.controls = NewMailbox.controls /\ x.epoch
      /\ x.epochPending = NewMailbox.epochPending
  BY <1>5 DEF Boxes
<1> QED BY <1>1, <1>5, <1>6, <1>7, <1>8

\* All the inputs of a pass.
LEMMA BoxedAll ==
  ASSUME NEW inputs \in Seq(Message), NEW knows \in BOOLEAN,
         \/ knows /\ \A k \in 1 .. Len(inputs) : inputs[k].kind # "epoch"
         \/ /\ ~ knows /\ inputs # <<>> /\ inputs[1].kind = "epoch"
            /\ \A k \in 2 .. Len(inputs) : inputs[k].kind # "epoch"
  PROVE  LET full == Pushed([NewMailbox EXCEPT !.epoch = knows], inputs)
         IN  Boxed(full, inputs, Len(inputs)) /\ (full.epochPending <=> ~ knows)
<1> DEFINE N == Len(inputs)
           box == [NewMailbox EXCEPT !.epoch = knows]
<1>0. N \in Nat OBVIOUS
<1>1. PICK after : /\ after[0] = box
                   /\ \A k \in 1 .. N : after[k] = Push(after[k - 1], inputs[k])
                   /\ Pushed(box, inputs) = after[N]
  BY PushedAfter
<1>2. CASE knows /\ \A k \in 1 .. N : inputs[k].kind # "epoch"
  <2>1. box = [NewMailbox EXCEPT !.epoch = TRUE] BY <1>2
  <2>2. /\ box \in Boxes /\ box.slots = EmptySlots /\ box.controls = <<>>
        /\ box.epoch /\ ~ box.epochPending
    BY <2>1, EmptyBoxes
  <2> HIDE DEF box
  <2>3. \A s \in SlotNames : box.slots[s] = None BY <2>2, EmptyBoxes
  <2>4. \A j \in 1 .. 0 : FALSE OBVIOUS
  <2>5. \A i \in 1 .. Len(box.controls) : FALSE BY <2>2
  <2>6. Boxed(box, inputs, 0) BY <2>2, <2>3, <2>4, <2>5 DEF Boxed
  <2>7. 0 \in 0 .. N /\ \A k \in 0 + 1 .. N : inputs[k].kind # "epoch" BY <1>0, <1>2
  <2>8. Boxed(after[N], inputs, N) /\ after[N].epochPending = after[0].epochPending
    BY <1>1, <2>6, <2>7, BoxedOn
  <2> QED BY <1>1, <1>2, <2>2, <2>8 DEF box
<1>3. CASE /\ ~ knows /\ inputs # <<>> /\ inputs[1].kind = "epoch"
           /\ \A k \in 2 .. N : inputs[k].kind # "epoch"
  <2>1. 1 \in 0 .. N /\ 1 \in 1 .. N BY <1>3
  <2>2. box \in Boxes /\ box.slots = EmptySlots /\ box.controls = <<>>
    <3>1. NewMailbox.epoch = FALSE BY DEF NewMailbox
    <3>2. box = NewMailbox BY <1>3, <3>1, EmptyBoxes DEF Boxes
    <3> QED BY <3>2, EmptyBoxes
  <2> HIDE DEF box
  <2> DEFINE slots == [EmptySlots EXCEPT !["connection"] = box.slots["connection"]]
             x == [box EXCEPT !.epoch = TRUE, !.epochPending = TRUE, !.slots = slots]
  <2>3. after[1] = x
    <3>1. after[1] = Push(after[0], inputs[1]) BY <1>1, <2>1
    <3> QED BY <1>1, <1>3, <3>1 DEF Push, box
  <2>4. slots \in [SlotNames -> {None}] BY <2>2, EmptyBoxes DEF SlotNames
  <2> HIDE DEF slots
  <2>5. slots \in [SlotNames -> Message \cup {None}] BY <2>4
  <2>6. x \in Boxes BY <2>2, <2>5 DEF Boxes
  <2>7. x.slots = slots /\ x.controls = <<>> /\ x.epoch /\ x.epochPending
    BY <2>2 DEF Boxes
  <2> HIDE DEF x
  <2>8. \A s \in SlotNames : x.slots[s] = None BY <2>4, <2>7
  <2>9. \A s \in SlotNames : ~ Goes(inputs[1], s) BY <1>3 DEF Goes
  <2>10. \A j \in 1 .. 1 : j = 1 OBVIOUS
  <2>11. \A i \in 1 .. Len(x.controls) : FALSE BY <2>7
  <2>12. Boxed(x, inputs, 1) BY <2>6, <2>7, <2>8, <2>9, <2>10, <2>11 DEF Boxed
  <2>13. \A k \in 1 + 1 .. N : inputs[k].kind # "epoch" BY <1>3
  <2>14. Boxed(after[N], inputs, N) /\ after[N].epochPending = after[1].epochPending
    BY <1>1, <2>1, <2>3, <2>12, <2>13, BoxedOn
  <2> QED BY <1>1, <1>3, <2>3, <2>7, <2>14 DEF box
<1> QED BY <1>2, <1>3

(***************************************************************************)
(* What the mailbox hands to the reducer.                                  *)
(***************************************************************************)
\* The epoch if one arrived, the slots, the controls.
LEMMA DrainedShape ==
  ASSUME NEW box \in Boxes
  PROVE  LET e == IF box.epochPending THEN 1 ELSE 0
             d == Drained(box)
             n == Len(box.controls)
         IN  /\ d \in Seq(Message \cup {None}) /\ Len(d) = e + 6 + n /\ n \in Nat
             /\ box.epochPending => d[1] = [kind |-> "epoch"]
             /\ \A i \in 1 .. 6 : d[e + i] = box.slots[Slots[i]]
             /\ \A i \in 1 .. n : d[e + 6 + i] = box.controls[i]
             /\ \A k \in 1 .. Len(d) :
                  \/ k = 1 /\ box.epochPending
                  \/ \E i \in 1 .. 6 : k = e + i
                  \/ \E i \in 1 .. n : k = e + 6 + i
<1> DEFINE e == IF box.epochPending THEN 1 ELSE 0
           n == Len(box.controls)
           first == IF box.epochPending THEN <<[kind |-> "epoch"]>> ELSE <<>>
           middle == [k \in DOMAIN Slots |-> box.slots[Slots[k]]]
           S == Message \cup {None}
<1>1. Drained(box) = (first \o middle) \o box.controls BY DEF Drained
<1>2. first \in Seq(S) /\ Len(first) = e /\ (box.epochPending => first[1] = [kind |-> "epoch"])
  <2>1. [kind |-> "epoch"] \in S BY DEF Message
  <2> HIDE DEF S
  <2>2. CASE box.epochPending BY <2>1, <2>2
  <2>3. CASE ~ box.epochPending BY <2>3
  <2> QED BY <2>2, <2>3
<1>3. box.slots \in [SlotNames -> S] /\ box.controls \in Seq(S) BY DEF Boxes
<1>4. middle = [k \in 1 .. 6 |-> box.slots[Slots[k]]] BY SlotsNamed
<1>5. \A k \in 1 .. 6 : Slots[k] \in SlotNames
  <2>1. \A k \in 1 .. 6 : k \in {1, 2, 3, 4, 5, 6} OBVIOUS
  <2> QED BY <2>1, SlotsNamed DEF SlotNames
<1>6. middle \in Seq(S) /\ Len(middle) = 6 /\ \A k \in 1 .. 6 : middle[k] = box.slots[Slots[k]]
  <2>1. \A k \in 1 .. 6 : box.slots[Slots[k]] \in S BY <1>3, <1>5
  <2> HIDE DEF S
  <2> QED BY <1>4, <2>1
<1> HIDE DEF first, middle
<1> DEFINE two == first \o middle
<1>7. /\ two \in Seq(S) /\ Len(two) = e + 6
      /\ \A k \in 1 .. e : two[k] = first[k]
      /\ \A k \in 1 .. 6 : two[e + k] = middle[k]
  <2>1. /\ Len(first \o middle) = Len(first) + Len(middle)
        /\ \A k \in 1 .. Len(first) : (first \o middle)[k] = first[k]
        /\ \A k \in 1 .. Len(middle) : (first \o middle)[Len(first) + k] = middle[k]
        /\ first \o middle \in Seq(S)
    <3>1. first \in Seq(S) /\ middle \in Seq(S) BY <1>2, <1>6
    <3> HIDE DEF S
    <3> QED BY <3>1, Joined
  <2> HIDE DEF S, e
  <2> QED BY <1>2, <1>6, <2>1
<1> HIDE DEF two
<1> DEFINE d == two \o box.controls
<1>8. /\ d \in Seq(S) /\ Len(d) = e + 6 + n /\ n \in Nat
      /\ \A k \in 1 .. e + 6 : d[k] = two[k]
      /\ \A k \in 1 .. n : d[e + 6 + k] = box.controls[k]
  <2>1. /\ Len(two \o box.controls) = Len(two) + n /\ n \in Nat
        /\ \A k \in 1 .. Len(two) : (two \o box.controls)[k] = two[k]
        /\ \A k \in 1 .. n : (two \o box.controls)[Len(two) + k] = box.controls[k]
        /\ two \o box.controls \in Seq(S)
    <3>1. two \in Seq(S) /\ box.controls \in Seq(S) BY <1>3, <1>7
    <3> HIDE DEF S
    <3> QED BY <3>1, Joined
  <2> HIDE DEF S, e
  <2> QED BY <1>7, <2>1
<1>9. Drained(box) = d BY <1>1 DEF two
<1> HIDE DEF d
<1>10. e \in {0, 1} OBVIOUS
<1>11. box.epochPending => d[1] = [kind |-> "epoch"]
  <2>1. box.epochPending => e = 1 OBVIOUS
  <2> HIDE DEF e
  <2> QED BY <1>2, <1>7, <1>8, <2>1
<1>12. ASSUME NEW i \in 1 .. 6 PROVE d[e + i] = box.slots[Slots[i]]
  <2>1. e + i \in 1 .. e + 6 BY <1>10
  <2> HIDE DEF e
  <2> QED BY <1>6, <1>7, <1>8, <2>1
<1>13. ASSUME NEW k \in 1 .. Len(d)
       PROVE  \/ k = 1 /\ box.epochPending
              \/ \E i \in 1 .. 6 : k = e + i
              \/ \E i \in 1 .. n : k = e + 6 + i
  <2>1. e = 1 => box.epochPending OBVIOUS
  <2> HIDE DEF e
  <2>2. CASE k <= e BY <1>10, <2>1, <2>2
  <2>3. CASE k > e /\ k <= e + 6
    <3>1. k - e \in 1 .. 6 /\ k = e + (k - e) BY <1>10, <2>3
    <3> QED BY <3>1
  <2>4. CASE k > e + 6
    <3>1. Len(d) = e + 6 + n /\ n \in Nat /\ e \in Int BY <1>8, <1>10
    <3> HIDE DEF n
    <3>2. k - (e + 6) \in 1 .. n /\ k = e + 6 + (k - (e + 6)) BY <2>4, <3>1
    <3> QED BY <3>2
  <2> QED BY <1>10, <2>2, <2>3, <2>4
<1> QED BY <1>8, <1>9, <1>11, <1>12, <1>13

\* A message that is drained has arrived, and is the last of its slot; and a
\* slot something arrived for is not empty.
LEMMA DrainedInputs ==
  ASSUME NEW inputs \in Seq(Message), NEW box, Boxed(box, inputs, Len(inputs))
  PROVE  LET d == Drained(box)
         IN  /\ d \in Seq(Message \cup {None})
             /\ box.epochPending => 1 \in 1 .. Len(d) /\ d[1] = [kind |-> "epoch"]
             /\ \A k \in 1 .. Len(d) :
                  \/ d[k] = None
                  \/ k = 1 /\ box.epochPending
                  \/ /\ \E j \in 1 .. Len(inputs) : d[k] = inputs[j]
                     /\ d[k].kind # "epoch"
             /\ \A k, j \in 1 .. Len(d) :
                  IsA(d[k], {"reply"}) /\ IsA(d[j], {"reply"}) => j = k
             /\ \A kinds \in {{"reply"}, Completions, {"processes"}} :
                  ~ NoKind(inputs, kinds) => \E k \in 1 .. Len(d) : IsA(d[k], kinds)
             /\ \A x : x.kind = "processes" /\ LastOf(inputs, x, {"processes"}) =>
                  \A k \in 1 .. Len(d) : IsA(d[k], {"processes"}) => d[k] = x
<1> DEFINE e == IF box.epochPending THEN 1 ELSE 0
           d == Drained(box)
           n == Len(box.controls)
           N == Len(inputs)
<1>0. box \in Boxes /\ N \in Nat /\ e \in {0, 1} BY DEF Boxed
<1>1. /\ d \in Seq(Message \cup {None}) /\ Len(d) = e + 6 + n /\ n \in Nat
      /\ box.epochPending => d[1] = [kind |-> "epoch"]
      /\ \A i \in 1 .. 6 : d[e + i] = box.slots[Slots[i]]
      /\ \A i \in 1 .. n : d[e + 6 + i] = box.controls[i]
      /\ \A k \in 1 .. Len(d) :
           \/ k = 1 /\ box.epochPending
           \/ \E i \in 1 .. 6 : k = e + i
           \/ \E i \in 1 .. n : k = e + 6 + i
  BY <1>0, DrainedShape
<1> HIDE DEF e, d, n
<1>2. \A s \in SlotNames :
        \/ box.slots[s] = None /\ \A j \in 1 .. N : ~ Goes(inputs[j], s)
        \/ \E i \in 1 .. N : /\ box.slots[s] = inputs[i] /\ Goes(inputs[i], s)
                             /\ \A j \in i + 1 .. N : ~ Goes(inputs[j], s)
  BY DEF Boxed
<1>3. \A i \in 1 .. n : \E j \in 1 .. N : box.controls[i] = inputs[j] /\ inputs[j].kind \in Controls
  BY DEF Boxed, n
<1>4. \A i \in 1 .. 6 : Slots[i] \in SlotNames
  <2>1. \A i \in 1 .. 6 : i \in {1, 2, 3, 4, 5, 6} OBVIOUS
  <2> QED BY <2>1, SlotsNamed DEF SlotNames
<1>5. \A j \in 1 .. N : inputs[j] \in Message /\ inputs[j] # None BY NoneAssumption
<1>6. ASSUME NEW k \in 1 .. Len(d), k # 1 \/ ~ box.epochPending
      PROVE  \/ \E i \in 1 .. 6 : /\ k = e + i
                                  /\ \/ d[k] = None
                                     \/ \E j \in 1 .. N : /\ d[k] = inputs[j] /\ Goes(inputs[j], Slots[i])
                                                          /\ \A l \in j + 1 .. N : ~ Goes(inputs[l], Slots[i])
             \/ \E j \in 1 .. N : d[k] = inputs[j] /\ inputs[j].kind \in Controls
  <2>1. CASE \E i \in 1 .. 6 : k = e + i
    <3>1. PICK i \in 1 .. 6 : k = e + i BY <2>1
    <3>2. d[k] = box.slots[Slots[i]] BY <1>1, <3>1
    <3>3. \/ box.slots[Slots[i]] = None
          \/ \E j \in 1 .. N : /\ box.slots[Slots[i]] = inputs[j] /\ Goes(inputs[j], Slots[i])
                               /\ \A l \in j + 1 .. N : ~ Goes(inputs[l], Slots[i])
      BY <1>2, <1>4
    <3> HIDE DEF N
    <3> QED BY <3>1, <3>2, <3>3
  <2>2. CASE \E i \in 1 .. n : k = e + 6 + i
    <3>1. PICK i \in 1 .. n : k = e + 6 + i BY <2>2
    <3>2. d[k] = box.controls[i] BY <1>1, <3>1
    <3> QED BY <1>3, <3>2
  <2> QED BY <1>1, <1>6, <2>1, <2>2
<1>7. ASSUME NEW k \in 1 .. Len(d)
      PROVE  \/ d[k] = None
             \/ k = 1 /\ box.epochPending
             \/ /\ \E j \in 1 .. N : d[k] = inputs[j]
                /\ d[k].kind # "epoch"
  BY <1>6 DEF Goes, Controls
<1>8. ASSUME NEW k \in 1 .. Len(d), NEW kinds \in {{"reply"}, {"processes"}}, IsA(d[k], kinds)
      PROVE  /\ k = e + (IF kinds = {"reply"} THEN 4 ELSE 2)
             /\ \E j \in 1 .. N : /\ d[k] = inputs[j] /\ inputs[j].kind \in kinds
                                  /\ \A l \in j + 1 .. N : inputs[l].kind \notin kinds
  <2>1. d[k] # None /\ d[k].kind \in {"reply", "processes"} BY <1>8 DEF IsA
  <2>2. k # 1 \/ ~ box.epochPending BY <1>1, <2>1
  <2>3. ~ \E j \in 1 .. N : d[k] = inputs[j] /\ inputs[j].kind \in Controls
    BY <2>1 DEF Controls
  <2>4. PICK i \in 1 .. 6 : /\ k = e + i
                            /\ \E j \in 1 .. N : /\ d[k] = inputs[j] /\ Goes(inputs[j], Slots[i])
                                                 /\ \A l \in j + 1 .. N : ~ Goes(inputs[l], Slots[i])
    BY <1>6, <2>1, <2>2, <2>3
  <2>5. PICK j \in 1 .. N : /\ d[k] = inputs[j] /\ Goes(inputs[j], Slots[i])
                            /\ \A l \in j + 1 .. N : ~ Goes(inputs[l], Slots[i])
    BY <2>4
  <2>6. Slots[i] = d[k].kind
    <3>1. SlotOf(inputs[j]) = inputs[j].kind BY <2>1, <2>5 DEF SlotOf
    <3> QED BY <2>5, <3>1 DEF Goes
  <2>7. i \in {1, 2, 3, 4, 5, 6} OBVIOUS
  <2>8. i = IF kinds = {"reply"} THEN 4 ELSE 2
    BY <1>8, <2>1, <2>6, <2>7, SlotsNamed DEF IsA
  <2>9. \A l \in 1 .. N : Goes(inputs[l], Slots[i]) <=> inputs[l].kind \in kinds
    BY <1>5, <1>8, <2>1, <2>6, GoesToOne DEF IsA
  <2>10. \A l \in j + 1 .. N : l \in 1 .. N BY <1>0
  <2> QED BY <2>4, <2>5, <2>8, <2>9, <2>10
<1>9. ASSUME NEW kinds \in {{"reply"}, Completions, {"processes"}}, ~ NoKind(inputs, kinds)
      PROVE  \E k \in 1 .. Len(d) : IsA(d[k], kinds)
  <2>1. PICK j \in 1 .. N : inputs[j].kind \in kinds BY <1>9 DEF NoKind
  <2> DEFINE i == IF kinds = {"reply"} THEN 4 ELSE IF kinds = {"processes"} THEN 2 ELSE 5
  <2>2. \A l \in 1 .. N : Goes(inputs[l], Slots[i]) <=> inputs[l].kind \in kinds
    <3>1. "reply" \notin Completions /\ "processes" \notin Completions BY DEF Completions
    <3>2. {"reply"} # {"processes"} /\ {"reply"} # Completions /\ {"processes"} # Completions
      BY <3>1
    <3> HIDE DEF Completions
    <3> QED BY <1>5, <3>2, SlotsNamed, GoesToOne
  <2>3. i \in 1 .. 6 /\ e + i \in 1 .. Len(d) BY <1>0, <1>1
  <2> HIDE DEF i
  <2>4. PICK l \in 1 .. N : box.slots[Slots[i]] = inputs[l] /\ Goes(inputs[l], Slots[i])
    BY <1>2, <1>4, <2>1, <2>2, <2>3
  <2>5. d[e + i] = inputs[l] /\ inputs[l].kind \in kinds BY <1>1, <2>2, <2>3, <2>4
  <2> QED BY <1>5, <2>3, <2>5 DEF IsA
<1>10. ASSUME NEW x, x.kind = "processes", LastOf(inputs, x, {"processes"}),
              NEW k \in 1 .. Len(d), IsA(d[k], {"processes"})
       PROVE  d[k] = x
  <2>1. PICK j \in 1 .. N : /\ d[k] = inputs[j] /\ inputs[j].kind \in {"processes"}
                            /\ \A l \in j + 1 .. N : inputs[l].kind \notin {"processes"}
    BY <1>8, <1>10
  <2>2. PICK i \in 1 .. N : /\ inputs[i] = x
                            /\ \A l \in i + 1 .. N : inputs[l].kind \notin {"processes"}
    BY <1>10 DEF LastOf
  <2>3. ~ (j > i) BY <2>1, <2>2
  <2>4. CASE j = i BY <2>1, <2>2, <2>4
  <2>5. CASE j < i
    <3>1. i \in j + 1 .. N BY <2>5
    <3> QED BY <1>10, <2>1, <2>2, <3>1
  <2> QED BY <2>3, <2>4, <2>5
<1>11. ASSUME NEW k \in 1 .. Len(d), NEW j \in 1 .. Len(d),
              IsA(d[k], {"reply"}), IsA(d[j], {"reply"})
       PROVE  j = k
  <2>1. k = e + 4 /\ j = e + 4 BY <1>8, <1>11
  <2> QED BY <2>1
<1>12. box.epochPending => 1 \in 1 .. Len(d) /\ d[1] = [kind |-> "epoch"] BY <1>0, <1>1
<1>13. d \in Seq(Message \cup {None}) BY <1>1
<1> HIDE DEF N
<1> QED BY <1>7, <1>9, <1>10, <1>11, <1>12, <1>13 DEF d, N

(***************************************************************************)
(* The passes of the application.                                          *)
(***************************************************************************)
Reply(query) == [kind |-> "reply", query |-> query]
Shown(table) == [kind |-> "processes", table |-> table]

\* What drains of honest inputs is drainable.
LEMMA DrainsHonestly ==
  ASSUME NEW inputs \in Seq(Message), NEW box, Boxed(box, inputs, Len(inputs)),
         \A k \in 1 .. Len(inputs) : Honest(inputs[k]),
         NEW query \in Queries,
         NoKind(inputs, {"reply"}) \/ OneOf(inputs, Reply(query), {"reply"})
  PROVE  LET d == Drained(box)
         IN  /\ Drainable(d, query)
             /\ \A kinds \in {{"reply"}, Completions, {"processes"}} :
                  NoKind(inputs, kinds) <=> \A k \in 1 .. Len(d) : ~ IsA(d[k], kinds)
             /\ \A k \in 1 .. Len(d) :
                  \/ d[k] = None
                  \/ k = 1 /\ box.epochPending
                  \/ \E j \in 1 .. Len(inputs) : d[k] = inputs[j]
<1> DEFINE d == Drained(box)
           N == Len(inputs)
<1>1. /\ d \in Seq(Message \cup {None})
      /\ box.epochPending => 1 \in 1 .. Len(d) /\ d[1] = [kind |-> "epoch"]
      /\ \A k \in 1 .. Len(d) :
           \/ d[k] = None
           \/ k = 1 /\ box.epochPending
           \/ (\E j \in 1 .. N : d[k] = inputs[j]) /\ d[k].kind # "epoch"
      /\ \A k, j \in 1 .. Len(d) : IsA(d[k], {"reply"}) /\ IsA(d[j], {"reply"}) => j = k
      /\ \A kinds \in {{"reply"}, Completions, {"processes"}} :
           ~ NoKind(inputs, kinds) => \E k \in 1 .. Len(d) : IsA(d[k], kinds)
  BY DrainedInputs
<1> HIDE DEF d
<1>2. \A k \in 1 .. Len(d) : d[k] # None => Honest(d[k])
  <2>1. Honest([kind |-> "epoch"]) BY DEF Honest
  <2> QED BY <1>1, <2>1
<1>3. \A k \in 2 .. Len(d) : ~ IsA(d[k], {"epoch"})
  <2>1. \A k \in 2 .. Len(d) : k \in 1 .. Len(d) /\ k # 1 OBVIOUS
  <2> QED BY <1>1, <2>1 DEF IsA
<1>4. ASSUME NEW kinds \in {{"reply"}, Completions, {"processes"}}, NoKind(inputs, kinds),
             NEW k \in 1 .. Len(d)
      PROVE  ~ IsA(d[k], kinds)
  <2>1. "epoch" \notin kinds BY DEF Completions
  <2>2. CASE \E j \in 1 .. N : d[k] = inputs[j] BY <1>4, <2>2 DEF NoKind, IsA
  <2>3. CASE k = 1 /\ box.epochPending BY <1>1, <2>1, <2>3 DEF IsA
  <2>4. CASE d[k] = None BY <2>4 DEF IsA
  <2> QED BY <1>1, <2>2, <2>3, <2>4
<1>5. ASSUME NEW k \in 1 .. Len(d), IsA(d[k], {"reply"}) PROVE d[k].query = query
  <2>1. d[k] # None /\ d[k].kind = "reply" BY <1>5 DEF IsA
  <2>2. PICK j \in 1 .. N : d[k] = inputs[j] BY <1>1, <2>1
  <2>3. ~ NoKind(inputs, {"reply"}) BY <2>1, <2>2 DEF NoKind
  <2>4. inputs[j] = Reply(query) BY <2>1, <2>2, <2>3 DEF OneOf
  <2> QED BY <2>2, <2>4 DEF Reply
<1>6. Drainable(d, query) BY <1>1, <1>2, <1>3, <1>5 DEF Drainable
<1>7. \A k \in 1 .. Len(d) : \/ d[k] = None
                             \/ k = 1 /\ box.epochPending
                             \/ \E j \in 1 .. N : d[k] = inputs[j]
  BY <1>1
<1> QED BY <1>1, <1>4, <1>6, <1>7 DEF d

\* What a pass makes of what has arrived.
PassedInputs(m, inputs, query, n) ==
  /\ n \in Models /\ n.epoch /\ n.stoppable = m.stoppable
  /\ Ends(n) /\ Rows(n)
  /\ Owes(n) => n.exit # None \/ (Owes(m) /\ NoKind(inputs, Completions))
  /\ \/ AwayRead(n, query) /\ AwayRead(m, query) /\ NoKind(inputs, {"reply"})
     \/ HomeRead(n) /\ (HomeRead(m) \/ ~ NoKind(inputs, {"reply"}))
  /\ \A table : \/ m.processes = table /\ NoKind(inputs, {"processes"})
                \/ LastOf(inputs, Shown(table), {"processes"})
                => n.processes = table

\* A pass once the epoch is known.
LEMMA KnownPass ==
  ASSUME NEW m \in Models, m.epoch, Ends(m), Rows(m),
         NEW query \in Queries, NEW inputs \in Seq(Message),
         \A k \in 1 .. Len(inputs) : Honest(inputs[k]) /\ inputs[k].kind # "epoch",
         \/ AwayRead(m, query) /\ (\/ NoKind(inputs, {"reply"})
                                   \/ OneOf(inputs, Reply(query), {"reply"}))
         \/ HomeRead(m) /\ NoKind(inputs, {"reply"})
  PROVE  LET pass == Dispatch(m, [NewMailbox EXCEPT !.epoch = TRUE], inputs)
         IN  pass.epoch /\ PassedInputs(m, inputs, query, pass.model)
<1> DEFINE full == Pushed([NewMailbox EXCEPT !.epoch = TRUE], inputs)
           d == Drained(full)
           n == Reduced(m, d)
<1>1. Boxed(full, inputs, Len(inputs)) /\ ~ full.epochPending
  BY BoxedAll
<1>2. Dispatch(m, [NewMailbox EXCEPT !.epoch = TRUE], inputs) = [model |-> n, epoch |-> full.epoch]
  BY DEF Dispatch
<1>3. full.epoch BY <1>1 DEF Boxed
<1> HIDE DEF full
<1>4. /\ Drainable(d, query)
      /\ \A kinds \in {{"reply"}, Completions, {"processes"}} :
           NoKind(inputs, kinds) <=> \A k \in 1 .. Len(d) : ~ IsA(d[k], kinds)
      /\ \A k \in 1 .. Len(d) : d[k] = None \/ \E j \in 1 .. Len(inputs) : d[k] = inputs[j]
  BY <1>1, DrainsHonestly
<1>5. \A x : x.kind = "processes" /\ LastOf(inputs, x, {"processes"}) =>
        \A k \in 1 .. Len(d) : IsA(d[k], {"processes"}) => d[k] = x
  BY <1>1, DrainedInputs
<1> HIDE DEF d
<1>6. \A k \in 1 .. Len(d) : ~ IsA(d[k], {"epoch"}) BY <1>4 DEF IsA
<1>7. NoKind(inputs, {"reply"}) <=> \A k \in 1 .. Len(d) : ~ IsA(d[k], {"reply"}) BY <1>4
<1>8. Passed(m, d, query, n) BY <1>4, <1>6, <1>7, PassKeeps
<1> HIDE DEF n
<1>9. ASSUME NEW table, \/ m.processes = table /\ NoKind(inputs, {"processes"})
                        \/ LastOf(inputs, Shown(table), {"processes"})
      PROVE  n.processes = table
  <2>1. NoKind(inputs, {"processes"}) <=> \A k \in 1 .. Len(d) : ~ IsA(d[k], {"processes"})
    BY <1>4
  <2>2. CASE m.processes = table /\ NoKind(inputs, {"processes"})
    BY <1>8, <2>1, <2>2 DEF Passed
  <2>3. CASE LastOf(inputs, Shown(table), {"processes"})
    <3>1. Shown(table).kind = "processes" /\ Shown(table).table = table BY DEF Shown
    <3>2. ~ NoKind(inputs, {"processes"}) BY <2>3, <3>1 DEF LastOf, NoKind
    <3>3. \E k \in 1 .. Len(d) : IsA(d[k], {"processes"}) BY <2>1, <3>2
    <3>4. \A k \in 1 .. Len(d) : IsA(d[k], {"processes"}) => d[k].table = table
      BY <1>5, <2>3, <3>1
    <3> QED BY <1>8, <3>3, <3>4 DEF Passed
  <2> QED BY <1>9, <2>2, <2>3
<1>10. NoKind(inputs, Completions) <=> \A k \in 1 .. Len(d) : ~ IsA(d[k], Completions) BY <1>4
<1>11. PassedInputs(m, inputs, query, n)
  BY <1>7, <1>8, <1>9, <1>10 DEF Passed, PassedInputs
<1> DEFINE pass == Dispatch(m, [NewMailbox EXCEPT !.epoch = TRUE], inputs)
<1>12. pass.model = n /\ pass.epoch = full.epoch BY <1>2
<1> HIDE DEF pass
<1>13. pass.epoch /\ PassedInputs(m, inputs, query, pass.model) BY <1>3, <1>11, <1>12
<1> QED BY <1>13 DEF pass

\* A first message that was taken is as good as none.
LEMMA ReducedRest ==
  ASSUME NEW m, NEW S, NEW msgs \in Seq(S), 1 \in 1 .. Len(msgs), None \in S
  PROVE  Reduced(m, msgs) = Reduced(Take(m, msgs[1]), [msgs EXCEPT ![1] = None])
<1> DEFINE N == Len(msgs)
           rest == [msgs EXCEPT ![1] = None]
           m1 == Take(m, msgs[1])
<1>0. N \in Nat /\ rest \in Seq(S) /\ Len(rest) = N /\ rest[1] = None
      /\ \A k \in 2 .. N : rest[k] = msgs[k]
  OBVIOUS
<1> HIDE DEF rest
<1>1. PICK f : /\ f[0] = m
               /\ \A k \in 1 .. N : f[k] = Take(f[k - 1], msgs[k])
               /\ Reduced(m, msgs) = f[N]
  BY ReducedAfter
<1>2. PICK g : /\ g[0] = m1
               /\ \A k \in 1 .. N : g[k] = Take(g[k - 1], rest[k])
               /\ Reduced(m1, rest) = g[N]
  BY <1>0, ReducedAfter
<1> DEFINE T == {k \in Nat : k # 0 => f[k] = g[k]}
<1>3. 0 \in T OBVIOUS
<1>4. ASSUME NEW k \in 0 .. N - 1, k \in T PROVE k + 1 \in T
  <2>1. k + 1 \in 1 .. N /\ (k + 1) - 1 = k /\ k + 1 \in Nat BY <1>0
  <2>2. CASE k = 0
    <3>1. f[1] = m1
      <4>1. f[1] = Take(f[1 - 1], msgs[1]) BY <1>1
      <4>2. 1 - 1 = 0 OBVIOUS
      <4> QED BY <1>1, <4>1, <4>2
    <3>2. g[1] = m1
      <4>1. g[1] = Take(g[1 - 1], rest[1]) BY <1>2
      <4>2. 1 - 1 = 0 OBVIOUS
      <4> QED BY <1>0, <1>2, <4>1, <4>2 DEF Take
    <3> QED BY <2>1, <2>2, <3>1, <3>2
  <2>3. CASE k # 0
    <3>1. k + 1 \in 2 .. N BY <2>1, <2>3
    <3>2. f[k] = g[k] BY <1>4, <2>3
    <3>3. f[k + 1] = Take(f[k], msgs[k + 1]) BY <1>1, <2>1
    <3>4. g[k + 1] = Take(g[k], msgs[k + 1]) BY <1>0, <1>2, <2>1, <3>1
    <3> QED BY <2>1, <3>2, <3>3, <3>4
  <2> QED BY <2>2, <2>3
<1>5. N \in T
  <2> HIDE DEF T
  <2>1. 0 .. N \subseteq T BY <1>0, <1>3, <1>4, UpTo
  <2> QED BY <1>0, <2>1
<1>6. f[N] = g[N] BY <1>5
<1> QED BY <1>1, <1>2, <1>6 DEF rest

\* A model that knows its epoch and nothing else.
LEMMA FreshModel ==
  ASSUME NEW b \in BOOLEAN
  PROVE  LET m == NewModel(b)
             n == Update(m, [kind |-> "epoch"])
         IN  /\ m \in Models /\ m.stoppable = b /\ m.effects = <<>> /\ ~ m.epoch
             /\ m.exit = None /\ ~ m.stopRequested /\ m.processes = {} /\ m.asked = None
             /\ n \in Models /\ n.epoch /\ n.stoppable = b /\ n.effects = <<>>
             /\ n.exit = None /\ ~ n.stopRequested /\ n.processes = {} /\ n.asked = None
             /\ Rows(n) /\ HomeRead(n) /\ (Ends(m) => Ends(n))
<1> DEFINE m == NewModel(b)
           e == [m EXCEPT !.epoch = TRUE]
           n == [e EXCEPT !.rows = All, !.owed = FALSE, !.asked = None]
<1>1. m \in Models
  <2>1. <<>> \in Seq(Effects) OBVIOUS
  <2> QED BY <2>1 DEF NewModel, Models, Modals, Queries
<1>2. /\ m.stoppable = b /\ m.effects = <<>> /\ ~ m.epoch /\ m.exit = None
      /\ ~ m.stopRequested /\ m.processes = {} /\ m.asked = None /\ m.detail = All
  BY DEF NewModel
<1>3. Update(m, [kind |-> "epoch"]) = n
  BY DEF Update, UpdateClient, ClientEvents, ResetQueries
<1> HIDE DEF m
<1>4. e \in Models BY <1>1 DEF Models
<1>5. /\ e.epoch /\ e.stoppable = b /\ e.effects = <<>> /\ e.exit = None
      /\ ~ e.stopRequested /\ e.processes = {} /\ e.detail = All
  BY <1>1, <1>2 DEF Models
<1> HIDE DEF e
<1>6. n \in Models BY <1>4 DEF Models, Queries
<1>7. /\ n.epoch /\ n.stoppable = b /\ n.effects = <<>> /\ n.exit = None
      /\ ~ n.stopRequested /\ n.processes = {} /\ n.detail = All /\ n.asked = None
      /\ n.rows = All
  BY <1>4, <1>5 DEF Models
<1> HIDE DEF n
<1>8. NoKind(n.effects, {"read"}) BY <1>7 DEF NoKind
<1>9. Rows(n) /\ HomeRead(n) BY <1>7, <1>8 DEF Rows, HomeRead
<1>10. Ends(m) => Ends(n) BY <1>2, <1>7 DEF Ends
<1> QED BY <1>1, <1>2, <1>3, <1>6, <1>7, <1>9, <1>10 DEF m

\* The pass that opens the dashboard: the epoch is the first input.
LEMMA OpeningPass ==
  ASSUME NEW b \in BOOLEAN, Ends(NewModel(b)), NEW inputs \in Seq(Message), inputs # <<>>,
         \A k \in 1 .. Len(inputs) : Honest(inputs[k]) /\ inputs[k].kind \in ClientEvents,
         inputs[1].kind = "epoch", \A k \in 2 .. Len(inputs) : inputs[k].kind # "epoch"
  PROVE  LET pass == Dispatch(NewModel(b), NewMailbox, inputs)
             n == pass.model
         IN  /\ pass.epoch
             /\ n \in Models /\ n.epoch /\ n.stoppable = b /\ Ends(n) /\ Rows(n) /\ HomeRead(n)
             /\ ~ n.stopRequested
             /\ \A table : \/ table = {} /\ NoKind(inputs, {"processes"})
                           \/ LastOf(inputs, Shown(table), {"processes"})
                           => n.processes = table
<1> DEFINE m == NewModel(b)
           full == Pushed(NewMailbox, inputs)
           d == Drained(full)
           n == Reduced(m, d)
           m1 == Update(m, [kind |-> "epoch"])
           rest == [d EXCEPT ![1] = None]
<1>0. [NewMailbox EXCEPT !.epoch = FALSE] = NewMailbox
  <2>1. NewMailbox.epoch = FALSE BY DEF NewMailbox
  <2> QED BY <2>1, EmptyBoxes DEF Boxes
<1>1. Boxed(full, inputs, Len(inputs)) /\ full.epochPending
  <2>1. LET f == Pushed([NewMailbox EXCEPT !.epoch = FALSE], inputs)
        IN  Boxed(f, inputs, Len(inputs)) /\ (f.epochPending <=> ~ FALSE)
    BY BoxedAll
  <2> QED BY <1>0, <2>1
<1>2. Dispatch(m, NewMailbox, inputs) = [model |-> n, epoch |-> full.epoch] BY DEF Dispatch
<1>3. full.epoch BY <1>1 DEF Boxed
<1>q. PICK query \in Queries : TRUE BY DEF Queries
<1> HIDE DEF full
<1>4. NoKind(inputs, {"reply"}) /\ NoKind(inputs, Completions)
  BY DEF NoKind, ClientEvents, Completions
<1>5. /\ Drainable(d, query)
      /\ \A kinds \in {{"reply"}, Completions, {"processes"}} :
           NoKind(inputs, kinds) <=> \A k \in 1 .. Len(d) : ~ IsA(d[k], kinds)
      /\ \A k \in 1 .. Len(d) : \/ d[k] = None \/ k = 1
                                \/ \E j \in 1 .. Len(inputs) : d[k] = inputs[j]
  BY <1>1, <1>4, DrainsHonestly
<1>6. /\ d \in Seq(Message \cup {None}) /\ 1 \in 1 .. Len(d) /\ d[1] = [kind |-> "epoch"]
      /\ \A x : x.kind = "processes" /\ LastOf(inputs, x, {"processes"}) =>
           \A k \in 1 .. Len(d) : IsA(d[k], {"processes"}) => d[k] = x
  BY <1>1, DrainedInputs
<1> HIDE DEF d
<1>7. /\ rest \in Seq(Message \cup {None}) /\ Len(rest) = Len(d) /\ rest[1] = None
      /\ \A k \in 2 .. Len(d) : rest[k] = d[k]
  BY <1>6
<1>8. n = Reduced(m1, rest)
  <2>1. d[1] # None
    <3>1. [kind |-> "epoch"] \in Message BY DEF Message
    <3> QED BY <1>6, <3>1, NoneAssumption
  <2>2. Take(m, d[1]) = m1 BY <1>6, <2>1 DEF Take
  <2>3. n = Reduced(Take(m, d[1]), rest)
    <3>1. None \in Message \cup {None} OBVIOUS
    <3> HIDE DEF m
    <3> QED BY <1>6, <3>1, ReducedRest
  <2> QED BY <2>2, <2>3
<1>9. \A k \in 1 .. Len(d) : k = 1 \/ k \in 2 .. Len(d) OBVIOUS
<1>10. \A k \in 1 .. Len(rest) : rest[k] = None \/ (k \in 2 .. Len(d) /\ rest[k] = d[k])
  BY <1>7, <1>9
<1>11. Drainable(rest, query)
  <2>1. \A k \in 2 .. Len(d) : k \in 1 .. Len(d) OBVIOUS
  <2>2. \A k \in 1 .. Len(rest) : rest[k] # None => Honest(rest[k])
    BY <1>5, <1>10, <2>1 DEF Drainable
  <2>3. \A k \in 1 .. Len(rest) : ~ IsA(rest[k], {"epoch"})
    BY <1>5, <1>10 DEF Drainable, IsA
  <2>4. ASSUME NEW k \in 1 .. Len(rest), IsA(rest[k], {"reply"}) PROVE FALSE
    <3>1. k \in 1 .. Len(d) /\ IsA(d[k], {"reply"}) BY <1>10, <2>1, <2>4 DEF IsA
    <3> QED BY <1>4, <1>5, <3>1
  <2>5. \A k \in 2 .. Len(rest) : k \in 1 .. Len(rest) OBVIOUS
  <2> QED BY <1>7, <2>2, <2>3, <2>4, <2>5 DEF Drainable
<1>12. \A k \in 1 .. Len(rest) : ~ IsA(rest[k], {"epoch"})
  BY <1>5, <1>10 DEF Drainable, IsA
<1>13. \A k \in 1 .. Len(rest) : ~ IsA(rest[k], {"reply"})
  <2>1. \A k \in 2 .. Len(d) : k \in 1 .. Len(d) OBVIOUS
  <2> QED BY <1>4, <1>5, <1>10, <2>1 DEF IsA
<1>14. /\ m1 \in Models /\ m1.epoch /\ m1.stoppable = b /\ ~ m1.stopRequested
       /\ m1.processes = {} /\ m1.asked = None /\ Rows(m1) /\ HomeRead(m1) /\ Ends(m1)
  BY FreshModel
<1> HIDE DEF m1, m, rest, n
<1>15. Passed(m1, rest, query, n) BY <1>8, <1>11, <1>12, <1>13, <1>14, PassKeeps
<1>16. \A k \in 1 .. Len(rest) : IsA(rest[k], ClientEvents) \/ rest[k] = None
  <2>1. \A k \in 2 .. Len(d) : k \in 1 .. Len(d) /\ k # 1 OBVIOUS
  <2> QED BY <1>5, <1>10, <2>1 DEF IsA
<1>17. ~ n.stopRequested BY <1>14, <1>15, <1>16 DEF Passed
<1>18. HomeRead(n)
  <2>1. ~ AwayRead(m1, query) BY <1>14, NoneAssumption DEF AwayRead
  <2> QED BY <1>15, <2>1 DEF Passed
<1>19. ASSUME NEW table, \/ table = {} /\ NoKind(inputs, {"processes"})
                         \/ LastOf(inputs, Shown(table), {"processes"})
       PROVE  n.processes = table
  <2>0. NoKind(inputs, {"processes"}) <=> \A k \in 1 .. Len(d) : ~ IsA(d[k], {"processes"})
    BY <1>5
  <2>1. (\A k \in 1 .. Len(d) : ~ IsA(d[k], {"processes"}))
          <=> \A k \in 1 .. Len(rest) : ~ IsA(rest[k], {"processes"})
    <3>1. ~ IsA(d[1], {"processes"}) BY <1>6 DEF IsA
    <3>2. \A k \in 2 .. Len(d) : k \in 1 .. Len(rest) BY <1>7
    <3>3. \A k \in 2 .. Len(d) : k \in 1 .. Len(d) OBVIOUS
    <3> QED BY <1>7, <1>9, <1>10, <3>1, <3>2, <3>3 DEF IsA
  <2>2. CASE table = {} /\ NoKind(inputs, {"processes"})
    BY <1>14, <1>15, <2>0, <2>1, <2>2 DEF Passed
  <2>3. CASE LastOf(inputs, Shown(table), {"processes"})
    <3>1. Shown(table).kind = "processes" /\ Shown(table).table = table BY DEF Shown
    <3>2. ~ NoKind(inputs, {"processes"}) BY <2>3, <3>1 DEF LastOf, NoKind
    <3>3. \E k \in 1 .. Len(rest) : IsA(rest[k], {"processes"}) BY <2>0, <2>1, <3>2
    <3>4. ASSUME NEW k \in 1 .. Len(rest), IsA(rest[k], {"processes"})
          PROVE  rest[k].table = table
      <4>1. k \in 1 .. Len(d) /\ rest[k] = d[k] BY <1>7, <1>10, <3>4 DEF IsA
      <4> QED BY <1>6, <2>3, <3>1, <3>4, <4>1
    <3> QED BY <1>15, <3>3, <3>4 DEF Passed
  <2> QED BY <1>19, <2>2, <2>3
<1>20. n \in Models /\ n.epoch /\ n.stoppable = b /\ Ends(n) /\ Rows(n)
  BY <1>14, <1>15 DEF Passed
<1> DEFINE pass == Dispatch(m, NewMailbox, inputs)
<1>21. pass.model = n /\ pass.epoch = full.epoch BY <1>2
<1> HIDE DEF pass
<1>22. pass.epoch BY <1>3, <1>21
<1> QED BY <1>17, <1>18, <1>19, <1>20, <1>21, <1>22 DEF pass, m

(***************************************************************************)
(* The session.  What DriveOK adds to the properties: the messages that    *)
(* are under way claim what is so; the epoch is the first event and the    *)
(* mailbox knows it from then on; there is one read for what is asked, at  *)
(* one place between the effects and the reducer; and the newest table     *)
(* that was sent is the last one on its way, or is shown.                  *)
(***************************************************************************)
Open    == thread \in {"collect", "keys"}
OnScreen == thread # "returned"

DriveTyped ==
  /\ thread \in {"not-started", "collect", "keys", "returned"}
  /\ known \in BOOLEAN /\ announced \in BOOLEAN
  /\ ui \in Models /\ ui.effects = <<>>
  /\ ingress \in Seq(Message) /\ events \in Seq(Message)
  /\ guaranteed \in Seq(Effects)
  /\ drive \in [at : {"select", "send", "leaving", "cleanup", "done"}, hold : Message \cup {None}]
  /\ drive.at = "send" <=> drive.hold # None
  /\ stops \in Seq([stage : {"runtimes", "supervisor", "report"}, failed : BOOLEAN])
  /\ reading \in Queries \cup {None}
  /\ feed \in [at : {"borrow", "send", "ended"}, table : {None} \cup SUBSET Participants]
  /\ feed.at = "send" => feed.table # None
  /\ watcher \in {"armed", "dropped", "supervisor-stopped", "supervisor-failed"}
  /\ session \in [supervisor : BOOLEAN, runtimes : BOOLEAN, table : SUBSET Participants]
  /\ history \in [alone : BOOLEAN, failed : BOOLEAN]

AllHonest(s) == \A k \in 1 .. Len(s) : Honest(s[k])

\* What the stop tasks and the watcher are about to say.
StopsHonest ==
  \A k \in 1 .. Len(stops) :
    /\ stops[k].failed => history.failed
    /\ stops[k].stage = "report" /\ ~ stops[k].failed => ~ session.supervisor

Truthful ==
  /\ AllHonest(ingress) /\ AllHonest(events)
  /\ drive.hold # None => Honest(drive.hold)
  /\ watcher \in {"supervisor-stopped", "supervisor-failed"} => ~ session.supervisor
  /\ StopsHonest

EndsWell ==
  /\ OnScreen => Ends(ui)
  /\ ~ OnScreen => ~ ui.stopRequested /\ ~ ui.epoch
  /\ ui.exit = "ended" => Caused
  /\ ui.exit = "stopped" => ~ session.supervisor
  /\ Owned /\ result \in {"stopped", "ended", "ui-failed"} =>
       ~ session.supervisor /\ ~ session.runtimes
  /\ drive.at \in {"leaving", "cleanup", "done"} => ~ OnScreen
  /\ ~ Owned => /\ ~ StopUnderWay /\ drive.at # "cleanup"
                /\ session.runtimes /\ (session.supervisor \/ history.alone)

StopIsOwed == ui.stopRequested => StopUnderWay \/ ~ NoKind(ingress, Completions)

\* The events come from the feeds, no answer waits for room, and the epoch
\* opens the dashboard.
Ordered ==
  /\ \A k \in 1 .. Len(events) : events[k].kind \in ClientEvents
  /\ drive.hold # None => drive.hold.kind # "reply"
  /\ thread = "not-started" =>
       /\ ui = NewModel(Owned) /\ ~ known
       /\ ingress = <<>> /\ guaranteed = <<>> /\ stops = <<>> /\ reading = None
       /\ drive.at = "select"
       /\ events # <<>> /\ events[1].kind = "epoch"
       /\ \A k \in 2 .. Len(events) : events[k].kind # "epoch"
  /\ Open =>
       /\ known /\ ui.epoch
       /\ NoKind(events, {"epoch"}) /\ NoKind(ingress, {"epoch"})
       /\ drive.hold # None => drive.hold.kind # "epoch"

\* Where the read of what is asked is.
ReadOnItsWay ==
  Open =>
    /\ Rows(ui)
    /\ \/ /\ ui.asked = None /\ NoKind(guaranteed, {"read"})
          /\ reading = None /\ NoKind(ingress, {"reply"})
       \/ /\ ui.asked # None /\ OneOf(guaranteed, Read(ui.asked), {"read"})
          /\ reading = None /\ NoKind(ingress, {"reply"})
       \/ /\ ui.asked # None /\ NoKind(guaranteed, {"read"})
          /\ reading = ui.asked /\ NoKind(ingress, {"reply"})
       \/ /\ ui.asked # None /\ NoKind(guaranteed, {"read"})
          /\ reading = None /\ OneOf(ingress, Reply(ui.asked), {"reply"})

\* Where the table that was sent last is.
TableOnItsWay ==
  OnScreen /\ feed.at = "borrow" /\ feed.table # None =>
    \/ LastOf(events, Shown(feed.table), {"processes"})
    \/ /\ NoKind(events, {"processes"})
       /\ \/ drive.hold = Shown(feed.table)
          \/ /\ drive.hold # None => drive.hold.kind # "processes"
             /\ \/ LastOf(ingress, Shown(feed.table), {"processes"})
                \/ NoKind(ingress, {"processes"}) /\ ui.processes = feed.table

DriveOK ==
  /\ DriveTyped /\ Truthful /\ EndsWell /\ StopIsOwed /\ Ordered
  /\ ReadOnItsWay /\ TableOnItsWay

\* The parts say nothing of what else changes.
LEMMA PartsUntouched ==
  /\ DriveTyped /\ UNCHANGED driveVars => DriveTyped'
  /\ StopIsOwed /\ UNCHANGED <<ui, guaranteed, stops, ingress>> => StopIsOwed'
  /\ Ordered /\ UNCHANGED <<ui, thread, known, ingress, guaranteed, drive, stops, reading, events>>
       => Ordered'
  /\ ReadOnItsWay /\ UNCHANGED <<ui, thread, ingress, guaranteed, reading>> => ReadOnItsWay'
  /\ TableOnItsWay /\ UNCHANGED <<ui, thread, ingress, drive, events, feed>> => TableOnItsWay'
<1>1. DriveTyped /\ UNCHANGED driveVars => DriveTyped' BY DEF DriveTyped, driveVars
<1>2. StopIsOwed /\ UNCHANGED <<ui, guaranteed, stops, ingress>> => StopIsOwed'
  BY DEF StopIsOwed, StopUnderWay, NoKind
<1>3. Ordered /\ UNCHANGED <<ui, thread, known, ingress, guaranteed, drive, stops, reading, events>>
        => Ordered'
  BY DEF Ordered, Open, Owned, NoKind
<1>4. ReadOnItsWay /\ UNCHANGED <<ui, thread, ingress, guaranteed, reading>> => ReadOnItsWay'
  BY DEF ReadOnItsWay, Rows, NoKind, OneOf, Open
<1>5. TableOnItsWay /\ UNCHANGED <<ui, thread, ingress, drive, events, feed>> => TableOnItsWay'
  BY DEF TableOnItsWay, LastOf, NoKind, OnScreen
<1> QED BY <1>1, <1>2, <1>3, <1>4, <1>5

\* What happens outside: the supervisor ends, the snapshot changes, the watcher
\* finds out.
LEMMA OutsideSteps ==
  ASSUME DriveOK, SupervisorEnds \/ SnapshotChanges \/ WatcherReports
  PROVE  DriveOK'
<1> USE DEF DriveOK
<1>0. /\ UNCHANGED <<actors, events, feed, announced, result>>
      /\ \/ /\ session' = [session EXCEPT !.supervisor = FALSE]
            /\ history' = [history EXCEPT !.alone = TRUE] /\ watcher' = watcher
         \/ \E table \in SUBSET Participants :
              session' = [session EXCEPT !.table = table] /\ UNCHANGED <<history, watcher>>
         \/ /\ ~ session.supervisor /\ UNCHANGED <<session, history>>
            /\ watcher' \in {"supervisor-stopped", "supervisor-failed"}
  BY DEF SupervisorEnds, SnapshotChanges, WatcherReports, attachment
<1>1. UNCHANGED <<ui, thread, known, ingress, guaranteed, drive, stops, reading, events, feed,
                  announced, result>>
  BY <1>0 DEF actors
<1>2. /\ session' \in [supervisor : BOOLEAN, runtimes : BOOLEAN, table : SUBSET Participants]
      /\ history' \in [alone : BOOLEAN, failed : BOOLEAN]
      /\ watcher' \in {"armed", "dropped", "supervisor-stopped", "supervisor-failed"}
      /\ history'.failed = history.failed /\ session'.runtimes = session.runtimes
      /\ session'.supervisor => session.supervisor
      /\ history.alone => history'.alone
      /\ ~ session'.supervisor => ~ session.supervisor \/ history'.alone
      /\ watcher' \in {"supervisor-stopped", "supervisor-failed"} => ~ session'.supervisor
  BY <1>0 DEF DriveTyped, Truthful
<1>3. DriveTyped' BY <1>1, <1>2 DEF DriveTyped
<1>4. Truthful' BY <1>1, <1>2 DEF Truthful, AllHonest, Honest, StopsHonest
<1>5. EndsWell'
  <2>1. OnScreen => Ends(ui)'
    BY <1>1, <1>2 DEF EndsWell, Ends, Caused, StopUnderWay, NoKind
  <2> QED BY <1>1, <1>2, <2>1 DEF EndsWell, Caused, StopUnderWay, NoKind, OnScreen, Owned
<1> QED BY <1>1, <1>3, <1>4, <1>5, PartsUntouched

\* The terminal loop ends its keys, or fails.
LEMMA LoopSteps ==
  ASSUME DriveOK, TickEnds \/ UiFails \/ Returned
  PROVE  DriveOK'
<1> USE DEF DriveOK
<1>1. CASE Returned
  BY <1>1, PartsUntouched DEF Returned, driveVars, Truthful, AllHonest, Honest, StopsHonest, EndsWell,
     Ends, Caused, StopUnderWay, NoKind, OnScreen, Owned
<1>2. CASE TickEnds
  <2>1. /\ thread = "keys" /\ thread' = "collect"
        /\ UNCHANGED <<ui, known, ingress, guaranteed, drive, stops, reading, events, feed,
                       announced, watcher, session, result, history>>
    BY <1>2 DEF TickEnds, attachment
  <2>2. DriveTyped' BY <2>1 DEF DriveTyped
  <2>3. Truthful' BY <2>1 DEF Truthful, AllHonest, Honest, StopsHonest
  <2>4. EndsWell' BY <2>1 DEF EndsWell, Ends, Caused, StopUnderWay, NoKind, OnScreen, Owned
  <2>5. Ordered' BY <2>1 DEF Ordered, Open, Owned, NoKind
  <2>6. ReadOnItsWay' BY <2>1 DEF ReadOnItsWay, Rows, NoKind, OneOf, Open
  <2>7. TableOnItsWay' BY <2>1 DEF TableOnItsWay, LastOf, NoKind, OnScreen
  <2> QED BY <2>1, <2>2, <2>3, <2>4, <2>5, <2>6, <2>7, PartsUntouched
<1>3. CASE UiFails
  <2>1. /\ thread' = "returned" /\ ui' = NewModel(Owned)
        /\ UNCHANGED <<known, ingress, guaranteed, drive, stops, reading, events, feed,
                       announced, watcher, session, result, history>>
    BY <1>3 DEF UiFails, attachment
  <2>2. Owned \in BOOLEAN BY DEF DriveTyped, Models, Owned
  <2>3. /\ ui' \in Models /\ ui'.effects = <<>> /\ ui'.stoppable = Owned /\ ui'.exit = None
        /\ ~ ui'.stopRequested /\ ~ ui'.epoch
    BY <2>1, <2>2, FreshModel
  <2>4. "ended" # None /\ "stopped" # None BY NoneAssumption DEF Exits
  <2>5. DriveTyped' BY <2>1, <2>3 DEF DriveTyped
  <2>6. Truthful' BY <2>1 DEF Truthful, AllHonest, Honest, StopsHonest
  <2>7. EndsWell' BY <2>1, <2>3, <2>4 DEF EndsWell, Caused, StopUnderWay, NoKind, OnScreen, Owned
  <2>8. Ordered' BY <2>1 DEF Ordered, Open
  <2>9. ReadOnItsWay' /\ TableOnItsWay' BY <2>1 DEF ReadOnItsWay, TableOnItsWay, Open, OnScreen
  <2>10. StopIsOwed' BY <2>3 DEF StopIsOwed
  <2> QED BY <2>5, <2>6, <2>7, <2>8, <2>9, <2>10
<1> QED BY <1>1, <1>2, <1>3

\* A feed publishes an event.
LEMMA EventArrives ==
  ASSUME DriveOK, NEW e \in Message, e.kind \in ClientEvents \ {"epoch"}, Honest(e),
         events' = Append(events, e),
         UNCHANGED <<ui, thread, known, ingress, guaranteed, drive, stops, reading, watcher,
                     session, result, history>>
  PROVE  /\ events' \in Seq(Message)
         /\ Truthful' /\ EndsWell' /\ StopIsOwed' /\ Ordered' /\ ReadOnItsWay'
         /\ UNCHANGED feed /\ e.kind # "processes" => TableOnItsWay'
<1> USE DEF DriveOK
<1>0. events \in Seq(Message) BY DEF DriveTyped
<1>1. /\ Len(events') = Len(events) + 1 /\ Len(events) \in Nat
      /\ events'[Len(events) + 1] = e
      /\ \A k \in 1 .. Len(events) : events'[k] = events[k]
  BY <1>0, Appended
<1>2. \A k \in 1 .. Len(events') : events'[k] = e \/ \E j \in 1 .. Len(events) : j = k /\ events'[k] = events[j]
  BY <1>1
<1>3. events' \in Seq(Message) BY <1>0
<1>4. Truthful'
  <2>1. AllHonest(events)' BY <1>2 DEF Truthful, AllHonest, Honest
  <2> QED BY <2>1 DEF Truthful, AllHonest, Honest, StopsHonest
<1>5. EndsWell' BY DEF EndsWell, Ends, Caused, StopUnderWay, NoKind, OnScreen, Owned
<1>6. Ordered'
  <2>1. \A k \in 1 .. Len(events') : events'[k].kind \in ClientEvents BY <1>2 DEF Ordered
  <2>2. thread = "not-started" =>
          /\ events' # <<>> /\ events'[1].kind = "epoch"
          /\ \A k \in 2 .. Len(events') : events'[k].kind # "epoch"
    BY <1>0, <1>1, <1>2 DEF Ordered
  <2>3. Open => NoKind(events, {"epoch"})' BY <1>2 DEF Ordered, NoKind
  <2> QED BY <2>1, <2>2, <2>3 DEF Ordered, Open, Owned, NoKind
<1>7. ASSUME UNCHANGED feed, e.kind # "processes" PROVE TableOnItsWay'
  <2>1. /\ NoKind(events, {"processes"}) => NoKind(events', {"processes"})
        /\ \A x : LastOf(events, x, {"processes"}) => LastOf(events', x, {"processes"})
    BY <1>0, <1>7, AppendOther
  <2> QED BY <1>7, <2>1 DEF TableOnItsWay, OnScreen, NoKind, LastOf
<1> QED BY <1>3, <1>4, <1>5, <1>6, <1>7, PartsUntouched

\* The feeds.
LEMMA FeedStep ==
  ASSUME DriveOK, FeedSteps \/ TelemetryArrives
  PROVE  DriveOK'
<1> USE DEF DriveOK
<1>1. CASE BorrowSnapshot
  <2>1. /\ feed' = [at |-> "send", table |-> session.table]
        /\ UNCHANGED <<ui, thread, known, ingress, guaranteed, drive, stops, reading, events,
                       announced, watcher, session, result, history>>
    BY <1>1 DEF BorrowSnapshot, actors
  <2>2. session.table \in SUBSET Participants /\ session.table # None
    BY NoneAssumption DEF DriveTyped
  <2>3. DriveTyped' BY <2>1, <2>2 DEF DriveTyped
  <2>4. Truthful' BY <2>1 DEF Truthful, AllHonest, Honest, StopsHonest
  <2>5. EndsWell' BY <2>1 DEF EndsWell, Ends, Caused, StopUnderWay, NoKind, OnScreen, Owned
  <2>6. TableOnItsWay' BY <2>1 DEF TableOnItsWay
  <2> QED BY <2>1, <2>3, <2>4, <2>5, <2>6, PartsUntouched
<1>2. CASE PublishSnapshot
  <2> DEFINE e == [kind |-> "processes", table |-> feed.table]
  <2>1. /\ feed.at = "send" /\ feed' = [feed EXCEPT !.at = "borrow"]
        /\ events' = Append(events, e)
        /\ UNCHANGED <<ui, thread, known, ingress, guaranteed, drive, stops, reading,
                       announced, watcher, session, result, history>>
    BY <1>2 DEF PublishSnapshot, actors
  <2>2. e \in Message /\ e.kind \in ClientEvents \ {"epoch"} /\ Honest(e)
    <3>0. feed.table \in {None} \cup SUBSET Participants /\ feed.table # None
      <4>1. /\ feed \in [at : {"borrow", "send", "ended"}, table : {None} \cup SUBSET Participants]
            /\ feed.at = "send" => feed.table # None
        BY DEF DriveTyped
      <4>2. feed.at = "send" BY <2>1
      <4> QED BY <4>1, <4>2
    <3>1. feed.table \in SUBSET Participants BY <3>0
    <3>2. e \in Message BY <3>1 DEF Message
    <3>3. e.kind = "processes" OBVIOUS
    <3> HIDE DEF e
    <3> QED BY <3>2, <3>3 DEF ClientEvents, Honest
  <2>3. /\ feed' \in [at : {"borrow", "send", "ended"}, table : {None} \cup SUBSET Participants]
        /\ feed'.at = "borrow" /\ feed'.table = feed.table
    BY <2>1 DEF DriveTyped
  <2>4. e = Shown(feed'.table) BY <2>3 DEF Shown
  <2> HIDE DEF e
  <2>5. /\ events' \in Seq(Message)
        /\ Truthful' /\ EndsWell' /\ StopIsOwed' /\ Ordered' /\ ReadOnItsWay'
    BY <2>1, <2>2, EventArrives
  <2>6. DriveTyped'
    <3>1. UNCHANGED <<ui, thread, known, ingress, guaranteed, drive, stops, reading,
                      announced, watcher, session, result, history>>
      BY <2>1
    <3> QED BY <2>3, <2>5, <3>1 DEF DriveTyped
  <2>7. events \in Seq(Message) BY DEF DriveTyped
  <2>8. LastOf(events', e, {"processes"}) BY <2>1, <2>7, AppendFirst
  <2>9. TableOnItsWay' BY <2>4, <2>8 DEF TableOnItsWay, LastOf
  <2> QED BY <2>5, <2>6, <2>9
<1>3. CASE AnnounceLost
  <2> DEFINE e == [kind |-> "lost"]
  <2>1. /\ ~ session.supervisor /\ feed' = [feed EXCEPT !.at = "ended"]
        /\ events' = Append(events, e)
        /\ UNCHANGED <<ui, thread, known, ingress, guaranteed, drive, stops, reading,
                       announced, watcher, session, result, history>>
    BY <1>3 DEF AnnounceLost, actors
  <2>2. e \in Message /\ e.kind \in ClientEvents \ {"epoch"} /\ Honest(e)
    BY <2>1 DEF Message, ClientEvents, Honest
  <2>3. /\ feed' \in [at : {"borrow", "send", "ended"}, table : {None} \cup SUBSET Participants]
        /\ feed'.at = "ended"
    BY <2>1 DEF DriveTyped
  <2> HIDE DEF e
  <2>4. /\ events' \in Seq(Message)
        /\ Truthful' /\ EndsWell' /\ StopIsOwed' /\ Ordered' /\ ReadOnItsWay'
    BY <2>1, <2>2, EventArrives
  <2>5. DriveTyped'
    <3>1. UNCHANGED <<ui, thread, known, ingress, guaranteed, drive, stops, reading,
                      announced, watcher, session, result, history>>
      BY <2>1
    <3> QED BY <2>3, <2>4, <3>1 DEF DriveTyped
  <2>6. TableOnItsWay' BY <2>3 DEF TableOnItsWay
  <2> QED BY <2>4, <2>5, <2>6
<1>4. CASE TelemetryArrives
  <2> DEFINE e == [kind |-> "changed"]
  <2>1. /\ events' = events \/ events' = Append(events, e)
        /\ announced' = TRUE
        /\ UNCHANGED <<ui, thread, known, ingress, guaranteed, drive, stops, reading, feed,
                       watcher, session, result, history>>
    BY <1>4 DEF TelemetryArrives, AnnounceRuntimes, actors
  <2>2. e \in Message /\ e.kind \in ClientEvents \ {"epoch"} /\ e.kind # "processes" /\ Honest(e)
    BY DEF Message, ClientEvents, Honest
  <2> HIDE DEF e
  <2>3. CASE events' = Append(events, e)
    <3>1. /\ events' \in Seq(Message) /\ Truthful' /\ EndsWell' /\ StopIsOwed' /\ Ordered'
          /\ ReadOnItsWay' /\ TableOnItsWay'
      BY <2>1, <2>2, <2>3, EventArrives
    <3>2. DriveTyped' BY <2>1, <3>1 DEF DriveTyped
    <3> QED BY <3>1, <3>2
  <2>4. CASE events' = events
    <3>1. DriveTyped' BY <2>1, <2>4 DEF DriveTyped
    <3>2. Truthful' BY <2>1, <2>4 DEF Truthful, AllHonest, Honest, StopsHonest
    <3>3. EndsWell' BY <2>1, <2>4 DEF EndsWell, Ends, Caused, StopUnderWay, NoKind, OnScreen, Owned
    <3> QED BY <2>1, <2>4, <3>1, <3>2, <3>3, PartsUntouched
  <2> QED BY <2>1, <2>3, <2>4
<1> QED BY <1>1, <1>2, <1>3, <1>4 DEF FeedSteps

\* A message is put into the channel, or waits for room.
LEMMA Sent ==
  ASSUME DriveTyped, NEW msg \in Message, SendInput(msg), OnScreen
  PROVE  /\ msg # None
         /\ \/ ingress' = Append(ingress, msg) /\ drive' = [at |-> "select", hold |-> None]
            \/ ingress' = ingress /\ drive' = [at |-> "send", hold |-> msg]
BY NoneAssumption DEF SendInput, OnScreen

\* The select loop passes a message on: everything but where the table is.
LEMMA SendStep ==
  ASSUME DriveOK, thread # "not-started", NEW msg \in Message, SendInput(msg),
         Honest(msg), msg.kind # "reply", Open => msg.kind # "epoch",
         UNCHANGED <<ui, thread, known, guaranteed, stops, reading, feed, announced,
                     session, result, history>>,
         watcher' \in {watcher, "dropped"},
         events' \in Seq(Message), AllHonest(events)',
         \A k \in 1 .. Len(events') : events'[k].kind \in ClientEvents,
         Open => NoKind(events', {"epoch"})
  PROVE  DriveTyped' /\ Truthful' /\ EndsWell' /\ StopIsOwed' /\ Ordered' /\ ReadOnItsWay'
<1> USE DEF DriveOK
<1>1. /\ thread = "returned" => ingress' = ingress /\ drive' = [at |-> "leaving", hold |-> None]
      /\ OnScreen => \/ ingress' = Append(ingress, msg) /\ drive' = [at |-> "select", hold |-> None]
                     \/ ingress' = ingress /\ drive' = [at |-> "send", hold |-> msg]
      /\ msg # None
  BY NoneAssumption DEF SendInput, OnScreen
<1>2. ingress' \in {ingress, Append(ingress, msg)} /\ (ingress' # ingress => OnScreen)
  BY <1>1 DEF OnScreen
<1>3. /\ drive' \in [at : {"select", "send", "leaving", "cleanup", "done"},
                     hold : Message \cup {None}]
      /\ drive'.at = "send" <=> drive'.hold # None
      /\ drive'.hold \in {None, msg}
      /\ drive'.at \in {"leaving", "cleanup", "done"} => ~ OnScreen
      /\ drive'.at # "cleanup"
  BY <1>1 DEF OnScreen
<1>4. ingress \in Seq(Message) BY DEF DriveTyped
<1>5. /\ \A kinds : NoKind(ingress', kinds) <=>
           NoKind(ingress, kinds) /\ (ingress' # ingress => msg.kind \notin kinds)
      /\ \A x, kinds : msg.kind \notin kinds /\ OneOf(ingress, x, kinds) => OneOf(ingress', x, kinds)
  <2>1. CASE ingress' = ingress BY <2>1
  <2>2. CASE ingress' = Append(ingress, msg)
    <3>1. ASSUME NEW kinds, NoKind(Append(ingress, msg), kinds)
          PROVE  NoKind(ingress, kinds) /\ msg.kind \notin kinds
      <4>1. /\ Len(Append(ingress, msg)) = Len(ingress) + 1 /\ Len(ingress) \in Nat
            /\ Append(ingress, msg)[Len(ingress) + 1] = msg
            /\ \A k \in 1 .. Len(ingress) : Append(ingress, msg)[k] = ingress[k]
        BY <1>4, Appended
      <4>2. Len(ingress) + 1 \in 1 .. Len(Append(ingress, msg)) BY <4>1
      <4>3. \A k \in 1 .. Len(ingress) : k \in 1 .. Len(Append(ingress, msg)) BY <4>1
      <4> QED BY <3>1, <4>1, <4>2, <4>3 DEF NoKind
    <3>2. \A kinds : msg.kind \notin kinds =>
            /\ NoKind(ingress, kinds) => NoKind(Append(ingress, msg), kinds)
            /\ \A x : OneOf(ingress, x, kinds) => OneOf(Append(ingress, msg), x, kinds)
      BY <1>4, AppendOther
    <3> QED BY <1>1, <1>2, <2>2, <3>1, <3>2
  <2> QED BY <1>2, <2>1, <2>2
<1>6. ingress' \in Seq(Message) BY <1>2, <1>4
<1>7. DriveTyped'
  <2>1. watcher' \in {"armed", "dropped", "supervisor-stopped", "supervisor-failed"}
    BY DEF DriveTyped
  <2> QED BY <1>3, <1>6, <2>1 DEF DriveTyped
<1>8. Truthful'
  <2>1. \A k \in 1 .. Len(ingress') : ingress'[k] = msg \/ \E j \in 1 .. Len(ingress) : ingress'[k] = ingress[j]
    BY <1>2, <1>4, Appended
  <2>2. AllHonest(ingress)' BY <2>1 DEF Truthful, AllHonest, Honest
  <2> QED BY <1>3, <2>2 DEF Truthful, AllHonest, Honest, StopsHonest
<1>9. EndsWell' BY <1>3 DEF EndsWell, Ends, Caused, StopUnderWay, NoKind, OnScreen, Owned
<1>10. StopIsOwed'
  <2>1. NoKind(ingress', Completions) => NoKind(ingress, Completions) BY <1>5
  <2>2. (StopUnderWay <=> StopUnderWay') /\ ui' = ui BY DEF StopUnderWay, NoKind
  <2>3. NoKind(ingress, Completions)' <=> NoKind(ingress', Completions) BY DEF NoKind, Completions
  <2> QED BY <2>1, <2>2, <2>3 DEF StopIsOwed
<1>11. Ordered'
  <2>1. Open => NoKind(ingress', {"epoch"}) BY <1>5 DEF Ordered
  <2>2. drive'.hold # None => drive'.hold.kind # "reply" /\ (Open => drive'.hold.kind # "epoch")
    BY <1>3
  <2> QED BY <2>1, <2>2 DEF Ordered, Open, NoKind
<1>12. ReadOnItsWay'
  <2>1. NoKind(ingress, {"reply"}) => NoKind(ingress', {"reply"}) BY <1>5
  <2>2. OneOf(ingress, Reply(ui.asked), {"reply"}) => OneOf(ingress', Reply(ui.asked), {"reply"})
    BY <1>5
  <2> QED BY <2>1, <2>2 DEF ReadOnItsWay, Rows, NoKind, OneOf, Open
<1> QED BY <1>7, <1>8, <1>9, <1>10, <1>11, <1>12

\* A table that is sent is a message.
LEMMA ShownIsMessage ==
  ASSUME NEW table \in SUBSET Participants
  PROVE  Shown(table) \in Message
BY DEF Shown, Message

\* Nothing is said of the table while none was sent.
LEMMA TableMoot ==
  ASSUME UNCHANGED <<thread, feed>>, ~ (OnScreen /\ feed.at = "borrow" /\ feed.table # None)
  PROVE  TableOnItsWay'
BY DEF TableOnItsWay, OnScreen

\* Where the table is when a message was passed on that is no table.
LEMMA TablePassed ==
  ASSUME DriveTyped, TableOnItsWay, NEW msg \in Message, SendInput(msg), msg.kind # "processes",
         UNCHANGED <<ui, thread, feed>>,
         drive.hold = msg \/ drive.hold = None,
         OnScreen =>
           /\ NoKind(events, {"processes"}) => NoKind(events', {"processes"})
           /\ \A x : LastOf(events, x, {"processes"}) /\ x.kind = "processes" =>
                LastOf(events', x, {"processes"})
  PROVE  TableOnItsWay'
<1> SUFFICES ASSUME OnScreen, feed.at = "borrow", feed.table # None
             PROVE  TableOnItsWay'
  BY TableMoot
<1> DEFINE t == Shown(feed.table)
<1>1. t.kind = "processes" BY DEF Shown
<1> HIDE DEF t
<1>2. /\ msg # None
      /\ \/ ingress' = Append(ingress, msg) /\ drive' = [at |-> "select", hold |-> None]
         \/ ingress' = ingress /\ drive' = [at |-> "send", hold |-> msg]
  BY Sent
<1>3. drive'.hold # None => drive'.hold.kind # "processes" BY <1>2
<1>4. ingress \in Seq(Message) BY DEF DriveTyped
<1>5. /\ NoKind(ingress, {"processes"}) => NoKind(ingress', {"processes"})
      /\ LastOf(ingress, t, {"processes"}) => LastOf(ingress', t, {"processes"})
  <2>1. /\ NoKind(ingress, {"processes"}) => NoKind(Append(ingress, msg), {"processes"})
        /\ LastOf(ingress, t, {"processes"}) => LastOf(Append(ingress, msg), t, {"processes"})
    BY <1>4, AppendOther
  <2> QED BY <1>2, <2>1
<1>6. drive.hold # t
  <2>1. feed.table \in SUBSET Participants BY DEF DriveTyped
  <2>2. t \in Message BY <2>1, ShownIsMessage DEF t
  <2>3. t # None BY <2>2, NoneAssumption
  <2> QED BY <1>1, <2>3
<1>7. \/ LastOf(events, t, {"processes"})
      \/ /\ NoKind(events, {"processes"})
         /\ \/ LastOf(ingress, t, {"processes"})
            \/ NoKind(ingress, {"processes"}) /\ ui.processes = feed.table
  BY <1>6 DEF TableOnItsWay, t
<1>8. \/ LastOf(events', t, {"processes"})
      \/ /\ NoKind(events', {"processes"})
         /\ \/ LastOf(ingress', t, {"processes"})
            \/ NoKind(ingress', {"processes"}) /\ ui.processes = feed.table
  BY <1>1, <1>5, <1>7
<1> QED BY <1>3, <1>8 DEF TableOnItsWay, t, OnScreen, NoKind, LastOf

\* Signals, and the end of the owned supervisor.
LEMMA ReceiveStep ==
  ASSUME DriveOK, ReceiveSupervisorExit \/ \E kind \in {"interrupt", "terminate"} : ReceiveSignal(kind)
  PROVE  DriveOK'
<1> USE DEF DriveOK
<1>1. PICK msg \in Message :
        /\ drive.at = "select" /\ thread # "not-started"
        /\ msg.kind \in {"interrupt", "terminate", "supervisor-stopped", "supervisor-failed"}
        /\ Honest(msg) /\ SendInput(msg)
        /\ watcher' \in {watcher, "dropped"}
        /\ UNCHANGED <<ui, thread, known, guaranteed, stops, reading, events, feed, announced,
                       session, result, history>>
  <2>1. CASE ReceiveSupervisorExit
    <3> DEFINE msg == [kind |-> watcher]
    <3>1. /\ Selecting /\ watcher \in {"supervisor-stopped", "supervisor-failed"}
          /\ SendInput(msg) /\ watcher' = "dropped"
          /\ UNCHANGED <<ui, thread, known, guaranteed, stops, reading, events, feed, announced,
                         session, result, history>>
      BY <2>1 DEF ReceiveSupervisorExit
    <3>2. msg \in Message /\ Honest(msg) BY <3>1 DEF Message, Honest, Truthful
    <3> QED BY <3>1, <3>2 DEF Selecting
  <2>2. ASSUME NEW kind \in {"interrupt", "terminate"}, ReceiveSignal(kind)
        PROVE  \E msg \in Message :
                 /\ drive.at = "select" /\ thread # "not-started"
                 /\ msg.kind \in {"interrupt", "terminate", "supervisor-stopped", "supervisor-failed"}
                 /\ Honest(msg) /\ SendInput(msg)
                 /\ watcher' \in {watcher, "dropped"}
                 /\ UNCHANGED <<ui, thread, known, guaranteed, stops, reading, events, feed,
                                announced, session, result, history>>
    <3> DEFINE msg == [kind |-> kind]
    <3>1. /\ Selecting /\ SendInput(msg)
          /\ UNCHANGED <<ui, thread, known, guaranteed, stops, reading, events, feed, announced,
                         watcher, session, result, history>>
      BY <2>2 DEF ReceiveSignal, attachment
    <3>2. msg \in Message /\ Honest(msg) BY DEF Message, Honest
    <3> QED BY <3>1, <3>2 DEF Selecting
  <2> QED BY <2>1, <2>2
<1>2. /\ events' \in Seq(Message) /\ AllHonest(events)'
      /\ \A k \in 1 .. Len(events') : events'[k].kind \in ClientEvents
      /\ Open => NoKind(events', {"epoch"})
  BY <1>1 DEF DriveTyped, Truthful, AllHonest, Honest, Ordered
<1>3. DriveTyped' /\ Truthful' /\ EndsWell' /\ StopIsOwed' /\ Ordered' /\ ReadOnItsWay'
  BY <1>1, <1>2, SendStep
<1>4. drive.hold = None BY <1>1 DEF DriveTyped
<1>5. TableOnItsWay' BY <1>1, <1>4, TablePassed
<1> QED BY <1>3, <1>5

\* An event of the attachment is passed on.
LEMMA ReceiveEventStep ==
  ASSUME DriveOK, ReceiveEvent
  PROVE  DriveOK'
<1> USE DEF DriveOK
<1>0. PICK msg : msg = Head(events) OBVIOUS
<1>1. /\ drive.at = "select" /\ thread # "not-started" /\ events # <<>>
      /\ SendInput(msg) /\ events' = Tail(events)
      /\ UNCHANGED <<ui, thread, known, guaranteed, stops, reading, feed, announced, watcher,
                     session, result, history>>
  BY <1>0 DEF ReceiveEvent, Selecting
<1>2. /\ Len(events) \in Nat \ {0} /\ Len(events') = Len(events) - 1 /\ msg = events[1]
      /\ \A k \in 1 .. Len(events) - 1 : events'[k] = events[k + 1]
      /\ events' \in Seq(Message) /\ msg \in Message
  BY <1>0, <1>1, Taken DEF DriveTyped
<1>3. \A k \in 1 .. Len(events') : \E j \in 1 .. Len(events) : events'[k] = events[j]
  BY <1>2
<1>4. 1 \in 1 .. Len(events) BY <1>2
<1>5. /\ Honest(msg) /\ msg.kind \in ClientEvents
      /\ Open => msg.kind # "epoch"
  BY <1>2, <1>4 DEF Truthful, AllHonest, Ordered, NoKind
<1>6. /\ AllHonest(events)'
      /\ \A k \in 1 .. Len(events') : events'[k].kind \in ClientEvents
      /\ Open => NoKind(events', {"epoch"})
  BY <1>1, <1>3 DEF Truthful, AllHonest, Honest, Ordered, NoKind
<1>7. msg.kind # "reply" BY <1>5 DEF ClientEvents
<1>8. DriveTyped' /\ Truthful' /\ EndsWell' /\ StopIsOwed' /\ Ordered' /\ ReadOnItsWay'
  BY <1>1, <1>2, <1>5, <1>6, <1>7, SendStep
<1>9. drive.hold = None BY <1>1 DEF DriveTyped
<1>10. events \in Seq(Message) BY DEF DriveTyped
<1>11. /\ NoKind(events, {"processes"}) => NoKind(events', {"processes"})
       /\ \A x : LastOf(events, x, {"processes"}) =>
            LastOf(events', x, {"processes"}) \/ (msg = x /\ NoKind(events', {"processes"}))
  BY <1>0, <1>1, <1>10, TakenKinds
<1>12. ASSUME msg.kind # "processes" PROVE TableOnItsWay'
  <2>1. \A x : LastOf(events, x, {"processes"}) /\ x.kind = "processes" =>
          LastOf(events', x, {"processes"})
    BY <1>11, <1>12
  <2>2. SendInput(msg) /\ UNCHANGED <<ui, thread, feed>> BY <1>1
  <2> QED BY <1>2, <1>9, <1>11, <1>12, <2>1, <2>2, TablePassed
<1>13. ASSUME msg.kind = "processes" PROVE TableOnItsWay'
  <2>0. UNCHANGED <<thread, feed>> BY <1>1
  <2> SUFFICES ASSUME OnScreen, feed.at = "borrow", feed.table # None
               PROVE  TableOnItsWay'
    BY <2>0, TableMoot
  <2> DEFINE t == Shown(feed.table)
  <2>1. LastOf(events, t, {"processes"})
    <3>1. ~ NoKind(events, {"processes"}) BY <1>2, <1>4, <1>13 DEF NoKind
    <3> QED BY <3>1 DEF TableOnItsWay
  <2>2. CASE LastOf(events', t, {"processes"})
    BY <1>1, <2>2 DEF TableOnItsWay, LastOf
  <2>3. CASE msg = t /\ NoKind(events', {"processes"})
    <3>1. \/ ingress' = Append(ingress, msg) /\ drive' = [at |-> "select", hold |-> None]
          \/ ingress' = ingress /\ drive' = [at |-> "send", hold |-> msg]
      BY <1>1, <1>2, Sent
    <3>2. ingress \in Seq(Message) BY DEF DriveTyped
    <3>3. LastOf(Append(ingress, msg), msg, {"processes"}) BY <3>2, AppendFirst
    <3>4. \/ drive'.hold = t
          \/ drive'.hold = None /\ LastOf(ingress', t, {"processes"})
      <4>1. CASE ingress' = Append(ingress, msg) /\ drive' = [at |-> "select", hold |-> None]
        <5>1. LastOf(ingress', msg, {"processes"}) /\ drive'.hold = None BY <3>3, <4>1
        <5> QED BY <2>3, <5>1
      <4>2. CASE ingress' = ingress /\ drive' = [at |-> "send", hold |-> msg]
        BY <2>3, <4>2
      <4> QED BY <3>1, <4>1, <4>2
    <3> QED BY <1>1, <2>3, <3>4 DEF TableOnItsWay, LastOf, NoKind
  <2> QED BY <1>11, <2>1, <2>2, <2>3
<1> QED BY <1>8, <1>12, <1>13

\* What waited for room is passed on.
LEMMA HeldInputStep ==
  ASSUME DriveOK, HeldInput
  PROVE  DriveOK'
<1> USE DEF DriveOK
<1>0. PICK msg : msg = drive.hold OBVIOUS
<1>1. /\ drive.at = "send" /\ SendInput(msg)
      /\ Room \/ thread = "returned"
      /\ UNCHANGED <<ui, thread, known, guaranteed, stops, reading, events, feed, announced,
                     watcher, session, result, history>>
  BY <1>0 DEF HeldInput, attachment
<1>2. msg \in Message /\ msg # None BY <1>0, <1>1 DEF DriveTyped
<1>3. /\ Honest(msg) /\ msg.kind # "reply" /\ thread # "not-started"
      /\ Open => msg.kind # "epoch"
  BY <1>0, <1>1, <1>2 DEF Truthful, Ordered
<1>4. /\ events' \in Seq(Message) /\ AllHonest(events)'
      /\ \A k \in 1 .. Len(events') : events'[k].kind \in ClientEvents
      /\ Open => NoKind(events', {"epoch"})
  BY <1>1 DEF DriveTyped, Truthful, AllHonest, Honest, Ordered
<1>5. OnScreen => ingress' = Append(ingress, msg) /\ drive' = [at |-> "select", hold |-> None]
  BY <1>1 DEF SendInput, OnScreen
<1>6. DriveTyped' /\ Truthful' /\ EndsWell' /\ StopIsOwed' /\ Ordered' /\ ReadOnItsWay'
  BY <1>1, <1>2, <1>3, <1>4, SendStep
<1>7. ASSUME msg.kind # "processes" PROVE TableOnItsWay'
  <2>1. SendInput(msg) /\ UNCHANGED <<ui, thread, feed, events>> BY <1>1
  <2> QED BY <1>0, <1>2, <1>7, <2>1, TablePassed
<1>8. ASSUME msg.kind = "processes" PROVE TableOnItsWay'
  <2>1. UNCHANGED <<thread, feed>> BY <1>1
  <2> SUFFICES ASSUME OnScreen, feed.at = "borrow", feed.table # None
               PROVE  TableOnItsWay'
    BY <2>1, TableMoot
  <2> DEFINE t == Shown(feed.table)
  <2>2. \/ LastOf(events, t, {"processes"})
        \/ NoKind(events, {"processes"}) /\ msg = t
    BY <1>0, <1>2, <1>8 DEF TableOnItsWay
  <2>3. ingress \in Seq(Message) BY DEF DriveTyped
  <2>4. LastOf(Append(ingress, msg), msg, {"processes"}) BY <2>3, AppendFirst
  <2> QED BY <1>1, <1>5, <2>2, <2>4 DEF TableOnItsWay, LastOf, NoKind
<1> QED BY <1>6, <1>7, <1>8

\* A queue had none of some kinds if neither its head nor its tail has.
LEMMA TakenBack ==
  ASSUME NEW S, NEW s \in Seq(S), s # <<>>, NEW kinds, NoKind(Tail(s), kinds), Head(s).kind \notin kinds
  PROVE  NoKind(s, kinds)
<1>1. /\ Len(s) \in Nat \ {0} /\ Len(Tail(s)) = Len(s) - 1 /\ Head(s) = s[1]
      /\ \A k \in 1 .. Len(s) - 1 : Tail(s)[k] = s[k + 1]
  BY Taken
<1>2. ASSUME NEW k \in 1 .. Len(s) PROVE s[k].kind \notin kinds
  <2>1. CASE k = 1 BY <1>1, <2>1
  <2>2. CASE k # 1
    <3>1. k - 1 \in 1 .. Len(Tail(s)) /\ (k - 1) + 1 = k BY <1>1, <2>2
    <3>2. Tail(s)[k - 1] = s[k] BY <1>1, <3>1
    <3>3. Tail(s)[k - 1].kind \notin kinds BY <3>1 DEF NoKind
    <3> QED BY <3>2, <3>3
  <2> QED BY <2>1, <2>2
<1> QED BY <1>2 DEF NoKind

\* The router takes a confirmed stop, which takes over from the watcher.
LEMMA RouteStopStep ==
  ASSUME DriveOK, RouteStop
  PROVE  DriveOK'
<1> USE DEF DriveOK
<1> DEFINE new == [stage |-> "runtimes", failed |-> FALSE]
<1>1. /\ thread # "not-started" /\ drive.at = "select"
      /\ guaranteed # <<>> /\ Head(guaranteed).kind = "stop" /\ guaranteed' = Tail(guaranteed)
      /\ watcher' = "dropped" /\ stops' = Append(stops, new)
      /\ UNCHANGED <<ui, thread, known, ingress, drive, reading, events, feed, announced,
                     session, result, history>>
  BY DEF RouteStop, Selecting
<1>2. /\ guaranteed \in Seq(Effects)
      /\ stops \in Seq([stage : {"runtimes", "supervisor", "report"}, failed : BOOLEAN])
  BY DEF DriveTyped
<1>3. new \in [stage : {"runtimes", "supervisor", "report"}, failed : BOOLEAN]
      /\ ~ new.failed /\ new.stage # "report"
  OBVIOUS
<1> HIDE DEF new
<1>4. /\ stops' \in Seq([stage : {"runtimes", "supervisor", "report"}, failed : BOOLEAN])
      /\ Len(stops') = Len(stops) + 1 /\ Len(stops) \in Nat
      /\ stops'[Len(stops) + 1] = new
      /\ \A k \in 1 .. Len(stops) : stops'[k] = stops[k]
  <2>1. stops' = Append(stops, new) BY <1>1
  <2> QED BY <1>2, <1>3, <2>1, Appended
<1>5. stops' # <<>> BY <1>4
<1>6. StopUnderWay /\ StopUnderWay'
  <2>1. Head(guaranteed) = guaranteed[1] /\ 1 \in 1 .. Len(guaranteed) BY <1>1, <1>2, Taken
  <2> QED BY <1>1, <1>5, <2>1 DEF StopUnderWay, NoKind
<1>7. /\ guaranteed' \in Seq(Effects)
      /\ NoKind(guaranteed, {"read"}) => NoKind(guaranteed', {"read"})
      /\ \A x : OneOf(guaranteed, x, {"read"}) /\ x.kind = "read" => OneOf(guaranteed', x, {"read"})
  BY <1>1, <1>2, Taken, TakenKinds
<1>8. DriveTyped' BY <1>1, <1>4, <1>7 DEF DriveTyped
<1>9. Truthful'
  <2>1. \A k \in 1 .. Len(stops') : stops'[k] = new \/ (k \in 1 .. Len(stops) /\ stops'[k] = stops[k])
    <3>1. /\ Len(stops') = Len(stops) + 1 /\ Len(stops) \in Nat
          /\ stops'[Len(stops) + 1] = new
          /\ \A k \in 1 .. Len(stops) : stops'[k] = stops[k]
      BY <1>4
    <3> TAKE k \in 1 .. Len(stops')
    <3>2. k = Len(stops) + 1 \/ k \in 1 .. Len(stops) BY <3>1
    <3> QED BY <3>1, <3>2
  <2>2. StopsHonest' BY <1>1, <1>3, <2>1 DEF Truthful, StopsHonest
  <2> QED BY <1>1, <2>2 DEF Truthful, AllHonest, Honest
<1>10. EndsWell'
  <2>1. OnScreen => Ends(ui)' BY <1>1, <1>6 DEF EndsWell, Ends, Caused, NoKind
  <2> QED BY <1>1, <1>6, <2>1 DEF EndsWell, Caused, OnScreen, Owned
<1>11. StopIsOwed' BY <1>6 DEF StopIsOwed
<1>12. Ordered' BY <1>1 DEF Ordered, Open, NoKind
<1>13. ReadOnItsWay'
  <2>1. Read(ui.asked).kind = "read" BY DEF Read
  <2>2. /\ OneOf(guaranteed, Read(ui.asked), {"read"}) => OneOf(guaranteed', Read(ui.asked), {"read"})
        /\ ui' = ui /\ reading' = reading /\ ingress' = ingress /\ (Open' => Open)
    BY <1>1, <1>7, <2>1 DEF Open
  <2> QED BY <1>7, <2>2 DEF ReadOnItsWay
<1> QED BY <1>1, <1>8, <1>9, <1>10, <1>11, <1>12, <1>13, PartsUntouched

\* The router takes a read.
LEMMA RouteReadStep ==
  ASSUME DriveOK, RouteRead
  PROVE  DriveOK'
<1> USE DEF DriveOK
<1>0. PICK e : e = Head(guaranteed) OBVIOUS
<1>1. /\ thread # "not-started" /\ drive.at = "select"
      /\ guaranteed # <<>> /\ e.kind = "read" /\ guaranteed' = Tail(guaranteed)
      /\ reading' = e.query
      /\ UNCHANGED <<ui, thread, known, ingress, drive, stops, events, feed, announced, watcher,
                     session, result, history>>
  BY <1>0 DEF RouteRead, Selecting, attachment
<1>2. guaranteed \in Seq(Effects) BY DEF DriveTyped
<1>3. /\ guaranteed' \in Seq(Effects) /\ e \in Effects
      /\ e = guaranteed[1] /\ 1 \in 1 .. Len(guaranteed)
  BY <1>0, <1>1, <1>2, Taken
<1>4. reading' \in Queries BY <1>1, <1>3 DEF Effects
<1>5. StopUnderWay <=> StopUnderWay'
  <2>1. e.kind \notin {"stop"} BY <1>1
  <2>2. NoKind(guaranteed, {"stop"}) <=> NoKind(guaranteed', {"stop"})
    BY <1>0, <1>1, <1>2, <2>1, TakenKinds, TakenBack
  <2> QED BY <1>1, <2>2 DEF StopUnderWay, NoKind
<1>6. DriveTyped' BY <1>1, <1>3, <1>4 DEF DriveTyped
<1>7. Truthful' BY <1>1 DEF Truthful, AllHonest, Honest, StopsHonest
<1>8. EndsWell'
  <2>1. OnScreen => Ends(ui)' BY <1>1, <1>5 DEF EndsWell, Ends, Caused, NoKind
  <2> QED BY <1>1, <1>5, <2>1 DEF EndsWell, Caused, OnScreen, Owned
<1>9. StopIsOwed' BY <1>1, <1>5 DEF StopIsOwed, NoKind
<1>10. Ordered' BY <1>1 DEF Ordered, Open, NoKind
<1>11. ReadOnItsWay'
  <2>1. ~ NoKind(guaranteed, {"read"}) BY <1>1, <1>3 DEF NoKind
  <2>2. \A x : OneOf(guaranteed, x, {"read"}) => e = x /\ NoKind(guaranteed', {"read"})
    BY <1>0, <1>1, <1>2, TakenKinds
  <2>3. Read(ui.asked).query = ui.asked BY DEF Read
  <2> QED BY <1>1, <2>1, <2>2, <2>3 DEF ReadOnItsWay, Rows, NoKind, Open
<1> QED BY <1>1, <1>6, <1>7, <1>8, <1>9, <1>10, <1>11, PartsUntouched

\* The answer of a task arrives.
LEMMA AnswerArrives ==
  ASSUME DriveOK, NEW e \in Message, Honest(e), e.kind \in {"reply"} \cup Completions,
         ingress' = Append(ingress, e),
         UNCHANGED <<ui, thread, drive, events, feed, session, history>>
  PROVE  /\ ingress' \in Seq(Message) /\ AllHonest(ingress)' /\ TableOnItsWay'
         /\ NoKind(ingress, {"epoch"}) => NoKind(ingress', {"epoch"})
<1> USE DEF DriveOK
<1>1. ingress \in Seq(Message) BY DEF DriveTyped
<1>2. /\ ingress' \in Seq(Message) /\ Len(ingress') = Len(ingress) + 1 /\ Len(ingress) \in Nat
      /\ ingress'[Len(ingress) + 1] = e
      /\ \A k \in 1 .. Len(ingress) : ingress'[k] = ingress[k]
  BY <1>1, Appended
<1>3. \A k \in 1 .. Len(ingress') : ingress'[k] = e \/ \E j \in 1 .. Len(ingress) : ingress'[k] = ingress[j]
  BY <1>2
<1>4. AllHonest(ingress)' BY <1>3 DEF Truthful, AllHonest, Honest
<1>5. e.kind # "processes" /\ e.kind # "epoch" BY DEF Completions
<1>6. /\ NoKind(ingress, {"epoch"}) => NoKind(ingress', {"epoch"})
      /\ NoKind(ingress, {"processes"}) => NoKind(ingress', {"processes"})
      /\ \A x : LastOf(ingress, x, {"processes"}) => LastOf(ingress', x, {"processes"})
  BY <1>1, <1>5, AppendOther
<1>7. TableOnItsWay'
  <2> SUFFICES ASSUME OnScreen, feed.at = "borrow", feed.table # None
               PROVE  TableOnItsWay'
    BY TableMoot
  <2> DEFINE t == Shown(feed.table)
  <2>1. LastOf(ingress, t, {"processes"}) => LastOf(ingress', t, {"processes"}) BY <1>6
  <2>2. \/ LastOf(events, t, {"processes"})
        \/ /\ NoKind(events, {"processes"})
           /\ \/ drive.hold = t
              \/ /\ drive.hold # None => drive.hold.kind # "processes"
                 /\ \/ LastOf(ingress', t, {"processes"})
                    \/ NoKind(ingress', {"processes"}) /\ ui.processes = feed.table
    BY <1>6, <2>1 DEF TableOnItsWay
  <2> QED BY <2>2 DEF TableOnItsWay, NoKind, LastOf
<1> QED BY <1>2, <1>4, <1>6, <1>7

\* A read is answered.
LEMMA AnswerReadStep ==
  ASSUME DriveOK, AnswerRead
  PROVE  DriveOK'
<1> USE DEF DriveOK
<1>0. PICK query : query = reading OBVIOUS
<1>1. /\ query # None /\ reading' = None /\ announced' = FALSE
      /\ ingress' = IF thread = "returned" THEN ingress ELSE Append(ingress, Reply(query))
      /\ UNCHANGED <<ui, thread, known, guaranteed, drive, stops, events, feed, watcher,
                     session, result, history>>
  BY <1>0 DEF AnswerRead, Reply
<1>2. query \in Queries BY <1>0, <1>1 DEF DriveTyped
<1>3. /\ Reply(query) \in Message /\ Honest(Reply(query)) /\ Reply(query).kind = "reply"
  BY <1>2 DEF Reply, Message, Honest
<1>4. /\ ingress' \in Seq(Message) /\ AllHonest(ingress)' /\ TableOnItsWay'
      /\ NoKind(ingress, {"epoch"}) => NoKind(ingress', {"epoch"})
  <2>1. CASE thread = "returned"
    BY <1>1, <2>1, PartsUntouched DEF DriveTyped, Truthful, AllHonest, Honest
  <2>2. CASE thread # "returned"
    <3>1. /\ ingress' = Append(ingress, Reply(query))
          /\ UNCHANGED <<ui, thread, drive, events, feed, session, history>>
      BY <1>1, <2>2
    <3> QED BY <1>3, <3>1, AnswerArrives
  <2> QED BY <2>1, <2>2
<1>5. thread # "not-started" BY <1>0, <1>1 DEF Ordered
<1>6. DriveTyped'
  <2>1. /\ ingress' \in Seq(Message) /\ reading' = None /\ announced' \in BOOLEAN
        /\ UNCHANGED <<ui, thread, known, guaranteed, drive, stops, events, feed, watcher,
                       session, result, history>>
    BY <1>1, <1>4
  <2> QED BY <2>1 DEF DriveTyped
<1>7. Truthful' BY <1>1, <1>4 DEF Truthful, AllHonest, Honest, StopsHonest
<1>8. EndsWell' BY <1>1 DEF EndsWell, Ends, Caused, StopUnderWay, NoKind, OnScreen, Owned
<1>9. ingress \in Seq(Message) BY DEF DriveTyped
<1>10. StopIsOwed'
  <2>1. NoKind(ingress', Completions) => NoKind(ingress, Completions)
    <3>1. \A k \in 1 .. Len(ingress) : Append(ingress, Reply(query))[k] = ingress[k]
                                       /\ k \in 1 .. Len(Append(ingress, Reply(query)))
      BY <1>9, Appended
    <3> QED BY <1>1, <3>1 DEF NoKind
  <2>2. StopUnderWay <=> StopUnderWay' BY <1>1 DEF StopUnderWay, NoKind
  <2>3. NoKind(ingress, Completions)' <=> NoKind(ingress', Completions) BY DEF NoKind, Completions
  <2> QED BY <1>1, <2>1, <2>2, <2>3 DEF StopIsOwed
<1>11. Ordered' BY <1>1, <1>4, <1>5 DEF Ordered, Open, NoKind
<1>12. ReadOnItsWay'
  <2>1. Open => ingress' = Append(ingress, Reply(query)) BY <1>1 DEF Open
  <2>2. NoKind(ingress, {"reply"}) => OneOf(Append(ingress, Reply(query)), Reply(query), {"reply"})
    BY <1>9, AppendFirst
  <2> QED BY <1>0, <1>1, <2>1, <2>2 DEF ReadOnItsWay, Rows, NoKind, OneOf, Open
<1> QED BY <1>4, <1>6, <1>7, <1>8, <1>10, <1>11, <1>12

\* What is in a sequence.
LEMMA Member ==
  ASSUME NEW S, NEW s \in Seq(S), NEW k \in 1 .. Len(s)
  PROVE  s[k] \in S
OBVIOUS

\* An element is removed.
LEMMA Removed ==
  ASSUME NEW S, NEW s \in Seq(S), NEW k \in 1 .. Len(s)
  PROVE  /\ RemoveAt(s, k) \in Seq(S) /\ s # <<>>
         /\ \A i \in 1 .. Len(RemoveAt(s, k)) : \E j \in 1 .. Len(s) : RemoveAt(s, k)[i] = s[j]
<1> DEFINE a == SubSeq(s, 1, k - 1)
           b == SubSeq(s, k + 1, Len(s))
<1>1. RemoveAt(s, k) = a \o b BY DEF RemoveAt
<1>2. Len(s) \in Nat OBVIOUS
<1>3. /\ a \in Seq(S) /\ Len(a) = k - 1
      /\ \A i \in 1 .. k - 1 : a[i] = s[i]
  BY <1>2
<1>4. /\ b \in Seq(S) /\ Len(b) = Len(s) - k
      /\ \A i \in 1 .. Len(s) - k : b[i] = s[k + i]
  BY <1>2
<1> HIDE DEF a, b
<1>5. /\ Len(a \o b) = Len(a) + Len(b) /\ Len(a) \in Nat /\ Len(b) \in Nat
      /\ \A i \in 1 .. Len(a) : (a \o b)[i] = a[i]
      /\ \A i \in 1 .. Len(b) : (a \o b)[Len(a) + i] = b[i]
      /\ a \o b \in Seq(S)
  BY <1>3, <1>4, Joined
<1>6. ASSUME NEW i \in 1 .. Len(a \o b) PROVE \E j \in 1 .. Len(s) : (a \o b)[i] = s[j]
  <2>1. CASE i <= k - 1
    <3>1. i \in 1 .. Len(a) /\ i \in 1 .. Len(s) BY <1>2, <1>3, <1>5, <2>1
    <3> QED BY <1>3, <1>5, <3>1
  <2>2. CASE i > k - 1
    <3>1. i - (k - 1) \in 1 .. Len(b) /\ Len(a) + (i - (k - 1)) = i BY <1>2, <1>3, <1>4, <1>5, <2>2
    <3>2. (a \o b)[i] = b[i - (k - 1)] BY <1>5, <3>1
    <3>3. b[i - (k - 1)] = s[k + (i - (k - 1))] BY <1>4, <3>1
    <3>4. k + (i - (k - 1)) \in 1 .. Len(s) BY <1>2, <1>3, <1>4, <1>5, <2>2
    <3> QED BY <3>2, <3>3, <3>4
  <2> QED BY <1>2, <1>5, <2>1, <2>2
<1>7. s # <<>> BY <1>2
<1> QED BY <1>1, <1>5, <1>6, <1>7

Stages == {"runtimes", "supervisor", "report"}

\* A stage of a confirmed stop.
LEMMA StopStageStep ==
  ASSUME DriveOK, NEW k \in DOMAIN stops, StopStage(k)
  PROVE  DriveOK'
<1> USE DEF DriveOK
<1>1. PICK gone \in BOOLEAN :
        /\ stops[k].stage # "report"
        /\ session' = [session EXCEPT ![stops[k].stage] = @ /\ ~ gone]
        /\ stops' = [stops EXCEPT ![k] = [failed |-> @.failed \/ ~ gone,
                       stage |-> IF @.stage = "runtimes" THEN "supervisor" ELSE "report"]]
        /\ history' = [history EXCEPT !.failed = @ \/ ~ gone]
        /\ UNCHANGED <<ui, thread, known, ingress, guaranteed, drive, reading, events, feed,
                       announced, watcher, result>>
  BY DEF StopStage, Terminates, attachment
<1>2. /\ stops \in Seq([stage : Stages, failed : BOOLEAN])
      /\ session \in [supervisor : BOOLEAN, runtimes : BOOLEAN, table : SUBSET Participants]
      /\ history \in [alone : BOOLEAN, failed : BOOLEAN]
  BY DEF DriveTyped, Stages
<1>3. k \in 1 .. Len(stops) BY <1>2
<1>4. stops[k] \in [stage : Stages, failed : BOOLEAN]
  <2>1. stops \in Seq([stage : Stages, failed : BOOLEAN]) BY <1>2
  <2> QED BY <1>3, <2>1, Member
<1> DEFINE which == stops[k].stage
           new == [failed |-> stops[k].failed \/ ~ gone,
                   stage |-> IF which = "runtimes" THEN "supervisor" ELSE "report"]
<1>5. which \in {"runtimes", "supervisor"} BY <1>1, <1>4 DEF Stages
<1>6. new \in [stage : Stages, failed : BOOLEAN] BY <1>4 DEF Stages
<1>7. /\ new.failed <=> stops[k].failed \/ ~ gone
      /\ new.stage = "report" => which = "supervisor"
  BY <1>5
<1>8. stops' = [stops EXCEPT ![k] = new] BY <1>1
<1> HIDE DEF new, which
<1>9. /\ stops' \in Seq([stage : Stages, failed : BOOLEAN]) /\ Len(stops') = Len(stops)
      /\ stops'[k] = new /\ \A j \in 1 .. Len(stops) : j # k => stops'[j] = stops[j]
      /\ stops # <<>> /\ stops' # <<>>
  BY <1>2, <1>3, <1>6, <1>8
<1>10. /\ session' \in [supervisor : BOOLEAN, runtimes : BOOLEAN, table : SUBSET Participants]
       /\ session'.supervisor => session.supervisor
       /\ session'.runtimes => session.runtimes
       /\ which = "supervisor" /\ gone => ~ session'.supervisor
  <2>1. session' = [session EXCEPT ![which] = session[which] /\ ~ gone] BY <1>1 DEF which
  <2>2. CASE which = "runtimes"
    <3>1. session' = [session EXCEPT !.runtimes = session.runtimes /\ ~ gone] BY <2>1, <2>2
    <3> QED BY <1>2, <2>2, <3>1
  <2>3. CASE which = "supervisor"
    <3>1. session' = [session EXCEPT !.supervisor = session.supervisor /\ ~ gone] BY <2>1, <2>3
    <3> QED BY <1>2, <2>3, <3>1
  <2> QED BY <1>5, <2>2, <2>3
<1>11. /\ history' \in [alone : BOOLEAN, failed : BOOLEAN]
       /\ history'.alone = history.alone
       /\ history'.failed <=> history.failed \/ ~ gone
  BY <1>1, <1>2
<1>12. StopUnderWay /\ StopUnderWay' BY <1>9 DEF StopUnderWay
<1>13. DriveTyped'
  <2>1. UNCHANGED <<ui, thread, known, ingress, guaranteed, drive, reading, events, feed,
                    announced, watcher, result>>
    BY <1>1
  <2> QED BY <1>9, <1>10, <1>11, <2>1 DEF DriveTyped, Stages
<1>14. Truthful'
  <2>1. UNCHANGED <<ingress, events, drive, watcher>> BY <1>1
  <2>2. StopsHonest'
    <3> SUFFICES ASSUME NEW j \in 1 .. Len(stops)
                 PROVE  /\ stops'[j].failed => history'.failed
                        /\ stops'[j].stage = "report" /\ ~ stops'[j].failed => ~ session'.supervisor
      BY <1>9 DEF StopsHonest
    <3>1. CASE j = k
      <4>1. stops[k].failed => history.failed BY <1>3 DEF Truthful, StopsHonest
      <4> QED BY <1>7, <1>9, <1>10, <1>11, <3>1, <4>1
    <3>2. CASE j # k
      <4>1. /\ stops[j].failed => history.failed
            /\ stops[j].stage = "report" /\ ~ stops[j].failed => ~ session.supervisor
        BY DEF Truthful, StopsHonest
      <4> QED BY <1>9, <1>10, <1>11, <3>2, <4>1
    <3> QED BY <3>1, <3>2
  <2> QED BY <1>10, <1>11, <2>1, <2>2 DEF Truthful, AllHonest, Honest
<1>15. EndsWell'
  <2>1. UNCHANGED <<ui, thread, drive, result>> BY <1>1
  <2>2. OnScreen => Ends(ui)'
    BY <1>10, <1>11, <1>12, <2>1 DEF EndsWell, Ends, Caused, NoKind
  <2> QED BY <1>10, <1>11, <1>12, <2>1, <2>2 DEF EndsWell, Caused, OnScreen, Owned
<1>16. StopIsOwed' BY <1>12 DEF StopIsOwed
<1>17. Ordered' BY <1>1, <1>9 DEF Ordered, Open, NoKind
<1> QED BY <1>1, <1>13, <1>14, <1>15, <1>16, <1>17, PartsUntouched

\* A stop that is done is answered.
LEMMA ReportStopStep ==
  ASSUME DriveOK, NEW k \in DOMAIN stops, ReportStop(k)
  PROVE  DriveOK'
<1> USE DEF DriveOK
<1>0. PICK e : e = [kind |-> IF stops[k].failed THEN "stop-failed" ELSE "stopped"] OBVIOUS
<1>1. /\ stops[k].stage = "report" /\ stops' = RemoveAt(stops, k)
      /\ ingress' = IF thread = "returned" THEN ingress ELSE Append(ingress, e)
      /\ UNCHANGED <<ui, thread, known, guaranteed, drive, reading, events, feed, announced,
                     watcher, session, result, history>>
  BY <1>0 DEF ReportStop, attachment
<1>2. stops \in Seq([stage : Stages, failed : BOOLEAN]) BY DEF DriveTyped, Stages
<1>3. k \in 1 .. Len(stops) BY <1>2
<1>4. /\ stops' \in Seq([stage : Stages, failed : BOOLEAN]) /\ stops # <<>>
      /\ \A i \in 1 .. Len(stops') : \E j \in 1 .. Len(stops) : stops'[i] = stops[j]
  BY <1>1, <1>2, <1>3, Removed
<1>5. /\ e \in Message /\ e.kind \in Completions BY <1>0 DEF Message, Completions
<1>6. Honest(e)
  <2>1. /\ stops[k].failed => history.failed
        /\ ~ stops[k].failed => ~ session.supervisor
    BY <1>1, <1>3 DEF Truthful, StopsHonest
  <2>2. CASE stops[k].failed BY <1>0, <2>1, <2>2 DEF Honest
  <2>3. CASE ~ stops[k].failed BY <1>0, <2>1, <2>3 DEF Honest
  <2> QED BY <2>2, <2>3
<1>7. /\ ingress' \in Seq(Message) /\ AllHonest(ingress)' /\ TableOnItsWay'
      /\ NoKind(ingress, {"epoch"}) => NoKind(ingress', {"epoch"})
  <2>1. CASE thread = "returned"
    BY <1>1, <2>1, PartsUntouched DEF DriveTyped, Truthful, AllHonest, Honest
  <2>2. CASE thread # "returned"
    <3>1. /\ ingress' = Append(ingress, e)
          /\ UNCHANGED <<ui, thread, drive, events, feed, session, history>>
      BY <1>1, <2>2
    <3> QED BY <1>5, <1>6, <3>1, AnswerArrives
  <2> QED BY <2>1, <2>2
<1>8. thread # "not-started" BY <1>4 DEF Ordered
<1>9. ingress \in Seq(Message) BY DEF DriveTyped
<1>10. StopUnderWay /\ (NoKind(guaranteed', {"stop"}) <=> NoKind(guaranteed, {"stop"}))
  BY <1>1, <1>4 DEF StopUnderWay
<1>11. DriveTyped'
  <2>1. UNCHANGED <<ui, thread, known, guaranteed, drive, reading, events, feed,
                    announced, watcher, session, result, history>>
    BY <1>1
  <2> QED BY <1>4, <1>7, <2>1 DEF DriveTyped, Stages
<1>12. Truthful'
  <2>1. UNCHANGED <<events, drive, watcher, session, history>> BY <1>1
  <2>2. StopsHonest' BY <1>4, <2>1 DEF Truthful, StopsHonest
  <2> QED BY <1>7, <2>1, <2>2 DEF Truthful, AllHonest, Honest
<1>13. EndsWell'
  <2>1. UNCHANGED <<ui, thread, drive, session, result, history>> BY <1>1
  <2>2. OnScreen => Ends(ui)' BY <1>10, <2>1 DEF EndsWell, Ends, Caused, NoKind
  <2> QED BY <1>10, <2>1, <2>2 DEF EndsWell, Caused, OnScreen, Owned
<1>14. StopIsOwed'
  <2> SUFFICES ASSUME ui.stopRequested PROVE ~ NoKind(ingress', Completions)
    <3>1. NoKind(ingress, Completions)' <=> NoKind(ingress', Completions) BY DEF NoKind, Completions
    <3> QED BY <1>1, <3>1 DEF StopIsOwed
  <2>1. ingress' = Append(ingress, e) BY <1>1 DEF EndsWell, OnScreen
  <2>2. /\ Len(ingress') = Len(ingress) + 1 /\ Len(ingress) \in Nat
        /\ ingress'[Len(ingress) + 1] = e
    BY <1>9, <2>1, Appended
  <2>3. Len(ingress) + 1 \in 1 .. Len(ingress') BY <2>2
  <2> QED BY <1>5, <2>2, <2>3 DEF NoKind
<1>15. Ordered' BY <1>1, <1>7, <1>8 DEF Ordered, Open, NoKind
<1>16. ReadOnItsWay'
  <2>1. e.kind \notin {"reply"} BY <1>5 DEF Completions
  <2>2. /\ NoKind(ingress, {"reply"}) => NoKind(ingress', {"reply"})
        /\ \A x : OneOf(ingress, x, {"reply"}) => OneOf(ingress', x, {"reply"})
    BY <1>1, <1>9, <2>1, AppendOther
  <2>3. OneOf(ingress, Reply(ui.asked), {"reply"}) => OneOf(ingress', Reply(ui.asked), {"reply"})
    BY <2>2
  <2>4. UNCHANGED <<ui, thread, guaranteed, reading>> BY <1>1
  <2> QED BY <2>2, <2>3, <2>4 DEF ReadOnItsWay, Rows, NoKind, OneOf, Open
<1> QED BY <1>7, <1>11, <1>12, <1>13, <1>14, <1>15, <1>16

\* The application has returned, and the session is left: what is queued is
\* dropped, and what is over is cleaned up by its owner.
LEMMA LeavingSteps ==
  ASSUME DriveOK, UiReturned \/ Leave \/ Cleanup
  PROVE  DriveOK'
<1> USE DEF DriveOK
<1>1. CASE UiReturned
  <2>1. /\ thread = "returned" /\ drive' = [at |-> "leaving", hold |-> None]
        /\ UNCHANGED <<ui, thread, known, ingress, guaranteed, stops, reading, events, feed,
                       announced, watcher, session, result, history>>
    BY <1>1 DEF UiReturned, attachment
  <2>2. DriveTyped' BY <2>1 DEF DriveTyped
  <2>3. Truthful' BY <2>1 DEF Truthful, AllHonest, Honest, StopsHonest
  <2>4. EndsWell' BY <2>1 DEF EndsWell, Caused, StopUnderWay, NoKind, OnScreen, Owned
  <2>5. Ordered' BY <2>1 DEF Ordered, Open
  <2>6. TableOnItsWay' BY <2>1 DEF TableOnItsWay, OnScreen
  <2> QED BY <2>1, <2>2, <2>3, <2>4, <2>5, <2>6, PartsUntouched
<1>2. CASE Leave
  <2>1. /\ drive.at = "leaving" /\ stops = <<>>
        /\ guaranteed' = <<>> /\ reading' = None /\ events' = <<>> /\ ingress' = <<>>
        /\ watcher' = "dropped"
        /\ UNCHANGED <<ui, thread, known, stops, feed, announced, session, history>>
    BY <1>2 DEF Leave
  <2>2. \/ /\ Outcome = "detached" \/ ~ Owned
           /\ drive' = [drive EXCEPT !.at = "done"] /\ result' = Outcome
        \/ /\ Owned /\ drive' = [drive EXCEPT !.at = "cleanup"] /\ result' = result
    BY <1>2 DEF Leave
  <2>3. /\ drive' \in [at : {"select", "send", "leaving", "cleanup", "done"},
                       hold : Message \cup {None}]
        /\ drive'.hold = None /\ drive'.at \in {"cleanup", "done"}
        /\ ~ Owned => drive'.at # "cleanup"
    BY <2>1, <2>2 DEF DriveTyped
  <2>4. ~ OnScreen BY <2>1 DEF EndsWell
  <2>5. DriveTyped' BY <2>1, <2>3 DEF DriveTyped
  <2>6. Truthful' BY <2>1, <2>3 DEF Truthful, AllHonest, Honest, StopsHonest
  <2>7. EndsWell'
    <3>1. Owned /\ result' \in {"stopped", "ended", "ui-failed"} => result' = result BY <2>2
    <3>2. ~ StopUnderWay' BY <2>1 DEF StopUnderWay, NoKind
    <3> QED BY <2>1, <2>3, <2>4, <3>1, <3>2 DEF EndsWell, Caused, OnScreen, Owned
  <2>8. StopIsOwed' BY <2>1, <2>4 DEF StopIsOwed, EndsWell
  <2>9. Ordered' BY <2>1, <2>3, <2>4 DEF Ordered, Open, OnScreen
  <2>10. ReadOnItsWay' /\ TableOnItsWay'
    BY <2>1, <2>4 DEF ReadOnItsWay, TableOnItsWay, Open, OnScreen
  <2> QED BY <2>5, <2>6, <2>7, <2>8, <2>9, <2>10
<1>3. CASE Cleanup
  <2>1. /\ drive.at = "cleanup" /\ drive' = [drive EXCEPT !.at = "done"]
        /\ UNCHANGED <<ui, thread, known, ingress, guaranteed, stops, reading, events, feed,
                       announced, watcher, history>>
    BY <1>3 DEF Cleanup, attachment
  <2>2. \/ /\ session' = [session EXCEPT !.runtimes = FALSE, !.supervisor = FALSE]
           /\ ~ session'.supervisor /\ ~ session'.runtimes
        \/ session' = session /\ result' = "stop-failed"
    <3>1. PICK down \in BOOLEAN :
            /\ session' = IF down THEN [session EXCEPT !.runtimes = FALSE, !.supervisor = FALSE]
                          ELSE session
            /\ result' = IF down THEN Outcome ELSE "stop-failed"
      BY <1>3 DEF Cleanup
    <3>2. session \in [supervisor : BOOLEAN, runtimes : BOOLEAN, table : SUBSET Participants]
      BY DEF DriveTyped
    <3>3. CASE down BY <3>1, <3>2, <3>3
    <3>4. CASE ~ down BY <3>1, <3>4
    <3> QED BY <3>3, <3>4
  <2>3. /\ session' \in [supervisor : BOOLEAN, runtimes : BOOLEAN, table : SUBSET Participants]
        /\ session'.supervisor => session.supervisor
    BY <2>2 DEF DriveTyped
  <2>4. /\ drive' \in [at : {"select", "send", "leaving", "cleanup", "done"},
                       hold : Message \cup {None}]
        /\ drive'.hold = None /\ drive'.at = "done"
    BY <2>1 DEF DriveTyped
  <2>5. ~ OnScreen /\ Owned BY <2>1 DEF EndsWell
  <2>6. DriveTyped' BY <2>1, <2>3, <2>4 DEF DriveTyped
  <2>7. Truthful' BY <2>1, <2>3, <2>4 DEF Truthful, AllHonest, Honest, StopsHonest
  <2>8. EndsWell'
    <3>1. result' \in {"stopped", "ended", "ui-failed"} =>
            ~ session'.supervisor /\ ~ session'.runtimes
      BY <2>2
    <3> QED BY <2>1, <2>3, <2>4, <2>5, <3>1 DEF EndsWell, Caused, OnScreen, Owned
  <2>9. Ordered' BY <2>1, <2>4, <2>5 DEF Ordered, Open, OnScreen
  <2>10. ReadOnItsWay' /\ TableOnItsWay'
    BY <2>1, <2>5 DEF ReadOnItsWay, TableOnItsWay, Open, OnScreen
  <2> QED BY <2>1, <2>6, <2>7, <2>8, <2>9, <2>10, PartsUntouched
<1> QED BY <1>1, <1>2, <1>3

\* The effects of a step are handed to the router.
LEMMA HandedOver ==
  ASSUME DriveTyped, NEW n \in Models, guaranteed' = guaranteed \o n.effects,
         UNCHANGED <<stops, history>>, ui' = [n EXCEPT !.effects = <<>>]
  PROVE  /\ ui' \in Models /\ ui'.effects = <<>> /\ guaranteed' \in Seq(Effects)
         /\ ui'.epoch = n.epoch /\ ui'.stoppable = n.stoppable /\ ui'.exit = n.exit
         /\ ui'.stopRequested = n.stopRequested /\ ui'.processes = n.processes
         /\ ui'.asked = n.asked /\ ui'.rows = n.rows /\ ui'.detail = n.detail
         /\ ui'.owed = n.owed /\ ui'.page = n.page
         /\ NoKind(guaranteed, {"stop"}) /\ NoKind(n.effects, {"stop"})
              => NoKind(guaranteed', {"stop"})
         /\ ~ NoKind(guaranteed, {"stop"}) \/ ~ NoKind(n.effects, {"stop"})
              => ~ NoKind(guaranteed', {"stop"})
         /\ NoKind(guaranteed, {"read"}) /\ NoKind(n.effects, {"read"})
              => NoKind(guaranteed', {"read"})
         /\ \A x : OneOf(guaranteed, x, {"read"}) /\ NoKind(n.effects, {"read"})
              => OneOf(guaranteed', x, {"read"})
         /\ \A x : NoKind(guaranteed, {"read"}) /\ OneOf(n.effects, x, {"read"})
              => OneOf(guaranteed', x, {"read"})
<1>1. /\ n.effects \in Seq(Effects) /\ guaranteed \in Seq(Effects)
  BY DEF Models, DriveTyped
<1>2. /\ ui' \in Models /\ ui'.effects = <<>>
      /\ ui'.epoch = n.epoch /\ ui'.stoppable = n.stoppable /\ ui'.exit = n.exit
      /\ ui'.stopRequested = n.stopRequested /\ ui'.processes = n.processes
      /\ ui'.asked = n.asked /\ ui'.rows = n.rows /\ ui'.detail = n.detail
      /\ ui'.owed = n.owed /\ ui'.page = n.page
  <2>0. <<>> \in Seq(Effects) OBVIOUS
  <2>1. PICK e \in Seq(Effects) : e = <<>> BY <2>0, Zenon
  <2>2. ui' = [n EXCEPT !.effects = e] BY <2>1
  <2>3. ui' \in Models BY <2>2 DEF Models
  <2>4. /\ ui'.effects = e
        /\ ui'.epoch = n.epoch /\ ui'.stoppable = n.stoppable /\ ui'.exit = n.exit
        /\ ui'.stopRequested = n.stopRequested /\ ui'.processes = n.processes
        /\ ui'.asked = n.asked /\ ui'.rows = n.rows /\ ui'.detail = n.detail
        /\ ui'.owed = n.owed /\ ui'.page = n.page
    BY <2>2 DEF Models
  <2> QED BY <2>1, <2>3, <2>4
<1>3. guaranteed' \in Seq(Effects) BY <1>1, Joined
<1> QED BY <1>1, <1>2, <1>3, JoinedKinds

\* What the ends of the session need, when a step was handed over.
LEMMA EndsHandedOver ==
  ASSUME DriveTyped, EndsWell, OnScreen, NEW n \in Models, Ends(n), n.stoppable = ui.stoppable,
         ui' = [n EXCEPT !.effects = <<>>], guaranteed' = guaranteed \o n.effects,
         thread' # "returned", UNCHANGED <<drive, stops, session, result, history>>
  PROVE  EndsWell'
<1>1. /\ ui'.effects = <<>> /\ ui'.stoppable = n.stoppable /\ ui'.exit = n.exit
      /\ ui'.stopRequested = n.stopRequested
      /\ NoKind(guaranteed, {"stop"}) /\ NoKind(n.effects, {"stop"}) => NoKind(guaranteed', {"stop"})
  BY HandedOver
<1>2. StopUnderWay' => StopUnderWay \/ ~ NoKind(n.effects, {"stop"})
  <2>1. NoKind(guaranteed, {"stop"})' <=> NoKind(guaranteed', {"stop"}) BY DEF NoKind
  <2> QED BY <1>1, <2>1 DEF StopUnderWay
<1>3. NoKind(ui'.effects, {"stop"}) BY <1>1 DEF NoKind
<1>4. Ends(ui)'
  <2>1. NoKind(ui.effects, {"stop"})' <=> NoKind(ui'.effects, {"stop"}) BY DEF NoKind
  <2> QED BY <1>1, <1>2, <1>3, <2>1 DEF Ends, Caused
<1>5. ~ n.stoppable => NoKind(n.effects, {"stop"}) BY DEF Ends
<1> QED BY <1>1, <1>2, <1>4, <1>5 DEF EndsWell, Ends, Caused, OnScreen, Owned

\* A key.
LEMMA PressKeyStep ==
  ASSUME DriveOK, NEW key \in Keys, PressKey(key)
  PROVE  DriveOK'
<1> USE DEF DriveOK
<1>0. PICK m : m = ui OBVIOUS
<1> DEFINE n == HandleKey(m, key)
<1>1. /\ thread = "keys" /\ ui' = [n EXCEPT !.effects = <<>>]
      /\ guaranteed' = guaranteed \o n.effects
      /\ UNCHANGED <<thread, known, ingress, drive, stops, reading, events, feed, announced,
                     watcher, session, result, history>>
  BY <1>0 DEF PressKey, Becomes, attachment
<1>2. m \in Models /\ m.effects = <<>> BY <1>0 DEF DriveTyped
<1>3. n.processes = m.processes /\ (ReadSide(m, n) \/ StopSide(m, n)) BY <1>2, EveryKey
<1> HIDE DEF n
<1>4. /\ n \in Models /\ n.epoch = m.epoch /\ n.stoppable = m.stoppable
      /\ KeepsReads(m, n) /\ KeepsEnds(m, n)
  <2>1. CASE ReadSide(m, n) BY <1>2, <2>1, ReadSideKeeps DEF ReadSide
  <2>2. CASE StopSide(m, n) BY <1>2, <2>2, StopSideKeeps DEF StopSide
  <2> QED BY <1>3, <2>1, <2>2
<1>5. Open /\ OnScreen BY <1>1 DEF Open, OnScreen
<1>6. Ends(m) /\ Rows(m) BY <1>0, <1>5 DEF EndsWell, ReadOnItsWay
<1>7. Ends(n) /\ Rows(n) BY <1>4, <1>6 DEF KeepsEnds, KeepsReads
<1>8. /\ ui' \in Models /\ ui'.effects = <<>> /\ guaranteed' \in Seq(Effects)
      /\ ui'.epoch = n.epoch /\ ui'.stoppable = n.stoppable
      /\ ui'.stopRequested = n.stopRequested /\ ui'.processes = n.processes
      /\ ui'.asked = n.asked /\ ui'.rows = n.rows /\ ui'.detail = n.detail
      /\ ui'.owed = n.owed /\ ui'.page = n.page
      /\ ~ NoKind(guaranteed, {"stop"}) \/ ~ NoKind(n.effects, {"stop"})
           => ~ NoKind(guaranteed', {"stop"})
      /\ NoKind(guaranteed, {"read"}) /\ NoKind(n.effects, {"read"})
           => NoKind(guaranteed', {"read"})
      /\ \A x : OneOf(guaranteed, x, {"read"}) /\ NoKind(n.effects, {"read"})
           => OneOf(guaranteed', x, {"read"})
      /\ \A x : NoKind(guaranteed, {"read"}) /\ OneOf(n.effects, x, {"read"})
           => OneOf(guaranteed', x, {"read"})
  BY <1>1, <1>4, HandedOver
<1>9. DriveTyped'
  <2>1. UNCHANGED <<thread, known, ingress, drive, stops, reading, events, feed, announced,
                    watcher, session, history>>
    BY <1>1
  <2> QED BY <1>8, <2>1 DEF DriveTyped
<1>10. Truthful'
  <2>1. UNCHANGED <<ingress, drive, stops, events, watcher, session, history>> BY <1>1
  <2> QED BY <2>1 DEF Truthful, AllHonest, Honest, StopsHonest
<1>11. EndsWell'
  <2>1. n.stoppable = ui.stoppable /\ thread' # "returned" BY <1>0, <1>1, <1>4
  <2>2. UNCHANGED <<drive, stops, session, result, history>> BY <1>1
  <2> QED BY <1>1, <1>4, <1>5, <1>7, <2>1, <2>2, EndsHandedOver
<1>12. StopIsOwed'
  <2>1. /\ NoKind(guaranteed, {"stop"})' <=> NoKind(guaranteed', {"stop"})
        /\ NoKind(ingress, Completions)' <=> NoKind(ingress, Completions)
    BY <1>1 DEF NoKind, Completions
  <2>2. Owes(n) => m.stopRequested BY <1>4 DEF KeepsEnds, Owes
  <2> QED BY <1>0, <1>1, <1>8, <2>1, <2>2 DEF StopIsOwed, StopUnderWay, Owes
<1>13. Ordered'
  <2>1. ui'.epoch BY <1>0, <1>4, <1>5, <1>8 DEF Ordered
  <2>2. UNCHANGED <<thread, known, ingress, drive, events>> BY <1>1
  <2> QED BY <1>1, <2>1, <2>2 DEF Ordered, Open, NoKind
<1>14. ReadOnItsWay'
  <2>1. Rows(ui)' BY <1>7, <1>8 DEF Rows
  <2>2. \A x \in Queries : x # None BY NoneAssumption
  <2>3. CASE m.asked = None /\ NoKind(guaranteed, {"read"})
    <3>1. HomeRead(m) BY <1>2, <2>3 DEF HomeRead, NoKind
    <3>2. HomeRead(n) BY <1>4, <3>1 DEF KeepsReads
    <3>3. \/ n.asked = None /\ NoKind(guaranteed', {"read"})
          \/ n.asked # None /\ OneOf(guaranteed', Read(n.asked), {"read"})
      BY <1>8, <2>3, <3>2 DEF HomeRead
    <3>4. reading = None /\ NoKind(ingress, {"reply"}) BY <1>0, <1>5, <2>2, <2>3 DEF ReadOnItsWay
    <3>5. ui'.asked = n.asked /\ UNCHANGED <<ingress, reading>> BY <1>1, <1>8
    <3> QED BY <2>1, <3>3, <3>4, <3>5 DEF ReadOnItsWay, NoKind, OneOf
  <2>4. CASE m.asked # None
    <3>1. m.asked \in Queries BY <1>2, <2>4 DEF Models
    <3>2. AwayRead(m, m.asked) BY <1>2 DEF AwayRead, NoKind
    <3>3. AwayRead(n, m.asked) BY <1>4, <3>1, <3>2 DEF KeepsReads
    <3>4. n.asked = m.asked /\ NoKind(n.effects, {"read"}) BY <3>3 DEF AwayRead
    <3>5. \/ /\ OneOf(guaranteed, Read(m.asked), {"read"})
             /\ reading = None /\ NoKind(ingress, {"reply"})
          \/ /\ NoKind(guaranteed, {"read"})
             /\ reading = m.asked /\ NoKind(ingress, {"reply"})
          \/ /\ NoKind(guaranteed, {"read"})
             /\ reading = None /\ OneOf(ingress, Reply(m.asked), {"reply"})
      BY <1>0, <1>5, <2>4 DEF ReadOnItsWay
    <3>6. \/ /\ OneOf(guaranteed', Read(m.asked), {"read"})
             /\ reading = None /\ NoKind(ingress, {"reply"})
          \/ /\ NoKind(guaranteed', {"read"})
             /\ reading = m.asked /\ NoKind(ingress, {"reply"})
          \/ /\ NoKind(guaranteed', {"read"})
             /\ reading = None /\ OneOf(ingress, Reply(m.asked), {"reply"})
      BY <1>8, <3>4, <3>5
    <3>7. ui'.asked = m.asked /\ UNCHANGED <<ingress, reading>> BY <1>1, <1>8, <3>4
    <3> QED BY <2>1, <2>4, <3>6, <3>7 DEF ReadOnItsWay, NoKind, OneOf
  <2>5. m.asked = None => NoKind(guaranteed, {"read"}) BY <1>0, <1>5 DEF ReadOnItsWay
  <2> QED BY <2>3, <2>4, <2>5
<1>15. TableOnItsWay'
  <2>1. ui'.processes = ui.processes BY <1>0, <1>3, <1>8
  <2>2. UNCHANGED <<thread, feed, events, drive, ingress>> BY <1>1
  <2> QED BY <2>1, <2>2 DEF TableOnItsWay, OnScreen, NoKind, LastOf
<1> QED BY <1>9, <1>10, <1>11, <1>12, <1>13, <1>14, <1>15

\* A pass of the application.
LEMMA PassStep ==
  ASSUME DriveOK, Pass
  PROVE  DriveOK'
<1> USE DEF DriveOK
<1>0. PICK m, inputs, query :
        m = ui /\ inputs = ingress /\ query = IF ui.asked = None THEN All ELSE ui.asked
  OBVIOUS
<1> DEFINE pass == Dispatch(m, [NewMailbox EXCEPT !.epoch = TRUE], inputs)
           n == pass.model
           x == IF n.exit # None
                THEN [NewModel(m.stoppable) EXCEPT !.exit = n.exit, !.effects = n.effects]
                ELSE n
<1>1. thread = "collect" /\ Open /\ OnScreen BY DEF Pass, Open, OnScreen
<1>2. known = TRUE /\ ui.epoch BY <1>1 DEF Ordered, DriveTyped
<1>3. /\ ui' = [x EXCEPT !.effects = <<>>]
      /\ guaranteed' = guaranteed \o x.effects
      /\ known' = pass.epoch /\ ingress' = <<>>
      /\ thread' = IF n.exit # None THEN "returned" ELSE "keys"
      /\ UNCHANGED <<drive, stops, reading, events, feed, announced, watcher,
                     session, result, history>>
  BY <1>0, <1>2 DEF Pass, Becomes, attachment, Owned
<1>4. /\ m \in Models /\ m.effects = <<>> /\ m.epoch /\ inputs \in Seq(Message)
  BY <1>0, <1>2 DEF DriveTyped
<1>5. query \in Queries BY <1>0 DEF DriveTyped, Models, Queries
<1>6. Ends(m) /\ Rows(m) BY <1>0, <1>1 DEF EndsWell, ReadOnItsWay
<1>7. \A k \in 1 .. Len(inputs) : Honest(inputs[k]) /\ inputs[k].kind # "epoch"
  BY <1>0, <1>1 DEF Truthful, AllHonest, Ordered, NoKind
<1>8. \/ /\ m.asked = None /\ NoKind(guaranteed, {"read"})
         /\ reading = None /\ NoKind(inputs, {"reply"})
      \/ /\ m.asked # None /\ OneOf(guaranteed, Read(query), {"read"})
         /\ reading = None /\ NoKind(inputs, {"reply"})
      \/ /\ m.asked # None /\ NoKind(guaranteed, {"read"})
         /\ reading = query /\ NoKind(inputs, {"reply"})
      \/ /\ m.asked # None /\ NoKind(guaranteed, {"read"})
         /\ reading = None /\ OneOf(inputs, Reply(query), {"reply"})
  BY <1>0, <1>1 DEF ReadOnItsWay
<1>9. /\ m.asked # None => AwayRead(m, query) /\ ~ HomeRead(m)
      /\ m.asked = None => HomeRead(m) /\ ~ AwayRead(m, query)
  <2>1. m.asked # None => m.asked = query BY <1>0
  <2>2. query # None BY <1>5, NoneAssumption
  <2>3. NoKind(m.effects, {"read"}) BY <1>4 DEF NoKind
  <2>4. ~ OneOf(m.effects, Read(m.asked), {"read"}) BY <1>4 DEF OneOf
  <2> QED BY <2>1, <2>2, <2>3, <2>4 DEF AwayRead, HomeRead
<1>10. pass.epoch /\ PassedInputs(m, inputs, query, n)
  <2>1. \/ AwayRead(m, query) /\ (\/ NoKind(inputs, {"reply"})
                                  \/ OneOf(inputs, Reply(query), {"reply"}))
        \/ HomeRead(m) /\ NoKind(inputs, {"reply"})
    BY <1>8, <1>9
  <2> QED BY <1>4, <1>5, <1>6, <1>7, <2>1, KnownPass
<1>11. known' = TRUE
  <2>1. Pushed([NewMailbox EXCEPT !.epoch = TRUE], inputs).epoch \in BOOLEAN
    BY <1>4, <1>7, BoxedAll DEF Boxed, Boxes
  <2> QED BY <1>3, <1>10, <2>1 DEF Dispatch
<1> HIDE DEF pass, n
<1>12. /\ n \in Models /\ n.epoch /\ n.stoppable = m.stoppable /\ Ends(n) /\ Rows(n)
       /\ Owes(n) => n.exit # None \/ (Owes(m) /\ NoKind(inputs, Completions))
       /\ \/ AwayRead(n, query) /\ AwayRead(m, query) /\ NoKind(inputs, {"reply"})
          \/ HomeRead(n) /\ (HomeRead(m) \/ ~ NoKind(inputs, {"reply"}))
       /\ \A table : \/ m.processes = table /\ NoKind(inputs, {"processes"})
                     \/ LastOf(inputs, Shown(table), {"processes"})
                     => n.processes = table
  BY <1>10 DEF PassedInputs
<1>13. /\ x \in Models /\ x.effects = n.effects /\ x.exit = n.exit /\ x.stoppable = m.stoppable
       /\ n.exit # None => ~ x.stopRequested /\ ~ x.epoch
  <2>1. CASE n.exit # None
    <3> DEFINE fresh == NewModel(m.stoppable)
    <3>1. /\ fresh \in Models /\ fresh.stoppable = m.stoppable
          /\ ~ fresh.epoch /\ ~ fresh.stopRequested
      <4>1. m.stoppable \in BOOLEAN BY <1>4 DEF Models
      <4> QED BY <4>1, FreshModel
    <3>2. x = [fresh EXCEPT !.exit = n.exit, !.effects = n.effects] BY <2>1
    <3>3. n.exit \in Exits \cup {None} /\ n.effects \in Seq(Effects) BY <1>12 DEF Models
    <3> HIDE DEF fresh, x
    <3>4. x \in Models BY <3>1, <3>2, <3>3 DEF Models
    <3> QED BY <3>1, <3>2, <3>4 DEF Models
  <2>2. CASE n.exit = None BY <1>12, <2>2
  <2> QED BY <2>1, <2>2
<1>14. n.exit = None => x = n OBVIOUS
<1> HIDE DEF x
<1>15. /\ ui' \in Models /\ ui'.effects = <<>> /\ guaranteed' \in Seq(Effects)
       /\ ui'.epoch = x.epoch /\ ui'.stoppable = x.stoppable /\ ui'.exit = x.exit
       /\ ui'.stopRequested = x.stopRequested /\ ui'.processes = x.processes
       /\ ui'.asked = x.asked /\ ui'.rows = x.rows /\ ui'.detail = x.detail
       /\ ui'.owed = x.owed /\ ui'.page = x.page
       /\ NoKind(guaranteed, {"stop"}) /\ NoKind(x.effects, {"stop"})
            => NoKind(guaranteed', {"stop"})
       /\ ~ NoKind(guaranteed, {"stop"}) \/ ~ NoKind(x.effects, {"stop"})
            => ~ NoKind(guaranteed', {"stop"})
       /\ NoKind(guaranteed, {"read"}) /\ NoKind(x.effects, {"read"})
            => NoKind(guaranteed', {"read"})
       /\ \A e : OneOf(guaranteed, e, {"read"}) /\ NoKind(x.effects, {"read"})
            => OneOf(guaranteed', e, {"read"})
       /\ \A e : NoKind(guaranteed, {"read"}) /\ OneOf(x.effects, e, {"read"})
            => OneOf(guaranteed', e, {"read"})
  <2>1. UNCHANGED <<stops, history>> BY <1>3
  <2> QED BY <1>3, <1>13, <2>1, HandedOver
<1>16. DriveTyped'
  <2>1. UNCHANGED <<drive, stops, reading, events, feed, announced, watcher, session, history>>
    BY <1>3
  <2>2. thread' \in {"returned", "keys"} BY <1>3
  <2>3. ingress' \in Seq(Message) BY <1>3
  <2> QED BY <1>11, <1>15, <2>1, <2>2, <2>3 DEF DriveTyped
<1>17. Truthful'
  <2>1. UNCHANGED <<events, drive, stops, watcher, session, history>> BY <1>3
  <2>2. AllHonest(ingress)' BY <1>3 DEF AllHonest
  <2> QED BY <2>1, <2>2 DEF Truthful, AllHonest, Honest, StopsHonest
<1>18. CASE n.exit # None
  <2>1. thread' = "returned" BY <1>3, <1>18
  <2>2. EndsWell'
    <3>1. UNCHANGED <<drive, stops, session, result, history>> BY <1>3
    <3>2. StopUnderWay' => StopUnderWay \/ ~ NoKind(n.effects, {"stop"})
      <4>1. NoKind(guaranteed, {"stop"})' <=> NoKind(guaranteed', {"stop"}) BY DEF NoKind
      <4> QED BY <1>13, <1>15, <3>1, <4>1 DEF StopUnderWay
    <3>3. /\ ui'.stoppable = ui.stoppable /\ ui'.exit = n.exit
          /\ ~ ui'.stopRequested /\ ~ ui'.epoch
      BY <1>0, <1>13, <1>15, <1>18
    <3>4. /\ n.exit = "ended" => Caused
          /\ n.exit = "stopped" => ~ session.supervisor
          /\ ~ ui.stoppable => NoKind(n.effects, {"stop"})
      BY <1>0, <1>12 DEF Ends
    <3> QED BY <1>1, <2>1, <3>1, <3>2, <3>3, <3>4 DEF EndsWell, Caused, OnScreen, Owned
  <2>3. StopIsOwed' BY <1>13, <1>15, <1>18 DEF StopIsOwed
  <2>4. Ordered'
    <3>1. UNCHANGED <<drive, events>> BY <1>3
    <3> QED BY <1>1, <2>1, <3>1 DEF Ordered, Open
  <2>5. ReadOnItsWay' /\ TableOnItsWay'
    BY <2>1 DEF ReadOnItsWay, TableOnItsWay, Open, OnScreen
  <2> QED BY <1>16, <1>17, <2>2, <2>3, <2>4, <2>5
<1>19. CASE n.exit = None
  <2>0. x = n /\ thread' = "keys" BY <1>3, <1>14, <1>19
  <2>1. EndsWell'
    <3>1. UNCHANGED <<drive, stops, session, result, history>> BY <1>3
    <3>2. n.stoppable = ui.stoppable /\ thread' # "returned" BY <1>0, <1>12, <2>0
    <3> QED BY <1>1, <1>3, <1>12, <2>0, <3>1, <3>2, EndsHandedOver
  <2>2. StopIsOwed'
    <3>1. NoKind(guaranteed, {"stop"})' <=> NoKind(guaranteed', {"stop"}) BY DEF NoKind
    <3>2. stops' = stops BY <1>3
    <3>3. ~ NoKind(n.effects, {"stop"}) => StopUnderWay' BY <1>15, <2>0, <3>1 DEF StopUnderWay
    <3>4. StopUnderWay => StopUnderWay' BY <1>15, <3>1, <3>2 DEF StopUnderWay
    <3>5. m.stopRequested /\ NoKind(inputs, Completions) => StopUnderWay BY <1>0 DEF StopIsOwed
    <3>6. ui'.stopRequested => ~ NoKind(n.effects, {"stop"}) \/ StopUnderWay
      BY <1>12, <1>15, <1>19, <2>0, <3>5 DEF Owes
    <3> QED BY <3>3, <3>4, <3>6 DEF StopIsOwed
  <2>3. Ordered'
    <3>1. UNCHANGED <<drive, events>> BY <1>3
    <3>2. ui'.epoch /\ NoKind(ingress', {"epoch"}) BY <1>3, <1>12, <1>15, <2>0 DEF NoKind
    <3> QED BY <1>1, <1>11, <2>0, <3>1, <3>2 DEF Ordered, Open, NoKind
  <2>4. ReadOnItsWay'
    <3>1. Rows(ui)' BY <1>12, <1>15, <2>0 DEF Rows
    <3>2. NoKind(ingress', {"reply"}) BY <1>3 DEF NoKind
    <3>3. reading' = reading /\ ui'.asked = n.asked BY <1>3, <1>15, <2>0
    <3>4. CASE AwayRead(n, query) /\ AwayRead(m, query) /\ NoKind(inputs, {"reply"})
      <4>1. /\ n.asked = query /\ n.asked # None /\ NoKind(n.effects, {"read"}) /\ m.asked # None
        BY <1>5, <1>9, <3>4, NoneAssumption DEF AwayRead
      <4>2. ~ OneOf(inputs, Reply(query), {"reply"})
        <5>1. Reply(query).kind = "reply" BY DEF Reply
        <5> QED BY <3>4, <5>1 DEF NoKind, OneOf
      <4>3. \/ OneOf(guaranteed', Read(query), {"read"}) /\ reading = None
            \/ NoKind(guaranteed', {"read"}) /\ reading = query
        BY <1>8, <1>15, <2>0, <4>1, <4>2
      <4> QED BY <3>1, <3>2, <3>3, <4>1, <4>3 DEF ReadOnItsWay, NoKind, OneOf
    <3>5. CASE HomeRead(n) /\ (HomeRead(m) \/ ~ NoKind(inputs, {"reply"}))
      <4>1. NoKind(guaranteed, {"read"}) /\ reading = None BY <1>8, <1>9, <3>5
      <4>2. \/ n.asked = None /\ NoKind(guaranteed', {"read"})
            \/ n.asked # None /\ OneOf(guaranteed', Read(n.asked), {"read"})
        BY <1>15, <2>0, <3>5, <4>1 DEF HomeRead
      <4> QED BY <3>1, <3>2, <3>3, <4>1, <4>2 DEF ReadOnItsWay, NoKind, OneOf
    <3> QED BY <1>12, <3>4, <3>5
  <2>5. TableOnItsWay'
    <3>1. UNCHANGED <<feed, events, drive>> BY <1>3
    <3>2. ui'.processes = n.processes /\ NoKind(ingress', {"processes"})
      BY <1>3, <1>15, <2>0 DEF NoKind
    <3> SUFFICES ASSUME feed.at = "borrow", feed.table # None
                 PROVE  TableOnItsWay'
      BY <3>1 DEF TableOnItsWay
    <3> DEFINE t == Shown(feed.table)
    <3>3. \/ LastOf(events, t, {"processes"})
          \/ /\ NoKind(events, {"processes"})
             /\ \/ drive.hold = t
                \/ /\ drive.hold # None => drive.hold.kind # "processes"
                   /\ \/ LastOf(inputs, t, {"processes"})
                      \/ NoKind(inputs, {"processes"}) /\ m.processes = feed.table
      BY <1>0, <1>1 DEF TableOnItsWay
    <3>4. LastOf(inputs, t, {"processes"}) \/ (NoKind(inputs, {"processes"}) /\ m.processes = feed.table)
            => n.processes = feed.table
      BY <1>12
    <3>5. \/ LastOf(events, t, {"processes"})
          \/ /\ NoKind(events, {"processes"})
             /\ \/ drive.hold = t
                \/ /\ drive.hold # None => drive.hold.kind # "processes"
                   /\ NoKind(ingress', {"processes"}) /\ ui'.processes = feed.table
      BY <3>2, <3>3, <3>4
    <3> QED BY <3>1, <3>5 DEF TableOnItsWay, NoKind, LastOf
  <2> QED BY <1>16, <1>17, <2>1, <2>2, <2>3, <2>4, <2>5
<1> QED BY <1>18, <1>19

\* The dashboard opens.
LEMMA OpenStep ==
  ASSUME DriveOK, OpenUi
  PROVE  DriveOK'
<1> USE DEF DriveOK
<1>0. PICK b, inputs : b = Owned /\ inputs = events OBVIOUS
<1> DEFINE pass == Dispatch(NewModel(b), NewMailbox, inputs)
           n == pass.model
<1>1. /\ thread = "not-started" /\ ui = NewModel(b)
      /\ guaranteed = <<>> /\ stops = <<>> /\ reading = None /\ ingress = <<>>
      /\ drive.at = "select" /\ drive.hold = None
      /\ inputs # <<>> /\ inputs[1].kind = "epoch"
      /\ \A k \in 2 .. Len(inputs) : inputs[k].kind # "epoch"
  BY <1>0 DEF OpenUi, Ordered, DriveTyped
<1>2. /\ ui' = [n EXCEPT !.effects = <<>>] /\ guaranteed' = guaranteed \o n.effects
      /\ known' = pass.epoch /\ events' = <<>> /\ thread' = "collect"
      /\ UNCHANGED <<ingress, drive, stops, reading, feed, announced, watcher, session, result,
                     history>>
  BY <1>0, <1>1 DEF OpenUi, Becomes
<1>3. b \in BOOLEAN /\ inputs \in Seq(Message) BY <1>0 DEF DriveTyped, Models, Owned
<1>4. \A k \in 1 .. Len(inputs) : Honest(inputs[k]) /\ inputs[k].kind \in ClientEvents
  BY <1>0 DEF Truthful, AllHonest, Ordered
<1>5. OnScreen /\ Ends(NewModel(b)) BY <1>1 DEF EndsWell, OnScreen
<1>6. /\ pass.epoch
      /\ n \in Models /\ n.epoch /\ n.stoppable = b /\ Ends(n) /\ Rows(n) /\ HomeRead(n)
      /\ ~ n.stopRequested
      /\ \A table : \/ table = {} /\ NoKind(inputs, {"processes"})
                    \/ LastOf(inputs, Shown(table), {"processes"})
                    => n.processes = table
  BY <1>1, <1>3, <1>4, <1>5, OpeningPass
<1>7. known' = TRUE
  <2>1. Pushed([NewMailbox EXCEPT !.epoch = FALSE], inputs).epoch \in BOOLEAN
    BY <1>1, <1>3, BoxedAll DEF Boxed, Boxes
  <2>2. [NewMailbox EXCEPT !.epoch = FALSE] = NewMailbox
    <3>1. NewMailbox.epoch = FALSE BY DEF NewMailbox
    <3> QED BY <3>1, EmptyBoxes DEF Boxes
  <2> QED BY <1>2, <1>6, <2>1, <2>2 DEF Dispatch
<1> HIDE DEF pass, n
<1>8. /\ ui' \in Models /\ ui'.effects = <<>> /\ guaranteed' \in Seq(Effects)
      /\ ui'.epoch = n.epoch /\ ui'.stoppable = n.stoppable
      /\ ui'.stopRequested = n.stopRequested /\ ui'.processes = n.processes
      /\ ui'.asked = n.asked /\ ui'.rows = n.rows /\ ui'.detail = n.detail
      /\ ui'.owed = n.owed /\ ui'.page = n.page
      /\ NoKind(guaranteed, {"read"}) /\ NoKind(n.effects, {"read"})
           => NoKind(guaranteed', {"read"})
      /\ \A e : NoKind(guaranteed, {"read"}) /\ OneOf(n.effects, e, {"read"})
           => OneOf(guaranteed', e, {"read"})
  <2>1. UNCHANGED <<stops, history>> BY <1>2
  <2> QED BY <1>2, <1>6, <2>1, HandedOver
<1>9. DriveTyped'
  <2>1. UNCHANGED <<ingress, drive, stops, reading, feed, announced, watcher, session, history>>
    BY <1>2
  <2>2. events' \in Seq(Message) /\ thread' = "collect" BY <1>2
  <2> QED BY <1>7, <1>8, <2>1, <2>2 DEF DriveTyped
<1>10. Truthful'
  <2>1. UNCHANGED <<ingress, drive, stops, watcher, session, history>> BY <1>2
  <2>2. AllHonest(events)' BY <1>2 DEF AllHonest
  <2> QED BY <2>1, <2>2 DEF Truthful, AllHonest, Honest, StopsHonest
<1>11. EndsWell'
  <2>1. UNCHANGED <<drive, stops, session, result, history>> BY <1>2
  <2>2. n.stoppable = ui.stoppable /\ thread' # "returned" BY <1>0, <1>2, <1>6 DEF Owned
  <2> QED BY <1>2, <1>5, <1>6, <2>1, <2>2, EndsHandedOver
<1>12. StopIsOwed' BY <1>6, <1>8 DEF StopIsOwed
<1>13. Ordered' BY <1>1, <1>2, <1>6, <1>7, <1>8 DEF Ordered, Open, NoKind
<1>14. ReadOnItsWay'
  <2>1. Rows(ui)' BY <1>6, <1>8 DEF Rows
  <2>2. NoKind(ingress', {"reply"}) /\ NoKind(guaranteed, {"read"}) BY <1>1, <1>2 DEF NoKind
  <2>3. reading' = None /\ ui'.asked = n.asked BY <1>1, <1>2, <1>8
  <2>4. \/ n.asked = None /\ NoKind(guaranteed', {"read"})
        \/ n.asked # None /\ OneOf(guaranteed', Read(n.asked), {"read"})
    BY <1>6, <1>8, <2>2 DEF HomeRead
  <2> QED BY <2>1, <2>2, <2>3, <2>4 DEF ReadOnItsWay, NoKind, OneOf
<1>15. TableOnItsWay'
  <2>1. UNCHANGED <<feed, ingress, drive>> BY <1>2
  <2> SUFFICES ASSUME feed.at = "borrow", feed.table # None
               PROVE  TableOnItsWay'
    BY <2>1 DEF TableOnItsWay
  <2> DEFINE t == Shown(feed.table)
  <2>2. \/ LastOf(inputs, t, {"processes"})
        \/ NoKind(inputs, {"processes"}) /\ ui.processes = feed.table
    <3>1. drive.hold # t
      <4>1. feed.table \in SUBSET Participants BY DEF DriveTyped
      <4>2. t # None BY <4>1, ShownIsMessage, NoneAssumption
      <4> QED BY <1>1, <4>2
    <3>2. ~ LastOf(ingress, t, {"processes"}) BY <1>1 DEF LastOf
    <3> QED BY <1>0, <1>5, <3>1, <3>2 DEF TableOnItsWay
  <2>3. ui.processes = {} BY <1>1 DEF NewModel
  <2>4. ui'.processes = feed.table BY <1>6, <1>8, <2>2, <2>3
  <2>5. NoKind(events', {"processes"}) /\ NoKind(ingress', {"processes"})
    BY <1>1, <1>2 DEF NoKind
  <2> QED BY <1>1, <2>1, <2>4, <2>5 DEF TableOnItsWay, NoKind, LastOf
<1> QED BY <1>9, <1>10, <1>11, <1>12, <1>13, <1>14, <1>15

\* The session as it is entered, launched or attached.
LEMMA DriveStarts ==
  ASSUME DriveInit, NEW b \in BOOLEAN, Own(b)
  PROVE  DriveOK
<1> DEFINE first == [kind |-> "epoch"]
           second == [kind |-> "connected"]
<1>1. /\ first \in Message /\ second \in Message
      /\ Honest(first) /\ Honest(second)
      /\ first.kind = "epoch" /\ second.kind = "connected"
  BY DEF Message, Honest
<1> HIDE DEF first, second
<1>2. events = <<first, second>> BY DEF DriveInit, first, second
<1>3. /\ events \in Seq(Message) /\ Len(events) = 2
      /\ events[1] = first /\ events[2] = second
  BY <1>1, <1>2
<1>4. \A k \in 1 .. Len(events) : events[k] = first \/ events[k] = second
  <2> TAKE k \in 1 .. Len(events)
  <2>1. k = 1 \/ k = 2 BY <1>3
  <2> QED BY <1>3, <2>1
<1>5. /\ ui \in Models /\ ui.stoppable = b /\ ui.effects = <<>> /\ ~ ui.epoch /\ ui.exit = None
      /\ ~ ui.stopRequested /\ ui = NewModel(b)
  <2>1. ui = NewModel(b) BY DEF Own
  <2> QED BY <2>1, FreshModel
<1>6. /\ thread = "not-started" /\ known = FALSE /\ announced = FALSE
      /\ ingress = <<>> /\ guaranteed = <<>> /\ stops = <<>> /\ reading = None
      /\ drive = [at |-> "select", hold |-> None]
      /\ feed = [at |-> "borrow", table |-> None]
      /\ session = [supervisor |-> TRUE, runtimes |-> TRUE, table |-> Participants]
      /\ result = None /\ history = [alone |-> FALSE, failed |-> FALSE]
      /\ watcher \in {"armed", "dropped"}
  BY DEF DriveInit, Own
<1>7. "ended" # None /\ "stopped" # None BY NoneAssumption DEF Exits
<1>8. DriveTyped
  <2>1. known \in BOOLEAN /\ announced \in BOOLEAN BY <1>6
  <2>2. ingress \in Seq(Message) /\ guaranteed \in Seq(Effects) BY <1>6
  <2>3. stops \in Seq([stage : {"runtimes", "supervisor", "report"}, failed : BOOLEAN]) BY <1>6
  <2>4. /\ drive \in [at : {"select", "send", "leaving", "cleanup", "done"},
                      hold : Message \cup {None}]
        /\ drive.at = "send" <=> drive.hold # None
    BY <1>6
  <2>5. /\ feed \in [at : {"borrow", "send", "ended"}, table : {None} \cup SUBSET Participants]
        /\ feed.at = "borrow"
    BY <1>6
  <2>6. /\ session \in [supervisor : BOOLEAN, runtimes : BOOLEAN, table : SUBSET Participants]
        /\ history \in [alone : BOOLEAN, failed : BOOLEAN]
    BY <1>6
  <2> QED BY <1>3, <1>5, <1>6, <2>1, <2>2, <2>3, <2>4, <2>5, <2>6 DEF DriveTyped
<1>9. Truthful
  <2>1. AllHonest(events) /\ AllHonest(ingress) BY <1>1, <1>4, <1>6 DEF AllHonest
  <2> QED BY <1>6, <2>1 DEF Truthful, StopsHonest
<1>10. EndsWell
  <2>1. NoKind(guaranteed, {"stop"}) /\ NoKind(ui.effects, {"stop"}) BY <1>5, <1>6 DEF NoKind
  <2>2. ~ StopUnderWay BY <1>6, <2>1 DEF StopUnderWay
  <2>3. result \notin {"stopped", "ended", "ui-failed"}
    BY <1>6, <1>7, NoResultAssumption
  <2>4. Ends(ui) BY <1>5, <1>6, <1>7, <2>1, <2>2 DEF Ends
  <2> QED BY <1>5, <1>6, <1>7, <2>2, <2>3, <2>4 DEF EndsWell, OnScreen, Owned
<1>11. StopIsOwed BY <1>5 DEF StopIsOwed
<1>12. Ordered
  <2>1. \A k \in 1 .. Len(events) : events[k].kind \in ClientEvents
    BY <1>1, <1>4 DEF ClientEvents
  <2>2. events # <<>>
    <3>1. Len(events) = 2 BY <1>3
    <3>2. Len(events) # Len(<<>>) BY <3>1
    <3> QED BY <3>2, Zenon
  <2>3. events[1].kind = "epoch" BY <1>1, <1>3
  <2>4. \A k \in 2 .. Len(events) : events[k].kind # "epoch"
    <3> TAKE k \in 2 .. Len(events)
    <3>1. k = 2 BY <1>3
    <3> QED BY <1>1, <1>3, <3>1
  <2> QED BY <1>5, <1>6, <2>1, <2>2, <2>3, <2>4 DEF Ordered, Open, Owned
<1>13. ReadOnItsWay /\ TableOnItsWay BY <1>6 DEF ReadOnItsWay, TableOnItsWay, Open
<1> QED BY <1>8, <1>9, <1>10, <1>11, <1>12, <1>13 DEF DriveOK

\* Every step of the session keeps DriveOK.
LEMMA DriveStep ==
  ASSUME DriveOK, DriveNext
  PROVE  DriveOK'
<1>1. CASE ThreadSteps
  BY <1>1, OpenStep, PassStep, LoopSteps DEF ThreadSteps
<1>2. CASE UiFails BY <1>2, LoopSteps
<1>3. ASSUME NEW key \in Presses, PressKey(key) PROVE DriveOK'
  BY <1>3, PressKeyStep, BoundsAssumption
<1>4. CASE DriveSteps
  BY <1>4, ReceiveEventStep, ReceiveStep, HeldInputStep, RouteStopStep, RouteReadStep, LeavingSteps
     DEF DriveSteps
<1>5. ASSUME NEW kind \in {"interrupt", "terminate"}, ReceiveSignal(kind) PROVE DriveOK'
  BY <1>5, ReceiveStep
<1>6. CASE TaskSteps
  BY <1>6, AnswerReadStep, StopStageStep, ReportStopStep DEF TaskSteps
<1>7. CASE FeedSteps \/ TelemetryArrives BY <1>7, FeedStep
<1>8. CASE WatcherReports \/ SupervisorEnds \/ SnapshotChanges BY <1>8, OutsideSteps
<1>9. CASE Returned BY <1>9, LoopSteps
<1> QED BY <1>1, <1>2, <1>3, <1>4, <1>5, <1>6, <1>7, <1>8, <1>9 DEF DriveNext

\* What a step of the startup leaves alone.
LEMMA DriveRests ==
  ASSUME DriveOK, UNCHANGED driveVars
  PROVE  DriveOK'
<1>1. Truthful' BY DEF DriveOK, driveVars, Truthful, AllHonest, Honest, StopsHonest
<1>2. EndsWell'
  BY DEF DriveOK, driveVars, EndsWell, Ends, Caused, StopUnderWay, NoKind, OnScreen, Owned
<1>3. UNCHANGED <<ui, thread, known, ingress, guaranteed, drive, stops, reading, events, feed>>
  BY DEF driveVars
<1> QED BY <1>1, <1>2, <1>3, PartsUntouched DEF DriveOK

\* DriveOK is an invariant of a session that was launched, and of one that was
\* launched or attached.
LEMMA DriveIsOK ==
  /\ DriveSpec => []DriveOK
  /\ RunSpec => []DriveOK
<1>1. LaunchedInit => DriveOK BY DriveStarts DEF LaunchedInit
<1>2. DriveOK /\ [DriveNext]_driveVars => DriveOK' BY DriveStep, DriveRests
<1>3. RunInit => DriveOK BY DriveStarts DEF RunInit, AttachInit, LaunchedInit
<1>4. DriveOK /\ [RunNext]_runVars => DriveOK'
  BY DriveStep, DriveRests DEF RunNext, EnterDashboard, ReturnedEarly, runVars
<1>5. DriveSpec => []DriveOK BY <1>1, <1>2, PTL DEF DriveSpec
<1>6. RunSpec => []DriveOK BY <1>3, <1>4, PTL DEF RunSpec
<1> QED BY <1>5, <1>6

\* The ending that is reported is the one that happened.
LEMMA EndingFollows == DriveOK => EndingIsItsCause
BY DEF DriveOK, EndsWell, EndingIsItsCause, Caused, Owned, OnScreen

\* A stop that is waited for is under way.
LEMMA StopFollows == DriveOK => StopIsOwedAnAnswer
<1> SUFFICES ASSUME DriveOK, ui.stopRequested
             PROVE  \/ \E k \in DOMAIN guaranteed : guaranteed[k].kind = "stop"
                    \/ stops # <<>>
                    \/ \E k \in DOMAIN ingress : ingress[k].kind \in {"stopped", "stop-failed"}
  BY DEF StopIsOwedAnAnswer
<1>1. guaranteed \in Seq(Effects) /\ ingress \in Seq(Message) BY DEF DriveOK, DriveTyped
<1>2. DOMAIN guaranteed = 1 .. Len(guaranteed) /\ DOMAIN ingress = 1 .. Len(ingress) BY <1>1
<1>3. \/ ~ NoKind(guaranteed, {"stop"}) \/ stops # <<>>
      \/ ~ NoKind(ingress, Completions)
  BY DEF DriveOK, StopIsOwed, StopUnderWay
<1> QED BY <1>2, <1>3 DEF NoKind, Completions

\* What has gone through is shown, and the rows are those of the detail.
LEMMA CurrencyFollows == DriveOK => DashboardIsCurrent
<1> SUFFICES ASSUME DriveOK PROVE DashboardIsCurrent OBVIOUS
<1>1. ASSUME thread \in {"collect", "keys"}, events = <<>>, ingress = <<>>, drive.at = "select",
             feed.at = "borrow", feed.table = session.table
      PROVE  ui.processes = session.table
  <2>1. session.table # None BY NoneAssumption DEF DriveOK, DriveTyped
  <2>2. drive.hold = None BY <1>1 DEF DriveOK, DriveTyped
  <2>3. ~ LastOf(events, Shown(feed.table), {"processes"})
        /\ ~ LastOf(ingress, Shown(feed.table), {"processes"})
    BY <1>1 DEF LastOf
  <2>4. Shown(feed.table) # None
    <3>1. session.table \in SUBSET Participants BY DEF DriveOK, DriveTyped
    <3> QED BY <1>1, <3>1, ShownIsMessage, NoneAssumption
  <2>5. OnScreen BY <1>1 DEF OnScreen
  <2> QED BY <1>1, <2>1, <2>2, <2>3, <2>4, <2>5 DEF DriveOK, TableOnItsWay
<1>2. ASSUME ui.epoch, ui.page = "runtimes", ~ ui.owed, ui.asked = None
      PROVE  ui.rows = ui.detail
  <2>1. thread # "not-started"
    <3>1. ui = NewModel(Owned) => ~ ui.epoch BY DEF NewModel
    <3> QED BY <1>2, <3>1 DEF DriveOK, Ordered
  <2>2. thread # "returned" BY <1>2 DEF DriveOK, EndsWell, OnScreen
  <2>3. Open BY <2>1, <2>2 DEF DriveOK, DriveTyped, Open
  <2> QED BY <1>2, <2>3 DEF DriveOK, ReadOnItsWay, Rows
<1> QED BY <1>1, <1>2 DEF DashboardIsCurrent

\* The ending that is reported is the one that happened: a session that went
\* away lost its supervisor or failed to stop it, one that is stopped has no
\* supervisor, an owner leaves nothing behind, an attachment stops nothing.
THEOREM RunEndsAsItSays == RunSpec => []EndingIsItsCause
BY DriveIsOK, EndingFollows, PTL

\* A dashboard that waits for a confirmed stop waits for an effect that is
\* queued, for a task that runs, or for an answer on its way: none is lost
\* between the reducer, the router, the task and the channel back.
THEOREM RunAnswersStops == RunSpec => []StopIsOwedAnAnswer
BY DriveIsOK, StopFollows, PTL

\* Once what was published has gone through the channels and the mailbox, the
\* dashboard shows the newest snapshot; and the rows of the runtimes page are
\* those of its detail unless that read is owed or out.
THEOREM RunShowsTheNewest == RunSpec => []DashboardIsCurrent
BY DriveIsOK, CurrencyFollows, PTL

\* The session by itself, launched: it ends as it says, answers the stops it is
\* asked for, and shows what is.
THEOREM DriveIsSound ==
  DriveSpec => [](EndingIsItsCause /\ StopIsOwedAnAnswer /\ DashboardIsCurrent)
BY DriveIsOK, EndingFollows, StopFollows, CurrencyFollows, PTL

=============================================================================
