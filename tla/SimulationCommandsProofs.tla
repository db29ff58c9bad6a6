---------------------- MODULE SimulationCommandsProofs ----------------------
(***************************************************************************)
(* Proofs about the commands over simulation worlds: the safety properties *)
(* of SimulationCommands hold for any number of worlds and clients, any    *)
(* bound on the commands they give and on the hosts that are lost, with    *)
(* pids reused or not, and the evidence of the worlds implements           *)
(* WorldOutcome.                                                           *)
(*                                                                         *)
(* The inductive invariant IInv says, for each client, where it may be     *)
(* with what it owns, has launched, has signalled or has joined, and, for  *)
(* each world, how far its host must have come for its files to be there.  *)
(***************************************************************************)
EXTENDS SimulationCommands, TLAPS

(***************************************************************************)
(* Types.                                                                  *)
(***************************************************************************)
Probing == {"probe", "lease", "judge"}

\* The points of a recovery at which the world is known to be stale.
Stale == {"grace", "validate", "signal", "await", "reread", "publish", "unregister", "unlease"}

\* The points of a command that a probe returns to.
Returns ==
  {"connect", "stop", "show", "control", "listing", "recover", "identify", "looked", "polled"}

\* The other points at which a client has a world in hand.
Aimed == {"recovered", "robot", "attach", "active", "drive", "ending", "settle", "poll", "verify"}

\* The points at which it need not.
Aimless ==
  {"idle", "finalise", "pruning", "spawn", "ready", "log", "failing", "terminate", "wait",
   "kill", "failed", "done", "killed"}

Points == Probing \cup Stale \cup Returns \cup Aimed \cup Aimless

Commands == {"start", "run", "list", "connect", "stop", "status", "resume"}

Endings == {"host", "hostlost"}

FileTypes ==
  /\ registration \subseteq World /\ leaseFile \subseteq World
  /\ evidence \subseteq World /\ pruned \subseteq World
  /\ summary \in [World -> Endings \cup {None}]

HostTypes ==
  /\ host \in [World -> {"none", "booting", "persisted", "serving", "stopping", "exiting", "gone"}]
  /\ native \in [World -> {"none", "ours", "leaderless", "gone", "foreign"}]

ProbeTypes ==
  /\ pc \in [Client -> Points]
  /\ goal \in [Client -> World \cup {None}]
  /\ then \in [Client -> Points \cup {None}]
  /\ found \in [Client -> Endings \cup {"live", "stale", "missing", None}]
  /\ signal \in [Client -> {"term", "kill", None}]
  /\ victims \in [Client -> SUBSET World]

CommandTypes ==
  /\ cmd \in [Client -> Commands \cup {None}]
  /\ own \in [Client -> World \cup {None}]
  /\ robot \in [Client -> {"none", "live", "ended"}]
  /\ report \in [Client -> Endings \cup {"member", "unclean", None}]
  /\ seen \in [Client -> SUBSET World] /\ todo \in [Client -> SUBSET World]
  /\ bootLog \subseteq Client

MemberTypes ==
  /\ members \in [World -> SUBSET Client]
  /\ memberEnd \in [Client -> {"serving", "stopping", None}]

TypeOK == FileTypes /\ HostTypes /\ ProbeTypes /\ CommandTypes /\ MemberTypes

(***************************************************************************)
(* The inductive invariant.                                                *)
(***************************************************************************)
\* A client that probes, recovers or works on a world has one.
AimOK(c) ==
  /\ pc[c] \in Probing => goal[c] \in World /\ then[c] \in Returns
  /\ pc[c] \in Stale \cup {"recover"} => then[c] = "recover"
  /\ pc[c] \in Stale \cup Aimed \cup (Returns \ {"listing"}) => goal[c] \in World
  /\ pc[c] = "listing" /\ found[c] = "live" => goal[c] \in World
  /\ pc[c] = "pruning" => then[c] \in {"spawn", "done"}
  /\ pc[c] \in {"unregister", "unlease", "recovered"} => found[c] \in Endings \cup {None}

\* The command in which it is there.
CommandOK(c) ==
  LET at(point) == pc[c] = point \/ (pc[c] \in Probing /\ then[c] = point) IN
  /\ at("listing") => cmd[c] \in {"start", "run", "list"}
  /\ pc[c] = "spawn" \/ (pc[c] = "pruning" /\ then[c] = "spawn") => cmd[c] \in {"start", "run"}
  /\ at("identify") \/ pc[c] \in {"ready", "log", "verify"} => cmd[c] \in {"start", "run"}
  /\ at("connect") \/ pc[c] \in {"robot", "attach", "active", "drive"} =>
       cmd[c] \in {"run", "connect"}

\* A client owns a host from its launch until it commits; it fails when that
\* host does not run any more.
OwnOK(c) ==
  /\ pc[c] \in {"ready", "log", "terminate", "wait", "kill"} => own[c] \in World
  /\ own[c] # None =>
       /\ cmd[c] \in {"start", "run"}
       /\ host[own[c]] # "none"
       /\ \/ pc[c] \in {"ready", "log", "identify", "verify", "connect", "robot", "attach",
                        "active", "failing", "terminate", "wait", "kill", "failed"}
          \/ pc[c] \in Probing /\ then[c] = "identify"
       /\ pc[c] = "failed" => ~HostRuns(own[c])

\* A live execution that its client gave up on is reported.
RobotOK(c) ==
  robot[c] = "live" =>
    /\ cmd[c] \in {"run", "connect"}
    /\ pc[c] \in {"attach", "active", "drive", "done", "failing", "terminate", "wait", "kill",
                  "failed", "killed"}
    /\ pc[c] \in {"terminate", "wait", "kill", "failed"} => report[c] = "unclean"

LogOK(c) ==
  c \in bootLog =>
    cmd[c] \in {"start", "run"} /\ pc[c] \in {"ready", "log", "failing", "killed"}

\* A group about to be signalled is the one that was validated.
SignalOK(c) == pc[c] = "signal" => native[goal[c]] # "foreign"

\* The world a client takes for stale has lost its host; its registration is
\* removed when it has an outcome.
StaleOK(c) ==
  /\ pc[c] = "judge" => host[goal[c]] # "none"
  /\ pc[c] \in Stale \/ (pc[c] = "recover" /\ found[c] = "stale") => host[goal[c]] = "gone"
  /\ pc[c] = "unregister" => summary[goal[c]] # None \/ goal[c] \notin evidence

Joined(c) == memberEnd[c] # None \/ \E w \in World : c \in members[w]

\* A client that has joined a world, or has left it again, is past the
\* joining, unless it was killed.
PastJoining(c) ==
  Joined(c) /\ pc[c] # "killed" =>
    /\ cmd[c] \in {"run", "connect"}
    /\ \/ pc[c] \in Stale \cup {"active", "drive", "ending", "looked", "settle", "recover",
                       "recovered", "done", "failing", "terminate", "wait", "kill", "failed"}
       \/ pc[c] \in Probing /\ then[c] \in {"looked", "recover"}

\* It has the world it joined in hand, and evidence of a member that was
\* written by a stopping world says that this world stops.
JoinedOK(c) ==
  Joined(c) /\ pc[c] # "killed" =>
    /\ goal[c] \in World
    /\ \A w \in World : c \in members[w] => goal[c] = w
    /\ memberEnd[c] = "stopping" => host[goal[c]] \in {"stopping", "exiting", "gone"}

\* A client settles on evidence, and reports a member that is not one any more.
ReportOK(c) ==
  /\ pc[c] = "settle" => memberEnd[c] # None
  /\ report[c] = "member" =>
       /\ pc[c] \in {"done", "failed"} /\ memberEnd[c] = "serving"
       /\ \A w \in World : c \notin members[w]

\* What a client prunes has an outcome, or was pruned by another.
VictimsOK(c) ==
  \A w \in victims[c] :
    /\ host[w] \notin {"none", "booting"}
    /\ w \in evidence => summary[w] # None

\* The files of a world follow its host.
FilesOK(w) ==
  /\ w \in evidence => w \notin pruned
  /\ summary[w] # None => w \in evidence
  /\ host[w] = "none" => w \notin registration /\ w \notin leaseFile
  /\ host[w] \in {"none", "booting"} => w \notin evidence /\ w \notin pruned

ClientOK(c) ==
  /\ AimOK(c) /\ CommandOK(c) /\ OwnOK(c) /\ RobotOK(c) /\ LogOK(c)
  /\ SignalOK(c) /\ StaleOK(c) /\ PastJoining(c) /\ JoinedOK(c)
  /\ ReportOK(c) /\ VictimsOK(c)

IInv ==
  /\ TypeOK
  /\ \A c \in Client : ClientOK(c)
  /\ \A w \in World : FilesOK(w)
  /\ NoForeignSignal

(***************************************************************************)
(* Every step keeps it.                                                    *)
(***************************************************************************)
\* What a prune removes has a summary when it is chosen.
LEMMA OldestAreTerminal ==
  ASSUME NEW ls, NEW w \in Oldest(Candidates(ls))
  PROVE  w \in evidence /\ summary[w] # None
  BY DEF Oldest, Candidates

\* Every step keeps the types of what is on disk.
LEMMA FileTypesStep ==
  ASSUME IInv, [Next]_vars
  PROVE  FileTypes'
<1>. USE WorldAssumption, CommandAssumption DEF vars, worldVars, files, processes, history,
      probing, mine, worlds, IInv, TypeOK, FileTypes, Endings, Summarise, Fresh, Go, Probe,
      Return, Fail
<1>1. CASE UNCHANGED vars  BY <1>1
<1>2. ASSUME NEW d \in Client, CommandStep(d) PROVE FileTypes'
  <2>1. CASE GiveListing(d)  BY <2>1 DEF GiveListing
  <2>2. CASE GiveInstance(d)  BY <2>2 DEF GiveInstance
  <2>3. CASE ListOne(d)  BY <2>3 DEF ListOne
  <2>4. CASE FinaliseOne(d)  BY <2>4 DEF FinaliseOne
  <2>5. CASE Recovered(d)  BY <2>5 DEF Recovered, Exits, MembersReadable
  <2>6. CASE PreparationFails(d)  BY <2>6 DEF PreparationFails
  <2>7. CASE SpawnHost(d)  BY <2>7 DEF SpawnHost
  <2>8. CASE AwaitReady(d)  BY <2>8 DEF AwaitReady
  <2>9. CASE PublishLog(d)  BY <2>9 DEF PublishLog
  <2>10. CASE Identify(d)  BY <2>10 DEF Identify
  <2>11. CASE Verify(d)  BY <2>11 DEF Verify
  <2>12. CASE Connect(d)  BY <2>12 DEF Connect
  <2>13. CASE LaunchRobot(d)  BY <2>13 DEF LaunchRobot
  <2>14. CASE Attach(d)  BY <2>14 DEF Attach
  <2>15. CASE AwaitActive(d)  BY <2>15 DEF AwaitActive
  <2>16. CASE Drive(d)  BY <2>16 DEF Drive
  <2>17. CASE Ending(d)  BY <2>17 DEF Ending, Exits
  <2>18. CASE Looked(d)  BY <2>18 DEF Looked
  <2>19. CASE Settle(d)  BY <2>19 DEF Settle, Exits
  <2>20. CASE StopWorld(d)  BY <2>20 DEF StopWorld
  <2>21. CASE Poll(d)  BY <2>21 DEF Poll
  <2>22. CASE Polled(d)  BY <2>22 DEF Polled, Exits
  <2>23. CASE Show(d)  BY <2>23 DEF Show
  <2>24. CASE Control(d)  BY <2>24 DEF Control
  <2>25. CASE RollBack(d)  BY <2>25 DEF RollBack
  <2>26. CASE Terminate(d)  BY <2>26 DEF Terminate
  <2>27. CASE AwaitHost(d)  BY <2>27 DEF AwaitHost, OwnHostAlive
  <2>28. CASE KillHost(d)  BY <2>28 DEF KillHost
  <2>29. CASE ClientKilled(d)  BY <2>29 DEF ClientKilled
  <2>. QED  BY <1>2, <2>1, <2>2, <2>3, <2>4, <2>5, <2>6, <2>7, <2>8, <2>9, <2>10, <2>11, <2>12,
        <2>13, <2>14, <2>15, <2>16, <2>17, <2>18, <2>19, <2>20, <2>21, <2>22, <2>23, <2>24,
        <2>25, <2>26, <2>27, <2>28, <2>29 DEF CommandStep
<1>3. ASSUME NEW d \in Client, RegistryStep(d), UNCHANGED <<mine, worlds>> PROVE FileTypes'
  <2>1. CASE OpenRegistration(d)  BY <1>3, <2>1 DEF OpenRegistration
  <2>2. CASE TryLease(d)  BY <1>3, <2>2 DEF TryLease
  <2>3. CASE Judge(d)  BY <1>3, <2>3 DEF Judge
  <2>4. CASE Recover(d)  BY <1>3, <2>4 DEF Recover
  <2>5. CASE Grace(d)  BY <1>3, <2>5 DEF Grace
  <2>6. CASE Validate(d)  BY <1>3, <2>6 DEF Validate, LeaderObserved
  <2>7. CASE Signal(d)  BY <1>3, <2>7 DEF Signal
  <2>8. CASE Await(d)  BY <1>3, <2>8 DEF Await
  <2>9. CASE Reread(d)  BY <1>3, <2>9 DEF Reread
  <2>10. CASE PublishRecovered(d)  BY <1>3, <2>10 DEF PublishRecovered, IndexReadable
  <2>11. CASE Unregister(d)  BY <1>3, <2>11 DEF Unregister
  <2>12. CASE Unlease(d)  BY <1>3, <2>12 DEF Unlease
  <2>13. CASE PruneOne(d)  BY <1>3, <2>13 DEF PruneOne
  <2>. QED  BY <1>3, <2>1, <2>2, <2>3, <2>4, <2>5, <2>6, <2>7, <2>8, <2>9, <2>10, <2>11, <2>12,
        <2>13 DEF RegistryStep
<1>4. ASSUME NEW d \in Client, RobotEnds(d) PROVE FileTypes'
  BY <1>4 DEF RobotEnds
<1>5. ASSUME NEW v \in World, HostPersists(v), UNCHANGED <<mine, worlds>> PROVE FileTypes'
  BY <1>5 DEF HostPersists
<1>6. ASSUME NEW v \in World, HostRegisters(v), UNCHANGED <<mine, worlds>> PROVE FileTypes'
  BY <1>6 DEF HostRegisters
<1>7. ASSUME NEW v \in World, HostUnregisters(v), UNCHANGED <<mine, worlds>> PROVE FileTypes'
  BY <1>7 DEF HostUnregisters
<1>8. ASSUME NEW v \in World, HostLost(v), UNCHANGED <<mine, worlds>> PROVE FileTypes'
  BY <1>8 DEF HostLost
<1>9. ASSUME NEW v \in World, HostReaped(v), UNCHANGED <<mine, worlds>> PROVE FileTypes'
  BY <1>9 DEF HostReaped
<1>10. ASSUME NEW v \in World, LateSummary(v), UNCHANGED <<mine, worlds>> PROVE FileTypes'
  BY <1>10 DEF LateSummary
<1>11. ASSUME NEW v \in World, NativeChanges(v), UNCHANGED <<mine, worlds>> PROVE FileTypes'
  BY <1>11 DEF NativeChanges
<1>12. ASSUME NEW v \in World, HostSettles(v) PROVE FileTypes'
  BY <1>12 DEF HostSettles, HostSummarises
<1>13. ASSUME NEW v \in World, HostAnnounces(v) PROVE FileTypes'
  BY <1>13 DEF HostAnnounces
<1>14. ASSUME NEW v \in World, HostFails(v) PROVE FileTypes'
  BY <1>14 DEF HostFails
<1>15. ASSUME NEW v \in World, NEW d \in Client, MemberEnds(v, d) PROVE FileTypes'
  BY <1>15 DEF MemberEnds
<1>. QED  BY <1>1, <1>2, <1>3, <1>4, <1>5, <1>6, <1>7, <1>8, <1>9, <1>10, <1>11, <1>12, <1>13,
      <1>14, <1>15 DEF Next

\* And of the processes.
LEMMA HostTypesStep ==
  ASSUME IInv, [Next]_vars
  PROVE  HostTypes'
<1>. USE DEF vars, worldVars, files, processes, history, probing, mine, worlds, IInv, TypeOK,
      HostTypes, HostRuns, Fresh, Go, Probe, Return, Fail
<1>1. CASE UNCHANGED vars  BY <1>1
<1>2. ASSUME NEW d \in Client, CommandStep(d) PROVE HostTypes'
  <2>1. CASE GiveListing(d)  BY <2>1 DEF GiveListing
  <2>2. CASE GiveInstance(d)  BY <2>2 DEF GiveInstance
  <2>3. CASE ListOne(d)  BY <2>3 DEF ListOne
  <2>4. CASE FinaliseOne(d)  BY <2>4 DEF FinaliseOne
  <2>5. CASE Recovered(d)  BY <2>5 DEF Recovered, Exits, MembersReadable
  <2>6. CASE PreparationFails(d)  BY <2>6 DEF PreparationFails
  <2>7. CASE SpawnHost(d)  BY <2>7 DEF SpawnHost
  <2>8. CASE AwaitReady(d)  BY <2>8 DEF AwaitReady
  <2>9. CASE PublishLog(d)  BY <2>9 DEF PublishLog
  <2>10. CASE Identify(d)  BY <2>10 DEF Identify
  <2>11. CASE Verify(d)  BY <2>11 DEF Verify
  <2>12. CASE Connect(d)  BY <2>12 DEF Connect
  <2>13. CASE LaunchRobot(d)  BY <2>13 DEF LaunchRobot
  <2>14. CASE Attach(d)  BY <2>14 DEF Attach
  <2>15. CASE AwaitActive(d)  BY <2>15 DEF AwaitActive
  <2>16. CASE Drive(d)  BY <2>16 DEF Drive
  <2>17. CASE Ending(d)  BY <2>17 DEF Ending, Exits
  <2>18. CASE Looked(d)  BY <2>18 DEF Looked
  <2>19. CASE Settle(d)  BY <2>19 DEF Settle, Exits
  <2>20. CASE StopWorld(d)  BY <2>20 DEF StopWorld
  <2>21. CASE Poll(d)  BY <2>21 DEF Poll
  <2>22. CASE Polled(d)  BY <2>22 DEF Polled, Exits
  <2>23. CASE Show(d)  BY <2>23 DEF Show
  <2>24. CASE Control(d)  BY <2>24 DEF Control
  <2>25. CASE RollBack(d)  BY <2>25 DEF RollBack
  <2>26. CASE Terminate(d)  BY <2>26 DEF Terminate
  <2>27. CASE AwaitHost(d)  BY <2>27 DEF AwaitHost, OwnHostAlive
  <2>28. CASE KillHost(d)  BY <2>28 DEF KillHost
  <2>29. CASE ClientKilled(d)  BY <2>29 DEF ClientKilled
  <2>. QED  BY <1>2, <2>1, <2>2, <2>3, <2>4, <2>5, <2>6, <2>7, <2>8, <2>9, <2>10, <2>11, <2>12,
        <2>13, <2>14, <2>15, <2>16, <2>17, <2>18, <2>19, <2>20, <2>21, <2>22, <2>23, <2>24,
        <2>25, <2>26, <2>27, <2>28, <2>29 DEF CommandStep
<1>3. ASSUME NEW d \in Client, RegistryStep(d), UNCHANGED <<mine, worlds>> PROVE HostTypes'
  <2>1. CASE OpenRegistration(d)  BY <1>3, <2>1 DEF OpenRegistration
  <2>2. CASE TryLease(d)  BY <1>3, <2>2 DEF TryLease
  <2>3. CASE Judge(d)  BY <1>3, <2>3 DEF Judge
  <2>4. CASE Recover(d)  BY <1>3, <2>4 DEF Recover
  <2>5. CASE Grace(d)  BY <1>3, <2>5 DEF Grace
  <2>6. CASE Validate(d)  BY <1>3, <2>6 DEF Validate, LeaderObserved
  <2>7. CASE Signal(d)
    <3>1. PICK next \in {native[goal[d]], "gone"} : native' = [native EXCEPT ![goal[d]] = next]
      BY <1>3, <2>7 DEF Signal
    <3>2. host' = host  BY <1>3, <2>7 DEF Signal
    <3>3. goal[d] \in World => next \in {"none", "ours", "leaderless", "gone", "foreign"}
      BY <3>1
    <3>. QED  BY <3>1, <3>2, <3>3
  <2>8. CASE Await(d)  BY <1>3, <2>8 DEF Await
  <2>9. CASE Reread(d)  BY <1>3, <2>9 DEF Reread
  <2>10. CASE PublishRecovered(d)  BY <1>3, <2>10 DEF PublishRecovered, IndexReadable
  <2>11. CASE Unregister(d)  BY <1>3, <2>11 DEF Unregister
  <2>12. CASE Unlease(d)  BY <1>3, <2>12 DEF Unlease
  <2>13. CASE PruneOne(d)  BY <1>3, <2>13 DEF PruneOne
  <2>. QED  BY <1>3, <2>1, <2>2, <2>3, <2>4, <2>5, <2>6, <2>7, <2>8, <2>9, <2>10, <2>11, <2>12,
        <2>13 DEF RegistryStep
<1>4. ASSUME NEW d \in Client, RobotEnds(d) PROVE HostTypes'
  BY <1>4 DEF RobotEnds
<1>5. ASSUME NEW v \in World, HostPersists(v), UNCHANGED <<mine, worlds>> PROVE HostTypes'
  BY <1>5 DEF HostPersists
<1>6. ASSUME NEW v \in World, HostRegisters(v), UNCHANGED <<mine, worlds>> PROVE HostTypes'
  BY <1>6 DEF HostRegisters
<1>7. ASSUME NEW v \in World, HostUnregisters(v), UNCHANGED <<mine, worlds>> PROVE HostTypes'
  BY <1>7 DEF HostUnregisters
<1>8. ASSUME NEW v \in World, HostLost(v), UNCHANGED <<mine, worlds>> PROVE HostTypes'
  BY <1>8 DEF HostLost
<1>9. ASSUME NEW v \in World, HostReaped(v), UNCHANGED <<mine, worlds>> PROVE HostTypes'
  BY <1>9 DEF HostReaped
<1>10. ASSUME NEW v \in World, LateSummary(v), UNCHANGED <<mine, worlds>> PROVE HostTypes'
  BY <1>10 DEF LateSummary
<1>11. ASSUME NEW v \in World, NativeChanges(v), UNCHANGED <<mine, worlds>> PROVE HostTypes'
  BY <1>11 DEF NativeChanges
<1>12. ASSUME NEW v \in World, HostSettles(v) PROVE HostTypes'
  BY <1>12 DEF HostSettles, HostSummarises
<1>13. ASSUME NEW v \in World, HostAnnounces(v) PROVE HostTypes'
  BY <1>13 DEF HostAnnounces
<1>14. ASSUME NEW v \in World, HostFails(v) PROVE HostTypes'
  BY <1>14 DEF HostFails
<1>15. ASSUME NEW v \in World, NEW d \in Client, MemberEnds(v, d) PROVE HostTypes'
  BY <1>15 DEF MemberEnds
<1>. QED  BY <1>1, <1>2, <1>3, <1>4, <1>5, <1>6, <1>7, <1>8, <1>9, <1>10, <1>11, <1>12, <1>13,
      <1>14, <1>15 DEF Next

\* And of the members.
LEMMA MemberTypesStep ==
  ASSUME IInv, [Next]_vars
  PROVE  MemberTypes'
<1>. USE DEF vars, worldVars, files, processes, history, probing, mine, worlds, IInv, TypeOK,
      HostTypes, MemberTypes, Fresh, Go, Probe, Return, Fail
<1>1. CASE UNCHANGED vars  BY <1>1
<1>2. ASSUME NEW d \in Client, CommandStep(d) PROVE MemberTypes'
  <2>1. CASE GiveListing(d)  BY <2>1 DEF GiveListing
  <2>2. CASE GiveInstance(d)  BY <2>2 DEF GiveInstance
  <2>3. CASE ListOne(d)  BY <2>3 DEF ListOne
  <2>4. CASE FinaliseOne(d)  BY <2>4 DEF FinaliseOne
  <2>5. CASE Recovered(d)  BY <2>5 DEF Recovered, Exits, MembersReadable
  <2>6. CASE PreparationFails(d)  BY <2>6 DEF PreparationFails
  <2>7. CASE SpawnHost(d)  BY <2>7 DEF SpawnHost
  <2>8. CASE AwaitReady(d)  BY <2>8 DEF AwaitReady
  <2>9. CASE PublishLog(d)  BY <2>9 DEF PublishLog
  <2>10. CASE Identify(d)  BY <2>10 DEF Identify
  <2>11. CASE Verify(d)  BY <2>11 DEF Verify
  <2>12. CASE Connect(d)  BY <2>12 DEF Connect
  <2>13. CASE LaunchRobot(d)  BY <2>13 DEF LaunchRobot
  <2>14. CASE Attach(d)  BY <2>14 DEF Attach
  <2>15. CASE AwaitActive(d)  BY <2>15 DEF AwaitActive
  <2>16. CASE Drive(d)  BY <2>16 DEF Drive
  <2>17. CASE Ending(d)  BY <2>17 DEF Ending, Exits
  <2>18. CASE Looked(d)  BY <2>18 DEF Looked
  <2>19. CASE Settle(d)  BY <2>19 DEF Settle, Exits
  <2>20. CASE StopWorld(d)  BY <2>20 DEF StopWorld
  <2>21. CASE Poll(d)  BY <2>21 DEF Poll
  <2>22. CASE Polled(d)  BY <2>22 DEF Polled, Exits
  <2>23. CASE Show(d)  BY <2>23 DEF Show
  <2>24. CASE Control(d)  BY <2>24 DEF Control
  <2>25. CASE RollBack(d)  BY <2>25 DEF RollBack
  <2>26. CASE Terminate(d)  BY <2>26 DEF Terminate
  <2>27. CASE AwaitHost(d)  BY <2>27 DEF AwaitHost, OwnHostAlive
  <2>28. CASE KillHost(d)  BY <2>28 DEF KillHost
  <2>29. CASE ClientKilled(d)  BY <2>29 DEF ClientKilled
  <2>. QED  BY <1>2, <2>1, <2>2, <2>3, <2>4, <2>5, <2>6, <2>7, <2>8, <2>9, <2>10, <2>11, <2>12,
        <2>13, <2>14, <2>15, <2>16, <2>17, <2>18, <2>19, <2>20, <2>21, <2>22, <2>23, <2>24,
        <2>25, <2>26, <2>27, <2>28, <2>29 DEF CommandStep
<1>3. ASSUME NEW d \in Client, RegistryStep(d), UNCHANGED <<mine, worlds>> PROVE MemberTypes'
  <2>1. CASE OpenRegistration(d)  BY <1>3, <2>1 DEF OpenRegistration
  <2>2. CASE TryLease(d)  BY <1>3, <2>2 DEF TryLease
  <2>3. CASE Judge(d)  BY <1>3, <2>3 DEF Judge
  <2>4. CASE Recover(d)  BY <1>3, <2>4 DEF Recover
  <2>5. CASE Grace(d)  BY <1>3, <2>5 DEF Grace
  <2>6. CASE Validate(d)  BY <1>3, <2>6 DEF Validate, LeaderObserved
  <2>7. CASE Signal(d)  BY <1>3, <2>7 DEF Signal
  <2>8. CASE Await(d)  BY <1>3, <2>8 DEF Await
  <2>9. CASE Reread(d)  BY <1>3, <2>9 DEF Reread
  <2>10. CASE PublishRecovered(d)  BY <1>3, <2>10 DEF PublishRecovered, IndexReadable
  <2>11. CASE Unregister(d)  BY <1>3, <2>11 DEF Unregister
  <2>12. CASE Unlease(d)  BY <1>3, <2>12 DEF Unlease
  <2>13. CASE PruneOne(d)  BY <1>3, <2>13 DEF PruneOne
  <2>. QED  BY <1>3, <2>1, <2>2, <2>3, <2>4, <2>5, <2>6, <2>7, <2>8, <2>9, <2>10, <2>11, <2>12,
        <2>13 DEF RegistryStep
<1>4. ASSUME NEW d \in Client, RobotEnds(d) PROVE MemberTypes'
  BY <1>4 DEF RobotEnds
<1>5. ASSUME NEW v \in World, HostPersists(v), UNCHANGED <<mine, worlds>> PROVE MemberTypes'
  BY <1>5 DEF HostPersists
<1>6. ASSUME NEW v \in World, HostRegisters(v), UNCHANGED <<mine, worlds>> PROVE MemberTypes'
  BY <1>6 DEF HostRegisters
<1>7. ASSUME NEW v \in World, HostUnregisters(v), UNCHANGED <<mine, worlds>> PROVE MemberTypes'
  BY <1>7 DEF HostUnregisters
<1>8. ASSUME NEW v \in World, HostLost(v), UNCHANGED <<mine, worlds>> PROVE MemberTypes'
  BY <1>8 DEF HostLost
<1>9. ASSUME NEW v \in World, HostReaped(v), UNCHANGED <<mine, worlds>> PROVE MemberTypes'
  BY <1>9 DEF HostReaped
<1>10. ASSUME NEW v \in World, LateSummary(v), UNCHANGED <<mine, worlds>> PROVE MemberTypes'
  BY <1>10 DEF LateSummary
<1>11. ASSUME NEW v \in World, NativeChanges(v), UNCHANGED <<mine, worlds>> PROVE MemberTypes'
  BY <1>11 DEF NativeChanges
<1>12. ASSUME NEW v \in World, HostSettles(v) PROVE MemberTypes'
  BY <1>12 DEF HostSettles, HostSummarises
<1>13. ASSUME NEW v \in World, HostAnnounces(v) PROVE MemberTypes'
  BY <1>13 DEF HostAnnounces
<1>14. ASSUME NEW v \in World, HostFails(v) PROVE MemberTypes'
  BY <1>14 DEF HostFails
<1>15. ASSUME NEW v \in World, NEW d \in Client, MemberEnds(v, d) PROVE MemberTypes'
  BY <1>15 DEF MemberEnds
<1>. QED  BY <1>1, <1>2, <1>3, <1>4, <1>5, <1>6, <1>7, <1>8, <1>9, <1>10, <1>11, <1>12, <1>13,
      <1>14, <1>15 DEF Next

\* And of the probes.
LEMMA ProbeTypesStep ==
  ASSUME IInv, [Next]_vars
  PROVE  ProbeTypes'
<1>. USE WorldAssumption, CommandAssumption DEF vars, worldVars, files, processes, history,
      probing, mine, worlds, IInv, TypeOK, ProbeTypes, FileTypes, CommandTypes, ClientOK,
      AimOK, OwnOK, Endings, Points, Probing, Stale, Returns, Aimed, Aimless, ReadSummary,
      Fresh, List, Go, Probe, Return, Fail
<1>1. CASE UNCHANGED vars  BY <1>1
<1>2. ASSUME NEW d \in Client, CommandStep(d) PROVE ProbeTypes'
  <2>1. CASE GiveListing(d)  BY <2>1 DEF GiveListing
  <2>2. CASE GiveInstance(d)  BY <2>2 DEF GiveInstance
  <2>3. CASE ListOne(d)
    <3>1. victims' \in [Client -> SUBSET World]
      <4>1. \E ls : victims' \in {victims, [victims EXCEPT ![d] = Oldest(Candidates(ls))]}
        BY <2>3 DEF ListOne, Prune
      <4>2. \A ls : Oldest(Candidates(ls)) \subseteq World
        BY OldestAreTerminal
      <4>. QED  BY <4>1, <4>2
    <3>2. pc' \in [Client -> Points] /\ goal' \in [Client -> World \cup {None}]
      BY SMTT(30), <2>3 DEF ListOne, Prune
    <3>3. then' \in [Client -> Points \cup {None}] /\ UNCHANGED signal
      BY <2>3 DEF ListOne, Prune
    <3>4. found' \in [Client -> Endings \cup {"live", "stale", "missing", None}]
      BY <2>3 DEF ListOne
    <3>. QED  BY <3>1, <3>2, <3>3, <3>4
  <2>4. CASE FinaliseOne(d)
    <3>1. victims' \in [Client -> SUBSET World]
      <4>1. \E ls : victims' \in {victims, [victims EXCEPT ![d] = Oldest(Candidates(ls))]}
        BY <2>4 DEF FinaliseOne, Prune
      <4>2. \A ls : Oldest(Candidates(ls)) \subseteq World
        BY OldestAreTerminal
      <4>. QED  BY <4>1, <4>2
    <3>2. pc' \in [Client -> Points] /\ goal' \in [Client -> World \cup {None}]
      BY <2>4 DEF FinaliseOne, Prune
    <3>3. then' \in [Client -> Points \cup {None}] /\ UNCHANGED signal
      BY <2>4 DEF FinaliseOne, Prune
    <3>4. found' \in [Client -> Endings \cup {"live", "stale", "missing", None}]
      BY <2>4 DEF FinaliseOne
    <3>. QED  BY <3>1, <3>2, <3>3, <3>4
  <2>5. CASE Recovered(d)  BY <2>5 DEF Recovered, Exits, MembersReadable
  <2>6. CASE PreparationFails(d)  BY <2>6 DEF PreparationFails
  <2>7. CASE SpawnHost(d)  BY <2>7 DEF SpawnHost
  <2>8. CASE AwaitReady(d)  BY <2>8 DEF AwaitReady
  <2>9. CASE PublishLog(d)  BY <2>9 DEF PublishLog
  <2>10. CASE Identify(d)  BY <2>10 DEF Identify
  <2>11. CASE Verify(d)  BY <2>11 DEF Verify
  <2>12. CASE Connect(d)  BY <2>12 DEF Connect
  <2>13. CASE LaunchRobot(d)  BY <2>13 DEF LaunchRobot
  <2>14. CASE Attach(d)  BY <2>14 DEF Attach
  <2>15. CASE AwaitActive(d)  BY <2>15 DEF AwaitActive
  <2>16. CASE Drive(d)  BY <2>16 DEF Drive
  <2>17. CASE Ending(d)  BY <2>17 DEF Ending, Exits
  <2>18. CASE Looked(d)  BY <2>18 DEF Looked
  <2>19. CASE Settle(d)  BY <2>19 DEF Settle, Exits
  <2>20. CASE StopWorld(d)  BY <2>20 DEF StopWorld
  <2>21. CASE Poll(d)  BY <2>21 DEF Poll
  <2>22. CASE Polled(d)  BY <2>22 DEF Polled, Exits
  <2>23. CASE Show(d)  BY <2>23 DEF Show
  <2>24. CASE Control(d)  BY <2>24 DEF Control
  <2>25. CASE RollBack(d)  BY <2>25 DEF RollBack
  <2>26. CASE Terminate(d)  BY <2>26 DEF Terminate
  <2>27. CASE AwaitHost(d)  BY <2>27 DEF AwaitHost, OwnHostAlive
  <2>28. CASE KillHost(d)  BY <2>28 DEF KillHost
  <2>29. CASE ClientKilled(d)  BY <2>29 DEF ClientKilled
  <2>. QED  BY <1>2, <2>1, <2>2, <2>3, <2>4, <2>5, <2>6, <2>7, <2>8, <2>9, <2>10, <2>11, <2>12,
        <2>13, <2>14, <2>15, <2>16, <2>17, <2>18, <2>19, <2>20, <2>21, <2>22, <2>23, <2>24,
        <2>25, <2>26, <2>27, <2>28, <2>29 DEF CommandStep
<1>3. ASSUME NEW d \in Client, RegistryStep(d), UNCHANGED <<mine, worlds>> PROVE ProbeTypes'
  <2>1. CASE OpenRegistration(d)  BY <1>3, <2>1 DEF OpenRegistration
  <2>2. CASE TryLease(d)  BY <1>3, <2>2 DEF TryLease
  <2>3. CASE Judge(d)  BY <1>3, <2>3 DEF Judge
  <2>4. CASE Recover(d)
    <3>1. goal[d] \in World  BY <2>4 DEF Recover
    <3>2. found' \in [Client -> Endings \cup {"live", "stale", "missing", None}]
      BY <1>3, <2>4, <3>1 DEF Recover
    <3>3. pc' \in [Client -> Points]  BY <2>4 DEF Recover
    <3>. QED  BY <2>4, <3>2, <3>3 DEF Recover
  <2>5. CASE Grace(d)  BY <1>3, <2>5 DEF Grace
  <2>6. CASE Validate(d)  BY <1>3, <2>6 DEF Validate, LeaderObserved
  <2>7. CASE Signal(d)  BY <1>3, <2>7 DEF Signal
  <2>8. CASE Await(d)
    <3>1. UNCHANGED <<goal, then, found, victims>>  BY <2>8 DEF Await
    <3>2. \/ /\ pc' = [pc EXCEPT ![d] = "reread"] \/ pc' = [pc EXCEPT ![d] = "validate"]
             /\ signal' = signal \/ signal' = [signal EXCEPT ![d] = "kill"]
          \/ Fail(d) /\ signal' = signal
      BY <2>8 DEF Await
    <3>3. CASE /\ pc' = [pc EXCEPT ![d] = "reread"] \/ pc' = [pc EXCEPT ![d] = "validate"]
               /\ signal' = signal \/ signal' = [signal EXCEPT ![d] = "kill"]
      BY <3>1, <3>3
    <3>4. CASE Fail(d) /\ signal' = signal  BY <3>1, <3>4
    <3>. QED  BY <3>2, <3>3, <3>4
  <2>9. CASE Reread(d)  BY <1>3, <2>9 DEF Reread
  <2>10. CASE PublishRecovered(d)  BY SMTT(30), <1>3, <2>10 DEF PublishRecovered, IndexReadable
  <2>11. CASE Unregister(d)  BY <1>3, <2>11 DEF Unregister
  <2>12. CASE Unlease(d)  BY <1>3, <2>12 DEF Unlease
  <2>13. CASE PruneOne(d)  BY SMTT(30), <1>3, <2>13 DEF PruneOne
  <2>. QED  BY <1>3, <2>1, <2>2, <2>3, <2>4, <2>5, <2>6, <2>7, <2>8, <2>9, <2>10, <2>11, <2>12,
        <2>13 DEF RegistryStep
<1>4. ASSUME NEW d \in Client, RobotEnds(d) PROVE ProbeTypes'
  BY <1>4 DEF RobotEnds
<1>5. ASSUME NEW v \in World, HostPersists(v), UNCHANGED <<mine, worlds>> PROVE ProbeTypes'
  BY <1>5 DEF HostPersists
<1>6. ASSUME NEW v \in World, HostRegisters(v), UNCHANGED <<mine, worlds>> PROVE ProbeTypes'
  BY <1>6 DEF HostRegisters
<1>7. ASSUME NEW v \in World, HostUnregisters(v), UNCHANGED <<mine, worlds>> PROVE ProbeTypes'
  BY <1>7 DEF HostUnregisters
<1>8. ASSUME NEW v \in World, HostLost(v), UNCHANGED <<mine, worlds>> PROVE ProbeTypes'
  BY <1>8 DEF HostLost
<1>9. ASSUME NEW v \in World, HostReaped(v), UNCHANGED <<mine, worlds>> PROVE ProbeTypes'
  BY <1>9 DEF HostReaped
<1>10. ASSUME NEW v \in World, LateSummary(v), UNCHANGED <<mine, worlds>> PROVE ProbeTypes'
  BY <1>10 DEF LateSummary
<1>11. ASSUME NEW v \in World, NativeChanges(v), UNCHANGED <<mine, worlds>> PROVE ProbeTypes'
  BY <1>11 DEF NativeChanges
<1>12. ASSUME NEW v \in World, HostSettles(v) PROVE ProbeTypes'
  BY <1>12 DEF HostSettles, HostSummarises
<1>13. ASSUME NEW v \in World, HostAnnounces(v) PROVE ProbeTypes'
  BY <1>13 DEF HostAnnounces
<1>14. ASSUME NEW v \in World, HostFails(v) PROVE ProbeTypes'
  BY <1>14 DEF HostFails
<1>15. ASSUME NEW v \in World, NEW d \in Client, MemberEnds(v, d) PROVE ProbeTypes'
  BY <1>15 DEF MemberEnds
<1>. QED  BY <1>1, <1>2, <1>3, <1>4, <1>5, <1>6, <1>7, <1>8, <1>9, <1>10, <1>11, <1>12, <1>13,
      <1>14, <1>15 DEF Next

\* And of the commands.
LEMMA CommandTypesStep ==
  ASSUME IInv, [Next]_vars
  PROVE  CommandTypes'
<1>. USE WorldAssumption, CommandAssumption DEF vars, worldVars, files, processes, history,
      probing, mine, worlds, IInv, TypeOK, ProbeTypes, FileTypes, CommandTypes, Endings,
      Commands, ClientOK, AimOK, Points, Probing, Stale, Returns, Aimed, Aimless, Detached,
      Fresh, List, Prune, Go, Probe, Return, Fail
<1>1. CASE UNCHANGED vars  BY <1>1
<1>2. ASSUME NEW d \in Client, CommandStep(d) PROVE CommandTypes'
  <2>1. CASE GiveListing(d)  BY <2>1 DEF GiveListing
  <2>2. CASE GiveInstance(d)  BY <2>2 DEF GiveInstance
  <2>3. CASE ListOne(d)  BY <2>3 DEF ListOne
  <2>4. CASE FinaliseOne(d)  BY <2>4 DEF FinaliseOne
  <2>5. CASE Recovered(d)  BY <2>5 DEF Recovered, Exits, MembersReadable
  <2>6. CASE PreparationFails(d)  BY <2>6 DEF PreparationFails
  <2>7. CASE SpawnHost(d)  BY <2>7 DEF SpawnHost
  <2>8. CASE AwaitReady(d)  BY <2>8 DEF AwaitReady
  <2>9. CASE PublishLog(d)  BY <2>9 DEF PublishLog
  <2>10. CASE Identify(d)  BY <2>10 DEF Identify
  <2>11. CASE Verify(d)  BY <2>11 DEF Verify
  <2>12. CASE Connect(d)  BY <2>12 DEF Connect
  <2>13. CASE LaunchRobot(d)  BY <2>13 DEF LaunchRobot
  <2>14. CASE Attach(d)  BY <2>14 DEF Attach
  <2>15. CASE AwaitActive(d)  BY <2>15 DEF AwaitActive
  <2>16. CASE Drive(d)  BY <2>16 DEF Drive
  <2>17. CASE Ending(d)  BY <2>17 DEF Ending, Exits
  <2>18. CASE Looked(d)  BY <2>18 DEF Looked
  <2>19. CASE Settle(d)  BY <2>19 DEF Settle, Exits
  <2>20. CASE StopWorld(d)  BY <2>20 DEF StopWorld
  <2>21. CASE Poll(d)  BY <2>21 DEF Poll
  <2>22. CASE Polled(d)  BY <2>22 DEF Polled, Exits
  <2>23. CASE Show(d)  BY <2>23 DEF Show
  <2>24. CASE Control(d)  BY <2>24 DEF Control
  <2>25. CASE RollBack(d)  BY SMTT(30), <2>25 DEF RollBack
  <2>26. CASE Terminate(d)  BY <2>26 DEF Terminate
  <2>27. CASE AwaitHost(d)  BY <2>27 DEF AwaitHost, OwnHostAlive
  <2>28. CASE KillHost(d)  BY <2>28 DEF KillHost
  <2>29. CASE ClientKilled(d)  BY <2>29 DEF ClientKilled
  <2>. QED  BY <1>2, <2>1, <2>2, <2>3, <2>4, <2>5, <2>6, <2>7, <2>8, <2>9, <2>10, <2>11, <2>12,
        <2>13, <2>14, <2>15, <2>16, <2>17, <2>18, <2>19, <2>20, <2>21, <2>22, <2>23, <2>24,
        <2>25, <2>26, <2>27, <2>28, <2>29 DEF CommandStep
<1>3. ASSUME NEW d \in Client, RegistryStep(d), UNCHANGED <<mine, worlds>> PROVE CommandTypes'
  <2>1. CASE OpenRegistration(d)  BY <1>3, <2>1 DEF OpenRegistration
  <2>2. CASE TryLease(d)  BY <1>3, <2>2 DEF TryLease
  <2>3. CASE Judge(d)  BY <1>3, <2>3 DEF Judge
  <2>4. CASE Recover(d)  BY <1>3, <2>4 DEF Recover
  <2>5. CASE Grace(d)  BY <1>3, <2>5 DEF Grace
  <2>6. CASE Validate(d)  BY <1>3, <2>6 DEF Validate, LeaderObserved
  <2>7. CASE Signal(d)  BY <1>3, <2>7 DEF Signal
  <2>8. CASE Await(d)  BY <1>3, <2>8 DEF Await
  <2>9. CASE Reread(d)  BY <1>3, <2>9 DEF Reread
  <2>10. CASE PublishRecovered(d)  BY <1>3, <2>10 DEF PublishRecovered, IndexReadable
  <2>11. CASE Unregister(d)  BY <1>3, <2>11 DEF Unregister
  <2>12. CASE Unlease(d)  BY <1>3, <2>12 DEF Unlease
  <2>13. CASE PruneOne(d)  BY <1>3, <2>13 DEF PruneOne
  <2>. QED  BY <1>3, <2>1, <2>2, <2>3, <2>4, <2>5, <2>6, <2>7, <2>8, <2>9, <2>10, <2>11, <2>12,
        <2>13 DEF RegistryStep
<1>4. ASSUME NEW d \in Client, RobotEnds(d) PROVE CommandTypes'
  BY <1>4 DEF RobotEnds
<1>5. ASSUME NEW v \in World, HostPersists(v), UNCHANGED <<mine, worlds>> PROVE CommandTypes'
  BY <1>5 DEF HostPersists
<1>6. ASSUME NEW v \in World, HostRegisters(v), UNCHANGED <<mine, worlds>> PROVE CommandTypes'
  BY <1>6 DEF HostRegisters
<1>7. ASSUME NEW v \in World, HostUnregisters(v), UNCHANGED <<mine, worlds>> PROVE CommandTypes'
  BY <1>7 DEF HostUnregisters
<1>8. ASSUME NEW v \in World, HostLost(v), UNCHANGED <<mine, worlds>> PROVE CommandTypes'
  BY <1>8 DEF HostLost
<1>9. ASSUME NEW v \in World, HostReaped(v), UNCHANGED <<mine, worlds>> PROVE CommandTypes'
  BY <1>9 DEF HostReaped
<1>10. ASSUME NEW v \in World, LateSummary(v), UNCHANGED <<mine, worlds>> PROVE CommandTypes'
  BY <1>10 DEF LateSummary
<1>11. ASSUME NEW v \in World, NativeChanges(v), UNCHANGED <<mine, worlds>> PROVE CommandTypes'
  BY <1>11 DEF NativeChanges
<1>12. ASSUME NEW v \in World, HostSettles(v) PROVE CommandTypes'
  BY <1>12 DEF HostSettles, HostSummarises
<1>13. ASSUME NEW v \in World, HostAnnounces(v) PROVE CommandTypes'
  BY <1>13 DEF HostAnnounces
<1>14. ASSUME NEW v \in World, HostFails(v) PROVE CommandTypes'
  BY <1>14 DEF HostFails
<1>15. ASSUME NEW v \in World, NEW d \in Client, MemberEnds(v, d) PROVE CommandTypes'
  BY SMTT(30), <1>15 DEF MemberEnds
<1>. QED  BY <1>1, <1>2, <1>3, <1>4, <1>5, <1>6, <1>7, <1>8, <1>9, <1>10, <1>11, <1>12, <1>13,
      <1>14, <1>15 DEF Next

\* Every step keeps a client's world.
LEMMA AimStep ==
  ASSUME IInv, [Next]_vars, NEW c \in Client
  PROVE  AimOK(c)'
<1>. USE WorldAssumption, CommandAssumption DEF vars, worldVars, files, processes, history,
      probing, mine, worlds, IInv, TypeOK, ProbeTypes, ClientOK, FileTypes, CommandTypes,
      AimOK, CommandOK, OwnOK, Endings, ReadSummary, Points, Probing, Stale, Returns, Aimed,
      Aimless, Fresh, List, Prune, Go, Probe, Return, Fail
<1>1. CASE UNCHANGED vars  BY SMTT(30), <1>1
<1>2. ASSUME NEW d \in Client, CommandStep(d) PROVE AimOK(c)'
  <2>1. CASE GiveListing(d)  BY <2>1 DEF GiveListing
  <2>2. CASE GiveInstance(d)  BY <2>2 DEF GiveInstance
  <2>3. CASE ListOne(d)  BY <2>3 DEF ListOne
  <2>4. CASE FinaliseOne(d)  BY <2>4 DEF FinaliseOne
  <2>5. CASE Recovered(d)  BY <2>5 DEF Recovered, Exits, MembersReadable
  <2>6. CASE PreparationFails(d)  BY <2>6 DEF PreparationFails
  <2>7. CASE SpawnHost(d)  BY <2>7 DEF SpawnHost
  <2>8. CASE AwaitReady(d)  BY <2>8 DEF AwaitReady
  <2>9. CASE PublishLog(d)  BY <2>9 DEF PublishLog
  <2>10. CASE Identify(d)  BY <2>10 DEF Identify
  <2>11. CASE Verify(d)  BY <2>11 DEF Verify
  <2>12. CASE Connect(d)  BY <2>12 DEF Connect
  <2>13. CASE LaunchRobot(d)  BY <2>13 DEF LaunchRobot
  <2>14. CASE Attach(d)  BY <2>14 DEF Attach
  <2>15. CASE AwaitActive(d)  BY <2>15 DEF AwaitActive
  <2>16. CASE Drive(d)  BY <2>16 DEF Drive
  <2>17. CASE Ending(d)  BY <2>17 DEF Ending, Exits
  <2>18. CASE Looked(d)  BY <2>18 DEF Looked
  <2>19. CASE Settle(d)  BY <2>19 DEF Settle, Exits
  <2>20. CASE StopWorld(d)  BY <2>20 DEF StopWorld
  <2>21. CASE Poll(d)  BY <2>21 DEF Poll
  <2>22. CASE Polled(d)  BY <2>22 DEF Polled, Exits
  <2>23. CASE Show(d)  BY <2>23 DEF Show
  <2>24. CASE Control(d)  BY <2>24 DEF Control
  <2>25. CASE RollBack(d)  BY <2>25 DEF RollBack
  <2>26. CASE Terminate(d)  BY <2>26 DEF Terminate
  <2>27. CASE AwaitHost(d)  BY <2>27 DEF AwaitHost, OwnHostAlive
  <2>28. CASE KillHost(d)  BY <2>28 DEF KillHost
  <2>29. CASE ClientKilled(d)  BY <2>29 DEF ClientKilled
  <2>. QED  BY <1>2, <2>1, <2>2, <2>3, <2>4, <2>5, <2>6, <2>7, <2>8, <2>9, <2>10, <2>11, <2>12,
        <2>13, <2>14, <2>15, <2>16, <2>17, <2>18, <2>19, <2>20, <2>21, <2>22, <2>23, <2>24,
        <2>25, <2>26, <2>27, <2>28, <2>29 DEF CommandStep
<1>3. ASSUME NEW d \in Client, RegistryStep(d), UNCHANGED <<mine, worlds>> PROVE AimOK(c)'
  <2>1. CASE OpenRegistration(d)  BY <1>3, <2>1 DEF OpenRegistration
  <2>2. CASE TryLease(d)  BY <1>3, <2>2 DEF TryLease
  <2>3. CASE Judge(d)  BY <1>3, <2>3 DEF Judge
  <2>4. CASE Recover(d)  BY <1>3, <2>4 DEF Recover
  <2>5. CASE Grace(d)  BY <1>3, <2>5 DEF Grace
  <2>6. CASE Validate(d)  BY <1>3, <2>6 DEF Validate, LeaderObserved
  <2>7. CASE Signal(d)  BY <1>3, <2>7 DEF Signal
  <2>8. CASE Await(d)  BY <1>3, <2>8 DEF Await
  <2>9. CASE Reread(d)  BY <1>3, <2>9 DEF Reread
  <2>10. CASE PublishRecovered(d)  BY <1>3, <2>10 DEF PublishRecovered, IndexReadable
  <2>11. CASE Unregister(d)  BY <1>3, <2>11 DEF Unregister
  <2>12. CASE Unlease(d)  BY <1>3, <2>12 DEF Unlease
  <2>13. CASE PruneOne(d)  BY <1>3, <2>13 DEF PruneOne
  <2>. QED  BY <1>3, <2>1, <2>2, <2>3, <2>4, <2>5, <2>6, <2>7, <2>8, <2>9, <2>10, <2>11, <2>12,
        <2>13 DEF RegistryStep
<1>4. ASSUME NEW d \in Client, RobotEnds(d) PROVE AimOK(c)'
  BY <1>4 DEF RobotEnds
<1>5. ASSUME NEW v \in World, HostPersists(v), UNCHANGED <<mine, worlds>> PROVE AimOK(c)'
  BY <1>5 DEF HostPersists
<1>6. ASSUME NEW v \in World, HostRegisters(v), UNCHANGED <<mine, worlds>> PROVE AimOK(c)'
  BY <1>6 DEF HostRegisters
<1>7. ASSUME NEW v \in World, HostUnregisters(v), UNCHANGED <<mine, worlds>> PROVE AimOK(c)'
  BY <1>7 DEF HostUnregisters
<1>8. ASSUME NEW v \in World, HostLost(v), UNCHANGED <<mine, worlds>> PROVE AimOK(c)'
  BY <1>8 DEF HostLost
<1>9. ASSUME NEW v \in World, HostReaped(v), UNCHANGED <<mine, worlds>> PROVE AimOK(c)'
  BY <1>9 DEF HostReaped
<1>10. ASSUME NEW v \in World, LateSummary(v), UNCHANGED <<mine, worlds>> PROVE AimOK(c)'
  BY <1>10 DEF LateSummary
<1>11. ASSUME NEW v \in World, NativeChanges(v), UNCHANGED <<mine, worlds>> PROVE AimOK(c)'
  BY <1>11 DEF NativeChanges
<1>12. ASSUME NEW v \in World, HostSettles(v) PROVE AimOK(c)'
  BY <1>12 DEF HostSettles, HostSummarises
<1>13. ASSUME NEW v \in World, HostAnnounces(v) PROVE AimOK(c)'
  BY <1>13 DEF HostAnnounces
<1>14. ASSUME NEW v \in World, HostFails(v) PROVE AimOK(c)'
  BY <1>14 DEF HostFails
<1>15. ASSUME NEW v \in World, NEW d \in Client, MemberEnds(v, d) PROVE AimOK(c)'
  BY <1>15 DEF MemberEnds
<1>. QED  BY <1>1, <1>2, <1>3, <1>4, <1>5, <1>6, <1>7, <1>8, <1>9, <1>10, <1>11, <1>12, <1>13,
      <1>14, <1>15 DEF Next

\* Every step keeps the place and the command together.
LEMMA CommandOKStep ==
  ASSUME IInv, [Next]_vars, NEW c \in Client
  PROVE  CommandOK(c)'
<1>. USE WorldAssumption, CommandAssumption DEF vars, worldVars, files, processes, history,
      probing, mine, worlds, IInv, TypeOK, ProbeTypes, ClientOK, CommandTypes, AimOK,
      CommandOK, Points, Probing, Stale, Returns, Aimed, Aimless, Fresh, List, Prune, Go,
      Probe, Return, Fail
<1>1. CASE UNCHANGED vars  BY SMTT(30), <1>1
<1>2. ASSUME NEW d \in Client, CommandStep(d) PROVE CommandOK(c)'
  <2>1. CASE GiveListing(d)  BY <2>1 DEF GiveListing
  <2>2. CASE GiveInstance(d)  BY <2>2 DEF GiveInstance
  <2>3. CASE ListOne(d)  BY <2>3 DEF ListOne
  <2>4. CASE FinaliseOne(d)  BY <2>4 DEF FinaliseOne
  <2>5. CASE Recovered(d)  BY <2>5 DEF Recovered, Exits, MembersReadable
  <2>6. CASE PreparationFails(d)  BY <2>6 DEF PreparationFails
  <2>7. CASE SpawnHost(d)  BY <2>7 DEF SpawnHost
  <2>8. CASE AwaitReady(d)  BY <2>8 DEF AwaitReady
  <2>9. CASE PublishLog(d)  BY <2>9 DEF PublishLog
  <2>10. CASE Identify(d)  BY <2>10 DEF Identify
  <2>11. CASE Verify(d)  BY <2>11 DEF Verify
  <2>12. CASE Connect(d)  BY <2>12 DEF Connect
  <2>13. CASE LaunchRobot(d)  BY <2>13 DEF LaunchRobot
  <2>14. CASE Attach(d)  BY <2>14 DEF Attach
  <2>15. CASE AwaitActive(d)  BY <2>15 DEF AwaitActive
  <2>16. CASE Drive(d)  BY <2>16 DEF Drive
  <2>17. CASE Ending(d)  BY <2>17 DEF Ending, Exits
  <2>18. CASE Looked(d)  BY <2>18 DEF Looked
  <2>19. CASE Settle(d)  BY <2>19 DEF Settle, Exits
  <2>20. CASE StopWorld(d)  BY <2>20 DEF StopWorld
  <2>21. CASE Poll(d)  BY <2>21 DEF Poll
  <2>22. CASE Polled(d)  BY <2>22 DEF Polled, Exits
  <2>23. CASE Show(d)  BY <2>23 DEF Show
  <2>24. CASE Control(d)  BY <2>24 DEF Control
  <2>25. CASE RollBack(d)  BY <2>25 DEF RollBack
  <2>26. CASE Terminate(d)  BY <2>26 DEF Terminate
  <2>27. CASE AwaitHost(d)  BY <2>27 DEF AwaitHost, OwnHostAlive
  <2>28. CASE KillHost(d)  BY <2>28 DEF KillHost
  <2>29. CASE ClientKilled(d)  BY <2>29 DEF ClientKilled
  <2>. QED  BY <1>2, <2>1, <2>2, <2>3, <2>4, <2>5, <2>6, <2>7, <2>8, <2>9, <2>10, <2>11, <2>12,
        <2>13, <2>14, <2>15, <2>16, <2>17, <2>18, <2>19, <2>20, <2>21, <2>22, <2>23, <2>24,
        <2>25, <2>26, <2>27, <2>28, <2>29 DEF CommandStep
<1>3. ASSUME NEW d \in Client, RegistryStep(d), UNCHANGED <<mine, worlds>> PROVE CommandOK(c)'
  <2>1. CASE OpenRegistration(d)  BY <1>3, <2>1 DEF OpenRegistration
  <2>2. CASE TryLease(d)  BY <1>3, <2>2 DEF TryLease
  <2>3. CASE Judge(d)  BY <1>3, <2>3 DEF Judge
  <2>4. CASE Recover(d)  BY <1>3, <2>4 DEF Recover
  <2>5. CASE Grace(d)  BY <1>3, <2>5 DEF Grace
  <2>6. CASE Validate(d)  BY <1>3, <2>6 DEF Validate, LeaderObserved
  <2>7. CASE Signal(d)  BY <1>3, <2>7 DEF Signal
  <2>8. CASE Await(d)  BY <1>3, <2>8 DEF Await
  <2>9. CASE Reread(d)  BY <1>3, <2>9 DEF Reread
  <2>10. CASE PublishRecovered(d)  BY <1>3, <2>10 DEF PublishRecovered, IndexReadable
  <2>11. CASE Unregister(d)  BY <1>3, <2>11 DEF Unregister
  <2>12. CASE Unlease(d)  BY <1>3, <2>12 DEF Unlease
  <2>13. CASE PruneOne(d)  BY <1>3, <2>13 DEF PruneOne
  <2>. QED  BY <1>3, <2>1, <2>2, <2>3, <2>4, <2>5, <2>6, <2>7, <2>8, <2>9, <2>10, <2>11, <2>12,
        <2>13 DEF RegistryStep
<1>4. ASSUME NEW d \in Client, RobotEnds(d) PROVE CommandOK(c)'
  BY <1>4 DEF RobotEnds
<1>5. ASSUME NEW v \in World, HostPersists(v), UNCHANGED <<mine, worlds>> PROVE CommandOK(c)'
  BY <1>5 DEF HostPersists
<1>6. ASSUME NEW v \in World, HostRegisters(v), UNCHANGED <<mine, worlds>> PROVE CommandOK(c)'
  BY <1>6 DEF HostRegisters
<1>7. ASSUME NEW v \in World, HostUnregisters(v), UNCHANGED <<mine, worlds>> PROVE CommandOK(c)'
  BY <1>7 DEF HostUnregisters
<1>8. ASSUME NEW v \in World, HostLost(v), UNCHANGED <<mine, worlds>> PROVE CommandOK(c)'
  BY <1>8 DEF HostLost
<1>9. ASSUME NEW v \in World, HostReaped(v), UNCHANGED <<mine, worlds>> PROVE CommandOK(c)'
  BY <1>9 DEF HostReaped
<1>10. ASSUME NEW v \in World, LateSummary(v), UNCHANGED <<mine, worlds>> PROVE CommandOK(c)'
  BY <1>10 DEF LateSummary
<1>11. ASSUME NEW v \in World, NativeChanges(v), UNCHANGED <<mine, worlds>> PROVE CommandOK(c)'
  BY <1>11 DEF NativeChanges
<1>12. ASSUME NEW v \in World, HostSettles(v) PROVE CommandOK(c)'
  BY <1>12 DEF HostSettles, HostSummarises
<1>13. ASSUME NEW v \in World, HostAnnounces(v) PROVE CommandOK(c)'
  BY <1>13 DEF HostAnnounces
<1>14. ASSUME NEW v \in World, HostFails(v) PROVE CommandOK(c)'
  BY <1>14 DEF HostFails
<1>15. ASSUME NEW v \in World, NEW d \in Client, MemberEnds(v, d) PROVE CommandOK(c)'
  BY <1>15 DEF MemberEnds
<1>. QED  BY <1>1, <1>2, <1>3, <1>4, <1>5, <1>6, <1>7, <1>8, <1>9, <1>10, <1>11, <1>12, <1>13,
      <1>14, <1>15 DEF Next

\* Every step keeps a host with its owner.
LEMMA OwnStep ==
  ASSUME IInv, [Next]_vars, NEW c \in Client
  PROVE  OwnOK(c)'
<1>. USE WorldAssumption, CommandAssumption DEF vars, worldVars, files, processes, history,
      probing, mine, worlds, IInv, TypeOK, ProbeTypes, ClientOK, CommandTypes, HostTypes,
      AimOK, CommandOK, OwnOK, Points, Probing, Stale, Returns, Aimed, Aimless, HostRuns,
      Detached, Fresh, List, Prune, Go, Probe, Return, Fail
<1>1. CASE UNCHANGED vars  BY <1>1
<1>2. ASSUME NEW d \in Client, CommandStep(d) PROVE OwnOK(c)'
  <2>1. CASE GiveListing(d)
    <3>1. Fresh(d) /\ List(d) /\ UNCHANGED <<goal, then>>  BY <2>1 DEF GiveListing
    <3>2. PICK name \in {"start", "run", "list"} : cmd' = [cmd EXCEPT ![d] = name]
      BY <2>1 DEF GiveListing
    <3>3. CASE c = d  BY <3>1, <3>2, <3>3
    <3>4. CASE c # d  BY <3>1, <3>2, <3>4
    <3>. QED  BY <3>3, <3>4
  <2>2. CASE GiveInstance(d)  BY <2>2 DEF GiveInstance
  <2>3. CASE ListOne(d)  BY <2>3 DEF ListOne
  <2>4. CASE FinaliseOne(d)  BY <2>4 DEF FinaliseOne
  <2>5. CASE Recovered(d)  BY <2>5 DEF Recovered, Exits, MembersReadable
  <2>6. CASE PreparationFails(d)  BY <2>6 DEF PreparationFails
  <2>7. CASE SpawnHost(d)  BY <2>7 DEF SpawnHost
  <2>8. CASE AwaitReady(d)  BY <2>8 DEF AwaitReady
  <2>9. CASE PublishLog(d)  BY <2>9 DEF PublishLog
  <2>10. CASE Identify(d)  BY <2>10 DEF Identify
  <2>11. CASE Verify(d)
    <3>1. CASE c = d  BY <2>11, <3>1 DEF Verify
    <3>2. CASE c # d  BY <2>11, <3>2 DEF Verify
    <3>. QED  BY <3>1, <3>2
  <2>12. CASE Connect(d)  BY <2>12 DEF Connect
  <2>13. CASE LaunchRobot(d)  BY <2>13 DEF LaunchRobot
  <2>14. CASE Attach(d)  BY <2>14 DEF Attach
  <2>15. CASE AwaitActive(d)  BY <2>15 DEF AwaitActive
  <2>16. CASE Drive(d)  BY <2>16 DEF Drive
  <2>17. CASE Ending(d)  BY <2>17 DEF Ending, Exits
  <2>18. CASE Looked(d)  BY <2>18 DEF Looked
  <2>19. CASE Settle(d)  BY <2>19 DEF Settle, Exits
  <2>20. CASE StopWorld(d)  BY <2>20 DEF StopWorld
  <2>21. CASE Poll(d)  BY <2>21 DEF Poll
  <2>22. CASE Polled(d)  BY <2>22 DEF Polled, Exits
  <2>23. CASE Show(d)  BY <2>23 DEF Show
  <2>24. CASE Control(d)  BY <2>24 DEF Control
  <2>25. CASE RollBack(d)  BY <2>25 DEF RollBack
  <2>26. CASE Terminate(d)  BY <2>26 DEF Terminate
  <2>27. CASE AwaitHost(d)  BY <2>27 DEF AwaitHost, OwnHostAlive
  <2>28. CASE KillHost(d)  BY <2>28 DEF KillHost
  <2>29. CASE ClientKilled(d)  BY <2>29 DEF ClientKilled
  <2>. QED  BY <1>2, <2>1, <2>2, <2>3, <2>4, <2>5, <2>6, <2>7, <2>8, <2>9, <2>10, <2>11, <2>12,
        <2>13, <2>14, <2>15, <2>16, <2>17, <2>18, <2>19, <2>20, <2>21, <2>22, <2>23, <2>24,
        <2>25, <2>26, <2>27, <2>28, <2>29 DEF CommandStep
<1>3. ASSUME NEW d \in Client, RegistryStep(d), UNCHANGED <<mine, worlds>> PROVE OwnOK(c)'
  <2>1. CASE OpenRegistration(d)  BY <1>3, <2>1 DEF OpenRegistration
  <2>2. CASE TryLease(d)  BY <1>3, <2>2 DEF TryLease
  <2>3. CASE Judge(d)  BY <1>3, <2>3 DEF Judge
  <2>4. CASE Recover(d)  BY <1>3, <2>4 DEF Recover
  <2>5. CASE Grace(d)  BY <1>3, <2>5 DEF Grace
  <2>6. CASE Validate(d)  BY <1>3, <2>6 DEF Validate, LeaderObserved
  <2>7. CASE Signal(d)  BY <1>3, <2>7 DEF Signal
  <2>8. CASE Await(d)  BY <1>3, <2>8 DEF Await
  <2>9. CASE Reread(d)  BY <1>3, <2>9 DEF Reread
  <2>10. CASE PublishRecovered(d)  BY <1>3, <2>10 DEF PublishRecovered, IndexReadable
  <2>11. CASE Unregister(d)  BY <1>3, <2>11 DEF Unregister
  <2>12. CASE Unlease(d)  BY <1>3, <2>12 DEF Unlease
  <2>13. CASE PruneOne(d)  BY <1>3, <2>13 DEF PruneOne
  <2>. QED  BY <1>3, <2>1, <2>2, <2>3, <2>4, <2>5, <2>6, <2>7, <2>8, <2>9, <2>10, <2>11, <2>12,
        <2>13 DEF RegistryStep
<1>4. ASSUME NEW d \in Client, RobotEnds(d) PROVE OwnOK(c)'
  BY <1>4 DEF RobotEnds
<1>5. ASSUME NEW v \in World, HostPersists(v), UNCHANGED <<mine, worlds>> PROVE OwnOK(c)'
  BY <1>5 DEF HostPersists
<1>6. ASSUME NEW v \in World, HostRegisters(v), UNCHANGED <<mine, worlds>> PROVE OwnOK(c)'
  BY <1>6 DEF HostRegisters
<1>7. ASSUME NEW v \in World, HostUnregisters(v), UNCHANGED <<mine, worlds>> PROVE OwnOK(c)'
  BY <1>7 DEF HostUnregisters
<1>8. ASSUME NEW v \in World, HostLost(v), UNCHANGED <<mine, worlds>> PROVE OwnOK(c)'
  BY <1>8 DEF HostLost
<1>9. ASSUME NEW v \in World, HostReaped(v), UNCHANGED <<mine, worlds>> PROVE OwnOK(c)'
  BY <1>9 DEF HostReaped
<1>10. ASSUME NEW v \in World, LateSummary(v), UNCHANGED <<mine, worlds>> PROVE OwnOK(c)'
  BY <1>10 DEF LateSummary
<1>11. ASSUME NEW v \in World, NativeChanges(v), UNCHANGED <<mine, worlds>> PROVE OwnOK(c)'
  BY <1>11 DEF NativeChanges
<1>12. ASSUME NEW v \in World, HostSettles(v) PROVE OwnOK(c)'
  BY <1>12 DEF HostSettles, HostSummarises
<1>13. ASSUME NEW v \in World, HostAnnounces(v) PROVE OwnOK(c)'
  BY <1>13 DEF HostAnnounces
<1>14. ASSUME NEW v \in World, HostFails(v) PROVE OwnOK(c)'
  BY <1>14 DEF HostFails
<1>15. ASSUME NEW v \in World, NEW d \in Client, MemberEnds(v, d) PROVE OwnOK(c)'
  BY <1>15 DEF MemberEnds
<1>. QED  BY <1>1, <1>2, <1>3, <1>4, <1>5, <1>6, <1>7, <1>8, <1>9, <1>10, <1>11, <1>12, <1>13,
      <1>14, <1>15 DEF Next

\* Every step keeps an execution with its command.
LEMMA RobotStep ==
  ASSUME IInv, [Next]_vars, NEW c \in Client
  PROVE  RobotOK(c)'
<1>. USE DEF vars, worldVars, files, processes, history, probing, mine, worlds, IInv, TypeOK,
      ProbeTypes, ClientOK, CommandTypes, AimOK, CommandOK, OwnOK, RobotOK, Points, Probing,
      Stale, Returns, Aimed, Aimless, Fresh, List, Prune, Go, Probe, Return, Fail
<1>1. CASE UNCHANGED vars  BY <1>1
<1>2. ASSUME NEW d \in Client, CommandStep(d) PROVE RobotOK(c)'
  <2>1. CASE GiveListing(d)  BY <2>1 DEF GiveListing
  <2>2. CASE GiveInstance(d)  BY <2>2 DEF GiveInstance
  <2>3. CASE ListOne(d)  BY <2>3 DEF ListOne
  <2>4. CASE FinaliseOne(d)  BY <2>4 DEF FinaliseOne
  <2>5. CASE Recovered(d)  BY <2>5 DEF Recovered, Exits, MembersReadable
  <2>6. CASE PreparationFails(d)  BY <2>6 DEF PreparationFails
  <2>7. CASE SpawnHost(d)  BY <2>7 DEF SpawnHost
  <2>8. CASE AwaitReady(d)  BY <2>8 DEF AwaitReady
  <2>9. CASE PublishLog(d)  BY <2>9 DEF PublishLog
  <2>10. CASE Identify(d)  BY <2>10 DEF Identify
  <2>11. CASE Verify(d)  BY <2>11 DEF Verify
  <2>12. CASE Connect(d)  BY <2>12 DEF Connect
  <2>13. CASE LaunchRobot(d)  BY <2>13 DEF LaunchRobot
  <2>14. CASE Attach(d)  BY <2>14 DEF Attach
  <2>15. CASE AwaitActive(d)  BY <2>15 DEF AwaitActive
  <2>16. CASE Drive(d)  BY <2>16 DEF Drive
  <2>17. CASE Ending(d)  BY <2>17 DEF Ending, Exits
  <2>18. CASE Looked(d)  BY <2>18 DEF Looked
  <2>19. CASE Settle(d)  BY <2>19 DEF Settle, Exits
  <2>20. CASE StopWorld(d)  BY <2>20 DEF StopWorld
  <2>21. CASE Poll(d)  BY <2>21 DEF Poll
  <2>22. CASE Polled(d)  BY <2>22 DEF Polled, Exits
  <2>23. CASE Show(d)  BY <2>23 DEF Show
  <2>24. CASE Control(d)  BY <2>24 DEF Control
  <2>25. CASE RollBack(d)  BY <2>25 DEF RollBack
  <2>26. CASE Terminate(d)  BY <2>26 DEF Terminate
  <2>27. CASE AwaitHost(d)  BY <2>27 DEF AwaitHost, OwnHostAlive
  <2>28. CASE KillHost(d)  BY <2>28 DEF KillHost
  <2>29. CASE ClientKilled(d)  BY <2>29 DEF ClientKilled
  <2>. QED  BY <1>2, <2>1, <2>2, <2>3, <2>4, <2>5, <2>6, <2>7, <2>8, <2>9, <2>10, <2>11, <2>12,
        <2>13, <2>14, <2>15, <2>16, <2>17, <2>18, <2>19, <2>20, <2>21, <2>22, <2>23, <2>24,
        <2>25, <2>26, <2>27, <2>28, <2>29 DEF CommandStep
<1>3. ASSUME NEW d \in Client, RegistryStep(d), UNCHANGED <<mine, worlds>> PROVE RobotOK(c)'
  <2>1. CASE OpenRegistration(d)  BY <1>3, <2>1 DEF OpenRegistration
  <2>2. CASE TryLease(d)  BY <1>3, <2>2 DEF TryLease
  <2>3. CASE Judge(d)  BY <1>3, <2>3 DEF Judge
  <2>4. CASE Recover(d)  BY <1>3, <2>4 DEF Recover
  <2>5. CASE Grace(d)  BY <1>3, <2>5 DEF Grace
  <2>6. CASE Validate(d)  BY <1>3, <2>6 DEF Validate, LeaderObserved
  <2>7. CASE Signal(d)  BY <1>3, <2>7 DEF Signal
  <2>8. CASE Await(d)  BY <1>3, <2>8 DEF Await
  <2>9. CASE Reread(d)  BY <1>3, <2>9 DEF Reread
  <2>10. CASE PublishRecovered(d)  BY <1>3, <2>10 DEF PublishRecovered, IndexReadable
  <2>11. CASE Unregister(d)  BY <1>3, <2>11 DEF Unregister
  <2>12. CASE Unlease(d)  BY <1>3, <2>12 DEF Unlease
  <2>13. CASE PruneOne(d)  BY <1>3, <2>13 DEF PruneOne
  <2>. QED  BY <1>3, <2>1, <2>2, <2>3, <2>4, <2>5, <2>6, <2>7, <2>8, <2>9, <2>10, <2>11, <2>12,
        <2>13 DEF RegistryStep
<1>4. ASSUME NEW d \in Client, RobotEnds(d) PROVE RobotOK(c)'
  BY <1>4 DEF RobotEnds
<1>5. ASSUME NEW v \in World, HostPersists(v), UNCHANGED <<mine, worlds>> PROVE RobotOK(c)'
  BY <1>5 DEF HostPersists
<1>6. ASSUME NEW v \in World, HostRegisters(v), UNCHANGED <<mine, worlds>> PROVE RobotOK(c)'
  BY <1>6 DEF HostRegisters
<1>7. ASSUME NEW v \in World, HostUnregisters(v), UNCHANGED <<mine, worlds>> PROVE RobotOK(c)'
  BY <1>7 DEF HostUnregisters
<1>8. ASSUME NEW v \in World, HostLost(v), UNCHANGED <<mine, worlds>> PROVE RobotOK(c)'
  BY <1>8 DEF HostLost
<1>9. ASSUME NEW v \in World, HostReaped(v), UNCHANGED <<mine, worlds>> PROVE RobotOK(c)'
  BY <1>9 DEF HostReaped
<1>10. ASSUME NEW v \in World, LateSummary(v), UNCHANGED <<mine, worlds>> PROVE RobotOK(c)'
  BY <1>10 DEF LateSummary
<1>11. ASSUME NEW v \in World, NativeChanges(v), UNCHANGED <<mine, worlds>> PROVE RobotOK(c)'
  BY <1>11 DEF NativeChanges
<1>12. ASSUME NEW v \in World, HostSettles(v) PROVE RobotOK(c)'
  BY <1>12 DEF HostSettles, HostSummarises
<1>13. ASSUME NEW v \in World, HostAnnounces(v) PROVE RobotOK(c)'
  BY <1>13 DEF HostAnnounces
<1>14. ASSUME NEW v \in World, HostFails(v) PROVE RobotOK(c)'
  BY <1>14 DEF HostFails
<1>15. ASSUME NEW v \in World, NEW d \in Client, MemberEnds(v, d) PROVE RobotOK(c)'
  BY <1>15 DEF MemberEnds
<1>. QED  BY <1>1, <1>2, <1>3, <1>4, <1>5, <1>6, <1>7, <1>8, <1>9, <1>10, <1>11, <1>12, <1>13,
      <1>14, <1>15 DEF Next

\* Every step keeps a bootstrap log with its launch.
LEMMA LogStep ==
  ASSUME IInv, [Next]_vars, NEW c \in Client
  PROVE  LogOK(c)'
<1>. USE DEF vars, worldVars, files, processes, history, probing, mine, worlds, IInv, TypeOK,
      ProbeTypes, ClientOK, CommandTypes, AimOK, CommandOK, LogOK, Points, Probing, Stale,
      Returns, Aimed, Aimless, Fresh, List, Prune, Go, Probe, Return, Fail
<1>1. CASE UNCHANGED vars  BY <1>1
<1>2. ASSUME NEW d \in Client, CommandStep(d) PROVE LogOK(c)'
  <2>1. CASE GiveListing(d)  BY <2>1 DEF GiveListing
  <2>2. CASE GiveInstance(d)  BY <2>2 DEF GiveInstance
  <2>3. CASE ListOne(d)  BY <2>3 DEF ListOne
  <2>4. CASE FinaliseOne(d)  BY <2>4 DEF FinaliseOne
  <2>5. CASE Recovered(d)  BY <2>5 DEF Recovered, Exits, MembersReadable
  <2>6. CASE PreparationFails(d)  BY <2>6 DEF PreparationFails
  <2>7. CASE SpawnHost(d)  BY <2>7 DEF SpawnHost
  <2>8. CASE AwaitReady(d)  BY <2>8 DEF AwaitReady
  <2>9. CASE PublishLog(d)  BY <2>9 DEF PublishLog
  <2>10. CASE Identify(d)  BY <2>10 DEF Identify
  <2>11. CASE Verify(d)  BY <2>11 DEF Verify
  <2>12. CASE Connect(d)  BY <2>12 DEF Connect
  <2>13. CASE LaunchRobot(d)  BY <2>13 DEF LaunchRobot
  <2>14. CASE Attach(d)  BY <2>14 DEF Attach
  <2>15. CASE AwaitActive(d)  BY <2>15 DEF AwaitActive
  <2>16. CASE Drive(d)  BY <2>16 DEF Drive
  <2>17. CASE Ending(d)  BY <2>17 DEF Ending, Exits
  <2>18. CASE Looked(d)  BY <2>18 DEF Looked
  <2>19. CASE Settle(d)  BY <2>19 DEF Settle, Exits
  <2>20. CASE StopWorld(d)  BY <2>20 DEF StopWorld
  <2>21. CASE Poll(d)  BY <2>21 DEF Poll
  <2>22. CASE Polled(d)  BY <2>22 DEF Polled, Exits
  <2>23. CASE Show(d)  BY <2>23 DEF Show
  <2>24. CASE Control(d)  BY <2>24 DEF Control
  <2>25. CASE RollBack(d)  BY <2>25 DEF RollBack
  <2>26. CASE Terminate(d)  BY <2>26 DEF Terminate
  <2>27. CASE AwaitHost(d)  BY <2>27 DEF AwaitHost, OwnHostAlive
  <2>28. CASE KillHost(d)  BY <2>28 DEF KillHost
  <2>29. CASE ClientKilled(d)  BY <2>29 DEF ClientKilled
  <2>. QED  BY <1>2, <2>1, <2>2, <2>3, <2>4, <2>5, <2>6, <2>7, <2>8, <2>9, <2>10, <2>11, <2>12,
        <2>13, <2>14, <2>15, <2>16, <2>17, <2>18, <2>19, <2>20, <2>21, <2>22, <2>23, <2>24,
        <2>25, <2>26, <2>27, <2>28, <2>29 DEF CommandStep
<1>3. ASSUME NEW d \in Client, RegistryStep(d), UNCHANGED <<mine, worlds>> PROVE LogOK(c)'
  <2>1. CASE OpenRegistration(d)  BY <1>3, <2>1 DEF OpenRegistration
  <2>2. CASE TryLease(d)  BY <1>3, <2>2 DEF TryLease
  <2>3. CASE Judge(d)  BY <1>3, <2>3 DEF Judge
  <2>4. CASE Recover(d)  BY <1>3, <2>4 DEF Recover
  <2>5. CASE Grace(d)  BY <1>3, <2>5 DEF Grace
  <2>6. CASE Validate(d)  BY <1>3, <2>6 DEF Validate, LeaderObserved
  <2>7. CASE Signal(d)  BY <1>3, <2>7 DEF Signal
  <2>8. CASE Await(d)  BY <1>3, <2>8 DEF Await
  <2>9. CASE Reread(d)  BY <1>3, <2>9 DEF Reread
  <2>10. CASE PublishRecovered(d)  BY <1>3, <2>10 DEF PublishRecovered, IndexReadable
  <2>11. CASE Unregister(d)  BY <1>3, <2>11 DEF Unregister
  <2>12. CASE Unlease(d)  BY <1>3, <2>12 DEF Unlease
  <2>13. CASE PruneOne(d)  BY <1>3, <2>13 DEF PruneOne
  <2>. QED  BY <1>3, <2>1, <2>2, <2>3, <2>4, <2>5, <2>6, <2>7, <2>8, <2>9, <2>10, <2>11, <2>12,
        <2>13 DEF RegistryStep
<1>4. ASSUME NEW d \in Client, RobotEnds(d) PROVE LogOK(c)'
  BY <1>4 DEF RobotEnds
<1>5. ASSUME NEW v \in World, HostPersists(v), UNCHANGED <<mine, worlds>> PROVE LogOK(c)'
  BY <1>5 DEF HostPersists
<1>6. ASSUME NEW v \in World, HostRegisters(v), UNCHANGED <<mine, worlds>> PROVE LogOK(c)'
  BY <1>6 DEF HostRegisters
<1>7. ASSUME NEW v \in World, HostUnregisters(v), UNCHANGED <<mine, worlds>> PROVE LogOK(c)'
  BY <1>7 DEF HostUnregisters
<1>8. ASSUME NEW v \in World, HostLost(v), UNCHANGED <<mine, worlds>> PROVE LogOK(c)'
  BY <1>8 DEF HostLost
<1>9. ASSUME NEW v \in World, HostReaped(v), UNCHANGED <<mine, worlds>> PROVE LogOK(c)'
  BY <1>9 DEF HostReaped
<1>10. ASSUME NEW v \in World, LateSummary(v), UNCHANGED <<mine, worlds>> PROVE LogOK(c)'
  BY <1>10 DEF LateSummary
<1>11. ASSUME NEW v \in World, NativeChanges(v), UNCHANGED <<mine, worlds>> PROVE LogOK(c)'
  BY <1>11 DEF NativeChanges
<1>12. ASSUME NEW v \in World, HostSettles(v) PROVE LogOK(c)'
  BY <1>12 DEF HostSettles, HostSummarises
<1>13. ASSUME NEW v \in World, HostAnnounces(v) PROVE LogOK(c)'
  BY <1>13 DEF HostAnnounces
<1>14. ASSUME NEW v \in World, HostFails(v) PROVE LogOK(c)'
  BY <1>14 DEF HostFails
<1>15. ASSUME NEW v \in World, NEW d \in Client, MemberEnds(v, d) PROVE LogOK(c)'
  BY <1>15 DEF MemberEnds
<1>. QED  BY <1>1, <1>2, <1>3, <1>4, <1>5, <1>6, <1>7, <1>8, <1>9, <1>10, <1>11, <1>12, <1>13,
      <1>14, <1>15 DEF Next

\* Every step leaves a validated group alone.
LEMMA SignalStep ==
  ASSUME IInv, [Next]_vars, NEW c \in Client
  PROVE  SignalOK(c)'
<1>. USE DEF vars, worldVars, files, processes, history, probing, mine, worlds, IInv, TypeOK,
      ProbeTypes, ClientOK, HostTypes, AimOK, CommandOK, SignalOK, Points, Probing, Stale,
      Returns, Aimed, Aimless, Fresh, List, Prune, Go, Probe, Return, Fail
<1>1. CASE UNCHANGED vars  BY <1>1
<1>2. ASSUME NEW d \in Client, CommandStep(d) PROVE SignalOK(c)'
  <2>1. CASE GiveListing(d)  BY <2>1 DEF GiveListing
  <2>2. CASE GiveInstance(d)  BY <2>2 DEF GiveInstance
  <2>3. CASE ListOne(d)  BY <2>3 DEF ListOne
  <2>4. CASE FinaliseOne(d)  BY <2>4 DEF FinaliseOne
  <2>5. CASE Recovered(d)  BY <2>5 DEF Recovered, Exits, MembersReadable
  <2>6. CASE PreparationFails(d)  BY <2>6 DEF PreparationFails
  <2>7. CASE SpawnHost(d)  BY <2>7 DEF SpawnHost
  <2>8. CASE AwaitReady(d)  BY <2>8 DEF AwaitReady
  <2>9. CASE PublishLog(d)  BY <2>9 DEF PublishLog
  <2>10. CASE Identify(d)  BY <2>10 DEF Identify
  <2>11. CASE Verify(d)  BY <2>11 DEF Verify
  <2>12. CASE Connect(d)  BY <2>12 DEF Connect
  <2>13. CASE LaunchRobot(d)  BY <2>13 DEF LaunchRobot
  <2>14. CASE Attach(d)  BY <2>14 DEF Attach
  <2>15. CASE AwaitActive(d)  BY <2>15 DEF AwaitActive
  <2>16. CASE Drive(d)  BY <2>16 DEF Drive
  <2>17. CASE Ending(d)  BY <2>17 DEF Ending, Exits
  <2>18. CASE Looked(d)  BY <2>18 DEF Looked
  <2>19. CASE Settle(d)  BY <2>19 DEF Settle, Exits
  <2>20. CASE StopWorld(d)  BY <2>20 DEF StopWorld
  <2>21. CASE Poll(d)  BY <2>21 DEF Poll
  <2>22. CASE Polled(d)  BY <2>22 DEF Polled, Exits
  <2>23. CASE Show(d)  BY <2>23 DEF Show
  <2>24. CASE Control(d)  BY <2>24 DEF Control
  <2>25. CASE RollBack(d)  BY <2>25 DEF RollBack
  <2>26. CASE Terminate(d)  BY <2>26 DEF Terminate
  <2>27. CASE AwaitHost(d)  BY <2>27 DEF AwaitHost, OwnHostAlive
  <2>28. CASE KillHost(d)  BY <2>28 DEF KillHost
  <2>29. CASE ClientKilled(d)  BY <2>29 DEF ClientKilled
  <2>. QED  BY <1>2, <2>1, <2>2, <2>3, <2>4, <2>5, <2>6, <2>7, <2>8, <2>9, <2>10, <2>11, <2>12,
        <2>13, <2>14, <2>15, <2>16, <2>17, <2>18, <2>19, <2>20, <2>21, <2>22, <2>23, <2>24,
        <2>25, <2>26, <2>27, <2>28, <2>29 DEF CommandStep
<1>3. ASSUME NEW d \in Client, RegistryStep(d), UNCHANGED <<mine, worlds>> PROVE SignalOK(c)'
  <2>1. CASE OpenRegistration(d)  BY <1>3, <2>1 DEF OpenRegistration
  <2>2. CASE TryLease(d)  BY <1>3, <2>2 DEF TryLease
  <2>3. CASE Judge(d)  BY <1>3, <2>3 DEF Judge
  <2>4. CASE Recover(d)  BY <1>3, <2>4 DEF Recover
  <2>5. CASE Grace(d)  BY <1>3, <2>5 DEF Grace
  <2>6. CASE Validate(d)  BY <1>3, <2>6 DEF Validate, LeaderObserved
  <2>7. CASE Signal(d)  BY <1>3, <2>7 DEF Signal
  <2>8. CASE Await(d)  BY <1>3, <2>8 DEF Await
  <2>9. CASE Reread(d)  BY <1>3, <2>9 DEF Reread
  <2>10. CASE PublishRecovered(d)  BY <1>3, <2>10 DEF PublishRecovered, IndexReadable
  <2>11. CASE Unregister(d)  BY <1>3, <2>11 DEF Unregister
  <2>12. CASE Unlease(d)  BY <1>3, <2>12 DEF Unlease
  <2>13. CASE PruneOne(d)  BY <1>3, <2>13 DEF PruneOne
  <2>. QED  BY <1>3, <2>1, <2>2, <2>3, <2>4, <2>5, <2>6, <2>7, <2>8, <2>9, <2>10, <2>11, <2>12,
        <2>13 DEF RegistryStep
<1>4. ASSUME NEW d \in Client, RobotEnds(d) PROVE SignalOK(c)'
  BY <1>4 DEF RobotEnds
<1>5. ASSUME NEW v \in World, HostPersists(v), UNCHANGED <<mine, worlds>> PROVE SignalOK(c)'
  BY <1>5 DEF HostPersists
<1>6. ASSUME NEW v \in World, HostRegisters(v), UNCHANGED <<mine, worlds>> PROVE SignalOK(c)'
  BY <1>6 DEF HostRegisters
<1>7. ASSUME NEW v \in World, HostUnregisters(v), UNCHANGED <<mine, worlds>> PROVE SignalOK(c)'
  BY <1>7 DEF HostUnregisters
<1>8. ASSUME NEW v \in World, HostLost(v), UNCHANGED <<mine, worlds>> PROVE SignalOK(c)'
  BY <1>8 DEF HostLost
<1>9. ASSUME NEW v \in World, HostReaped(v), UNCHANGED <<mine, worlds>> PROVE SignalOK(c)'
  BY <1>9 DEF HostReaped
<1>10. ASSUME NEW v \in World, LateSummary(v), UNCHANGED <<mine, worlds>> PROVE SignalOK(c)'
  BY <1>10 DEF LateSummary
<1>11. ASSUME NEW v \in World, NativeChanges(v), UNCHANGED <<mine, worlds>> PROVE SignalOK(c)'
  BY <1>11 DEF NativeChanges
<1>12. ASSUME NEW v \in World, HostSettles(v) PROVE SignalOK(c)'
  BY <1>12 DEF HostSettles, HostSummarises
<1>13. ASSUME NEW v \in World, HostAnnounces(v) PROVE SignalOK(c)'
  BY <1>13 DEF HostAnnounces
<1>14. ASSUME NEW v \in World, HostFails(v) PROVE SignalOK(c)'
  BY <1>14 DEF HostFails
<1>15. ASSUME NEW v \in World, NEW d \in Client, MemberEnds(v, d) PROVE SignalOK(c)'
  BY <1>15 DEF MemberEnds
<1>. QED  BY <1>1, <1>2, <1>3, <1>4, <1>5, <1>6, <1>7, <1>8, <1>9, <1>10, <1>11, <1>12, <1>13,
      <1>14, <1>15 DEF Next

\* Every step keeps a stale world stale.
LEMMA StaleStep ==
  ASSUME IInv, [Next]_vars, NEW c \in Client
  PROVE  StaleOK(c)'
<1>. USE WorldAssumption, CommandAssumption DEF vars, worldVars, files, processes, history,
      probing, mine, worlds, IInv, TypeOK, ProbeTypes, ClientOK, FileTypes, HostTypes, AimOK,
      StaleOK, FilesOK, Points, Probing, Stale, Returns, Aimed, Aimless, HostAlive, HostRuns,
      Summarise, ReadSummary, Fresh, List, Prune, Go, Probe, Return, Fail
<1>1. CASE UNCHANGED vars  BY <1>1
<1>2. ASSUME NEW d \in Client, CommandStep(d) PROVE StaleOK(c)'
  <2>1. CASE GiveListing(d)  BY <2>1 DEF GiveListing
  <2>2. CASE GiveInstance(d)  BY <2>2 DEF GiveInstance
  <2>3. CASE ListOne(d)  BY <2>3 DEF ListOne
  <2>4. CASE FinaliseOne(d)  BY <2>4 DEF FinaliseOne
  <2>5. CASE Recovered(d)  BY <2>5 DEF Recovered, Exits, MembersReadable
  <2>6. CASE PreparationFails(d)  BY <2>6 DEF PreparationFails
  <2>7. CASE SpawnHost(d)  BY <2>7 DEF SpawnHost
  <2>8. CASE AwaitReady(d)  BY <2>8 DEF AwaitReady
  <2>9. CASE PublishLog(d)  BY <2>9 DEF PublishLog
  <2>10. CASE Identify(d)  BY <2>10 DEF Identify
  <2>11. CASE Verify(d)  BY <2>11 DEF Verify
  <2>12. CASE Connect(d)  BY <2>12 DEF Connect
  <2>13. CASE LaunchRobot(d)  BY <2>13 DEF LaunchRobot
  <2>14. CASE Attach(d)  BY <2>14 DEF Attach
  <2>15. CASE AwaitActive(d)  BY <2>15 DEF AwaitActive
  <2>16. CASE Drive(d)  BY <2>16 DEF Drive
  <2>17. CASE Ending(d)  BY <2>17 DEF Ending, Exits
  <2>18. CASE Looked(d)  BY <2>18 DEF Looked
  <2>19. CASE Settle(d)  BY <2>19 DEF Settle, Exits
  <2>20. CASE StopWorld(d)  BY <2>20 DEF StopWorld
  <2>21. CASE Poll(d)  BY <2>21 DEF Poll
  <2>22. CASE Polled(d)  BY <2>22 DEF Polled, Exits
  <2>23. CASE Show(d)  BY <2>23 DEF Show
  <2>24. CASE Control(d)  BY <2>24 DEF Control
  <2>25. CASE RollBack(d)  BY <2>25 DEF RollBack
  <2>26. CASE Terminate(d)  BY <2>26 DEF Terminate
  <2>27. CASE AwaitHost(d)  BY <2>27 DEF AwaitHost, OwnHostAlive
  <2>28. CASE KillHost(d)  BY <2>28 DEF KillHost
  <2>29. CASE ClientKilled(d)  BY <2>29 DEF ClientKilled
  <2>. QED  BY <1>2, <2>1, <2>2, <2>3, <2>4, <2>5, <2>6, <2>7, <2>8, <2>9, <2>10, <2>11, <2>12,
        <2>13, <2>14, <2>15, <2>16, <2>17, <2>18, <2>19, <2>20, <2>21, <2>22, <2>23, <2>24,
        <2>25, <2>26, <2>27, <2>28, <2>29 DEF CommandStep
<1>3. ASSUME NEW d \in Client, RegistryStep(d), UNCHANGED <<mine, worlds>> PROVE StaleOK(c)'
  <2>1. CASE OpenRegistration(d)  BY <1>3, <2>1 DEF OpenRegistration
  <2>2. CASE TryLease(d)  BY <1>3, <2>2 DEF TryLease
  <2>3. CASE Judge(d)  BY <1>3, <2>3 DEF Judge
  <2>4. CASE Recover(d)  BY <1>3, <2>4 DEF Recover
  <2>5. CASE Grace(d)  BY <1>3, <2>5 DEF Grace
  <2>6. CASE Validate(d)  BY <1>3, <2>6 DEF Validate, LeaderObserved
  <2>7. CASE Signal(d)  BY <1>3, <2>7 DEF Signal
  <2>8. CASE Await(d)  BY <1>3, <2>8 DEF Await
  <2>9. CASE Reread(d)  BY <1>3, <2>9 DEF Reread
  <2>10. CASE PublishRecovered(d)  BY <1>3, <2>10 DEF PublishRecovered, IndexReadable
  <2>11. CASE Unregister(d)  BY <1>3, <2>11 DEF Unregister
  <2>12. CASE Unlease(d)  BY <1>3, <2>12 DEF Unlease
  <2>13. CASE PruneOne(d)  BY <1>3, <2>13 DEF PruneOne
  <2>. QED  BY <1>3, <2>1, <2>2, <2>3, <2>4, <2>5, <2>6, <2>7, <2>8, <2>9, <2>10, <2>11, <2>12,
        <2>13 DEF RegistryStep
<1>4. ASSUME NEW d \in Client, RobotEnds(d) PROVE StaleOK(c)'
  BY <1>4 DEF RobotEnds
<1>5. ASSUME NEW v \in World, HostPersists(v), UNCHANGED <<mine, worlds>> PROVE StaleOK(c)'
  BY <1>5 DEF HostPersists
<1>6. ASSUME NEW v \in World, HostRegisters(v), UNCHANGED <<mine, worlds>> PROVE StaleOK(c)'
  BY <1>6 DEF HostRegisters
<1>7. ASSUME NEW v \in World, HostUnregisters(v), UNCHANGED <<mine, worlds>> PROVE StaleOK(c)'
  BY <1>7 DEF HostUnregisters
<1>8. ASSUME NEW v \in World, HostLost(v), UNCHANGED <<mine, worlds>> PROVE StaleOK(c)'
  BY <1>8 DEF HostLost
<1>9. ASSUME NEW v \in World, HostReaped(v), UNCHANGED <<mine, worlds>> PROVE StaleOK(c)'
  BY <1>9 DEF HostReaped
<1>10. ASSUME NEW v \in World, LateSummary(v), UNCHANGED <<mine, worlds>> PROVE StaleOK(c)'
  BY <1>10 DEF LateSummary
<1>11. ASSUME NEW v \in World, NativeChanges(v), UNCHANGED <<mine, worlds>> PROVE StaleOK(c)'
  BY <1>11 DEF NativeChanges
<1>12. ASSUME NEW v \in World, HostSettles(v) PROVE StaleOK(c)'
  BY <1>12 DEF HostSettles, HostSummarises
<1>13. ASSUME NEW v \in World, HostAnnounces(v) PROVE StaleOK(c)'
  BY <1>13 DEF HostAnnounces
<1>14. ASSUME NEW v \in World, HostFails(v) PROVE StaleOK(c)'
  BY <1>14 DEF HostFails
<1>15. ASSUME NEW v \in World, NEW d \in Client, MemberEnds(v, d) PROVE StaleOK(c)'
  BY <1>15 DEF MemberEnds
<1>. QED  BY <1>1, <1>2, <1>3, <1>4, <1>5, <1>6, <1>7, <1>8, <1>9, <1>10, <1>11, <1>12, <1>13,
      <1>14, <1>15 DEF Next

\* Every step keeps a member past its joining.
LEMMA PastJoiningStep ==
  ASSUME IInv, [Next]_vars, NEW c \in Client
  PROVE  PastJoining(c)'
<1>. USE WorldAssumption, CommandAssumption DEF vars, worldVars, files, processes, history,
      probing, mine, worlds, IInv, TypeOK, ProbeTypes, ClientOK, CommandTypes, MemberTypes,
      AimOK, CommandOK, PastJoining, Joined, Points, Probing, Stale, Returns, Aimed, Aimless,
      MemberTerminal, Fresh, List, Prune, Go, Probe, Return, Fail
<1>1. CASE UNCHANGED vars  BY <1>1
<1>2. ASSUME NEW d \in Client, CommandStep(d) PROVE PastJoining(c)'
  <2>1. CASE GiveListing(d)  BY <2>1 DEF GiveListing
  <2>2. CASE GiveInstance(d)  BY <2>2 DEF GiveInstance
  <2>3. CASE ListOne(d)  BY SMTT(30), <2>3 DEF ListOne
  <2>4. CASE FinaliseOne(d)  BY <2>4 DEF FinaliseOne
  <2>5. CASE Recovered(d)  BY <2>5 DEF Recovered, Exits, MembersReadable
  <2>6. CASE PreparationFails(d)  BY <2>6 DEF PreparationFails
  <2>7. CASE SpawnHost(d)  BY <2>7 DEF SpawnHost
  <2>8. CASE AwaitReady(d)  BY <2>8 DEF AwaitReady
  <2>9. CASE PublishLog(d)  BY SMTT(30), <2>9 DEF PublishLog
  <2>10. CASE Identify(d)  BY <2>10 DEF Identify
  <2>11. CASE Verify(d)  BY <2>11 DEF Verify
  <2>12. CASE Connect(d)  BY <2>12 DEF Connect
  <2>13. CASE LaunchRobot(d)  BY SMTT(30), <2>13 DEF LaunchRobot
  <2>14. CASE Attach(d)  BY <2>14 DEF Attach
  <2>15. CASE AwaitActive(d)  BY <2>15 DEF AwaitActive
  <2>16. CASE Drive(d)  BY <2>16 DEF Drive
  <2>17. CASE Ending(d)  BY <2>17 DEF Ending, Exits
  <2>18. CASE Looked(d)  BY <2>18 DEF Looked
  <2>19. CASE Settle(d)  BY <2>19 DEF Settle, Exits
  <2>20. CASE StopWorld(d)  BY <2>20 DEF StopWorld
  <2>21. CASE Poll(d)  BY <2>21 DEF Poll
  <2>22. CASE Polled(d)  BY <2>22 DEF Polled, Exits
  <2>23. CASE Show(d)  BY <2>23 DEF Show
  <2>24. CASE Control(d)  BY <2>24 DEF Control
  <2>25. CASE RollBack(d)  BY <2>25 DEF RollBack
  <2>26. CASE Terminate(d)  BY <2>26 DEF Terminate
  <2>27. CASE AwaitHost(d)  BY <2>27 DEF AwaitHost, OwnHostAlive
  <2>28. CASE KillHost(d)  BY <2>28 DEF KillHost
  <2>29. CASE ClientKilled(d)  BY <2>29 DEF ClientKilled
  <2>. QED  BY <1>2, <2>1, <2>2, <2>3, <2>4, <2>5, <2>6, <2>7, <2>8, <2>9, <2>10, <2>11, <2>12,
        <2>13, <2>14, <2>15, <2>16, <2>17, <2>18, <2>19, <2>20, <2>21, <2>22, <2>23, <2>24,
        <2>25, <2>26, <2>27, <2>28, <2>29 DEF CommandStep
<1>3. ASSUME NEW d \in Client, RegistryStep(d), UNCHANGED <<mine, worlds>> PROVE PastJoining(c)'
  <2>1. CASE OpenRegistration(d)  BY <1>3, <2>1 DEF OpenRegistration
  <2>2. CASE TryLease(d)  BY <1>3, <2>2 DEF TryLease
  <2>3. CASE Judge(d)  BY <1>3, <2>3 DEF Judge
  <2>4. CASE Recover(d)  BY <1>3, <2>4 DEF Recover
  <2>5. CASE Grace(d)  BY <1>3, <2>5 DEF Grace
  <2>6. CASE Validate(d)  BY <1>3, <2>6 DEF Validate, LeaderObserved
  <2>7. CASE Signal(d)  BY <1>3, <2>7 DEF Signal
  <2>8. CASE Await(d)  BY <1>3, <2>8 DEF Await
  <2>9. CASE Reread(d)  BY <1>3, <2>9 DEF Reread
  <2>10. CASE PublishRecovered(d)  BY <1>3, <2>10 DEF PublishRecovered, IndexReadable
  <2>11. CASE Unregister(d)  BY <1>3, <2>11 DEF Unregister
  <2>12. CASE Unlease(d)  BY <1>3, <2>12 DEF Unlease
  <2>13. CASE PruneOne(d)  BY <1>3, <2>13 DEF PruneOne
  <2>. QED  BY <1>3, <2>1, <2>2, <2>3, <2>4, <2>5, <2>6, <2>7, <2>8, <2>9, <2>10, <2>11, <2>12,
        <2>13 DEF RegistryStep
<1>4. ASSUME NEW d \in Client, RobotEnds(d) PROVE PastJoining(c)'
  BY <1>4 DEF RobotEnds
<1>5. ASSUME NEW v \in World, HostPersists(v), UNCHANGED <<mine, worlds>> PROVE PastJoining(c)'
  BY <1>5 DEF HostPersists
<1>6. ASSUME NEW v \in World, HostRegisters(v), UNCHANGED <<mine, worlds>> PROVE PastJoining(c)'
  BY <1>6 DEF HostRegisters
<1>7. ASSUME NEW v \in World, HostUnregisters(v), UNCHANGED <<mine, worlds>>
      PROVE  PastJoining(c)'
  BY <1>7 DEF HostUnregisters
<1>8. ASSUME NEW v \in World, HostLost(v), UNCHANGED <<mine, worlds>> PROVE PastJoining(c)'
  BY <1>8 DEF HostLost
<1>9. ASSUME NEW v \in World, HostReaped(v), UNCHANGED <<mine, worlds>> PROVE PastJoining(c)'
  BY <1>9 DEF HostReaped
<1>10. ASSUME NEW v \in World, LateSummary(v), UNCHANGED <<mine, worlds>> PROVE PastJoining(c)'
  BY <1>10 DEF LateSummary
<1>11. ASSUME NEW v \in World, NativeChanges(v), UNCHANGED <<mine, worlds>>
       PROVE  PastJoining(c)'
  BY <1>11 DEF NativeChanges
<1>12. ASSUME NEW v \in World, HostSettles(v) PROVE PastJoining(c)'
  BY <1>12 DEF HostSettles, HostSummarises
<1>13. ASSUME NEW v \in World, HostAnnounces(v) PROVE PastJoining(c)'
  BY <1>13 DEF HostAnnounces
<1>14. ASSUME NEW v \in World, HostFails(v) PROVE PastJoining(c)'
  BY <1>14 DEF HostFails
<1>15. ASSUME NEW v \in World, NEW d \in Client, MemberEnds(v, d) PROVE PastJoining(c)'
  BY <1>15 DEF MemberEnds
<1>. QED  BY <1>1, <1>2, <1>3, <1>4, <1>5, <1>6, <1>7, <1>8, <1>9, <1>10, <1>11, <1>12, <1>13,
      <1>14, <1>15 DEF Next

\* Every step keeps a member with its world.
LEMMA JoinedStep ==
  ASSUME IInv, [Next]_vars, NEW c \in Client
  PROVE  JoinedOK(c)'
<1>. USE WorldAssumption, CommandAssumption DEF vars, worldVars, files, processes, history,
      probing, mine, worlds, IInv, TypeOK, ProbeTypes, ClientOK, HostTypes, MemberTypes, AimOK,
      CommandOK, PastJoining, JoinedOK, Joined, HostRuns, Points, Probing, Stale, Returns,
      Aimed, Aimless, MemberTerminal, Fresh, List, Prune, Go, Probe, Return, Fail
<1>1. CASE UNCHANGED vars  BY <1>1
<1>2. ASSUME NEW d \in Client, CommandStep(d) PROVE JoinedOK(c)'
  <2>1. CASE GiveListing(d)  BY <2>1 DEF GiveListing
  <2>2. CASE GiveInstance(d)  BY <2>2 DEF GiveInstance
  <2>3. CASE ListOne(d)  BY <2>3 DEF ListOne
  <2>4. CASE FinaliseOne(d)  BY <2>4 DEF FinaliseOne
  <2>5. CASE Recovered(d)  BY <2>5 DEF Recovered, Exits, MembersReadable
  <2>6. CASE PreparationFails(d)  BY <2>6 DEF PreparationFails
  <2>7. CASE SpawnHost(d)  BY <2>7 DEF SpawnHost
  <2>8. CASE AwaitReady(d)  BY <2>8 DEF AwaitReady
  <2>9. CASE PublishLog(d)  BY <2>9 DEF PublishLog
  <2>10. CASE Identify(d)  BY <2>10 DEF Identify
  <2>11. CASE Verify(d)  BY <2>11 DEF Verify
  <2>12. CASE Connect(d)  BY <2>12 DEF Connect
  <2>13. CASE LaunchRobot(d)  BY <2>13 DEF LaunchRobot
  <2>14. CASE Attach(d)  BY SMTT(30), <2>14 DEF Attach
  <2>15. CASE AwaitActive(d)  BY <2>15 DEF AwaitActive
  <2>16. CASE Drive(d)  BY <2>16 DEF Drive
  <2>17. CASE Ending(d)  BY <2>17 DEF Ending, Exits
  <2>18. CASE Looked(d)  BY <2>18 DEF Looked
  <2>19. CASE Settle(d)  BY <2>19 DEF Settle, Exits
  <2>20. CASE StopWorld(d)  BY <2>20 DEF StopWorld
  <2>21. CASE Poll(d)  BY <2>21 DEF Poll
  <2>22. CASE Polled(d)  BY <2>22 DEF Polled, Exits
  <2>23. CASE Show(d)  BY <2>23 DEF Show
  <2>24. CASE Control(d)  BY <2>24 DEF Control
  <2>25. CASE RollBack(d)  BY <2>25 DEF RollBack
  <2>26. CASE Terminate(d)  BY <2>26 DEF Terminate
  <2>27. CASE AwaitHost(d)  BY <2>27 DEF AwaitHost, OwnHostAlive
  <2>28. CASE KillHost(d)  BY <2>28 DEF KillHost
  <2>29. CASE ClientKilled(d)  BY <2>29 DEF ClientKilled
  <2>. QED  BY <1>2, <2>1, <2>2, <2>3, <2>4, <2>5, <2>6, <2>7, <2>8, <2>9, <2>10, <2>11, <2>12,
        <2>13, <2>14, <2>15, <2>16, <2>17, <2>18, <2>19, <2>20, <2>21, <2>22, <2>23, <2>24,
        <2>25, <2>26, <2>27, <2>28, <2>29 DEF CommandStep
<1>3. ASSUME NEW d \in Client, RegistryStep(d), UNCHANGED <<mine, worlds>> PROVE JoinedOK(c)'
  <2>1. CASE OpenRegistration(d)  BY <1>3, <2>1 DEF OpenRegistration
  <2>2. CASE TryLease(d)  BY <1>3, <2>2 DEF TryLease
  <2>3. CASE Judge(d)  BY <1>3, <2>3 DEF Judge
  <2>4. CASE Recover(d)  BY <1>3, <2>4 DEF Recover
  <2>5. CASE Grace(d)  BY <1>3, <2>5 DEF Grace
  <2>6. CASE Validate(d)  BY <1>3, <2>6 DEF Validate, LeaderObserved
  <2>7. CASE Signal(d)  BY <1>3, <2>7 DEF Signal
  <2>8. CASE Await(d)  BY <1>3, <2>8 DEF Await
  <2>9. CASE Reread(d)  BY <1>3, <2>9 DEF Reread
  <2>10. CASE PublishRecovered(d)  BY <1>3, <2>10 DEF PublishRecovered, IndexReadable
  <2>11. CASE Unregister(d)  BY <1>3, <2>11 DEF Unregister
  <2>12. CASE Unlease(d)  BY <1>3, <2>12 DEF Unlease
  <2>13. CASE PruneOne(d)  BY <1>3, <2>13 DEF PruneOne
  <2>. QED  BY <1>3, <2>1, <2>2, <2>3, <2>4, <2>5, <2>6, <2>7, <2>8, <2>9, <2>10, <2>11, <2>12,
        <2>13 DEF RegistryStep
<1>4. ASSUME NEW d \in Client, RobotEnds(d) PROVE JoinedOK(c)'
  BY <1>4 DEF RobotEnds
<1>5. ASSUME NEW v \in World, HostPersists(v), UNCHANGED <<mine, worlds>> PROVE JoinedOK(c)'
  BY <1>5 DEF HostPersists
<1>6. ASSUME NEW v \in World, HostRegisters(v), UNCHANGED <<mine, worlds>> PROVE JoinedOK(c)'
  BY <1>6 DEF HostRegisters
<1>7. ASSUME NEW v \in World, HostUnregisters(v), UNCHANGED <<mine, worlds>> PROVE JoinedOK(c)'
  BY <1>7 DEF HostUnregisters
<1>8. ASSUME NEW v \in World, HostLost(v), UNCHANGED <<mine, worlds>> PROVE JoinedOK(c)'
  BY <1>8 DEF HostLost
<1>9. ASSUME NEW v \in World, HostReaped(v), UNCHANGED <<mine, worlds>> PROVE JoinedOK(c)'
  BY <1>9 DEF HostReaped
<1>10. ASSUME NEW v \in World, LateSummary(v), UNCHANGED <<mine, worlds>> PROVE JoinedOK(c)'
  BY <1>10 DEF LateSummary
<1>11. ASSUME NEW v \in World, NativeChanges(v), UNCHANGED <<mine, worlds>> PROVE JoinedOK(c)'
  BY <1>11 DEF NativeChanges
<1>12. ASSUME NEW v \in World, HostSettles(v) PROVE JoinedOK(c)'
  BY <1>12 DEF HostSettles, HostSummarises
<1>13. ASSUME NEW v \in World, HostAnnounces(v) PROVE JoinedOK(c)'
  BY <1>13 DEF HostAnnounces
<1>14. ASSUME NEW v \in World, HostFails(v) PROVE JoinedOK(c)'
  BY <1>14 DEF HostFails
<1>15. ASSUME NEW v \in World, NEW d \in Client, MemberEnds(v, d) PROVE JoinedOK(c)'
  BY <1>15 DEF MemberEnds
<1>. QED  BY <1>1, <1>2, <1>3, <1>4, <1>5, <1>6, <1>7, <1>8, <1>9, <1>10, <1>11, <1>12, <1>13,
      <1>14, <1>15 DEF Next

\* Every step keeps what is known of a member with its evidence.
LEMMA ReportStep ==
  ASSUME IInv, [Next]_vars, NEW c \in Client
  PROVE  ReportOK(c)'
<1>. USE WorldAssumption, CommandAssumption DEF vars, worldVars, files, processes, history,
      probing, mine, worlds, IInv, TypeOK, ProbeTypes, ClientOK, FileTypes, Endings, HostTypes,
      CommandTypes, MemberTypes, AimOK, CommandOK, PastJoining, JoinedOK, ReportOK, Joined,
      Points, Probing, Stale, Returns, Aimed, Aimless, MemberTerminal, Fresh, List, Prune, Go,
      Probe, Return, Fail
<1>1. CASE UNCHANGED vars  BY <1>1
<1>2. ASSUME NEW d \in Client, CommandStep(d) PROVE ReportOK(c)'
  <2>1. CASE GiveListing(d)  BY <2>1 DEF GiveListing
  <2>2. CASE GiveInstance(d)  BY <2>2 DEF GiveInstance
  <2>3. CASE ListOne(d)  BY SMTT(30), <2>3 DEF ListOne
  <2>4. CASE FinaliseOne(d)  BY <2>4 DEF FinaliseOne
  <2>5. CASE Recovered(d)  BY <2>5 DEF Recovered, Exits, MembersReadable
  <2>6. CASE PreparationFails(d)  BY <2>6 DEF PreparationFails
  <2>7. CASE SpawnHost(d)  BY <2>7 DEF SpawnHost
  <2>8. CASE AwaitReady(d)  BY <2>8 DEF AwaitReady
  <2>9. CASE PublishLog(d)  BY <2>9 DEF PublishLog
  <2>10. CASE Identify(d)  BY <2>10 DEF Identify
  <2>11. CASE Verify(d)  BY <2>11 DEF Verify
  <2>12. CASE Connect(d)  BY <2>12 DEF Connect
  <2>13. CASE LaunchRobot(d)  BY <2>13 DEF LaunchRobot
  <2>14. CASE Attach(d)
    <3>1. CASE c = d
      <4>1. pc'[c] \in {"active", "failing"} /\ report'[c] = report[c] /\ report[c] # "member"
        BY <2>14, <3>1 DEF Attach
      <4>. QED  BY <4>1
    <3>2. CASE c # d
      <4>1. UNCHANGED <<memberEnd, report>> /\ pc'[c] = pc[c]
        BY <2>14, <3>2 DEF Attach
      <4>2. members' \in {members, [members EXCEPT ![goal[d]] = members[goal[d]] \cup {d}]}
        BY <2>14 DEF Attach
      <4>3. \A w \in World : c \in members'[w] => c \in members[w]
        BY <3>2, <4>2
      <4>. QED  BY <4>1, <4>3
    <3>. QED  BY <3>1, <3>2
  <2>15. CASE AwaitActive(d)  BY <2>15 DEF AwaitActive
  <2>16. CASE Drive(d)  BY <2>16 DEF Drive
  <2>17. CASE Ending(d)  BY <2>17 DEF Ending, Exits
  <2>18. CASE Looked(d)  BY <2>18 DEF Looked
  <2>19. CASE Settle(d)  BY SMTT(30), <2>19 DEF Settle, Exits
  <2>20. CASE StopWorld(d)  BY <2>20 DEF StopWorld
  <2>21. CASE Poll(d)  BY <2>21 DEF Poll
  <2>22. CASE Polled(d)  BY <2>22 DEF Polled, Exits
  <2>23. CASE Show(d)  BY <2>23 DEF Show
  <2>24. CASE Control(d)  BY <2>24 DEF Control
  <2>25. CASE RollBack(d)  BY <2>25 DEF RollBack
  <2>26. CASE Terminate(d)  BY <2>26 DEF Terminate
  <2>27. CASE AwaitHost(d)  BY <2>27 DEF AwaitHost, OwnHostAlive
  <2>28. CASE KillHost(d)  BY <2>28 DEF KillHost
  <2>29. CASE ClientKilled(d)  BY <2>29 DEF ClientKilled
  <2>. QED  BY <1>2, <2>1, <2>2, <2>3, <2>4, <2>5, <2>6, <2>7, <2>8, <2>9, <2>10, <2>11, <2>12,
        <2>13, <2>14, <2>15, <2>16, <2>17, <2>18, <2>19, <2>20, <2>21, <2>22, <2>23, <2>24,
        <2>25, <2>26, <2>27, <2>28, <2>29 DEF CommandStep
<1>3. ASSUME NEW d \in Client, RegistryStep(d), UNCHANGED <<mine, worlds>> PROVE ReportOK(c)'
  <2>1. CASE OpenRegistration(d)  BY SMTT(30), <1>3, <2>1 DEF OpenRegistration
  <2>2. CASE TryLease(d)  BY <1>3, <2>2 DEF TryLease
  <2>3. CASE Judge(d)  BY SMTT(30), <1>3, <2>3 DEF Judge
  <2>4. CASE Recover(d)  BY <1>3, <2>4 DEF Recover
  <2>5. CASE Grace(d)  BY <1>3, <2>5 DEF Grace
  <2>6. CASE Validate(d)  BY <1>3, <2>6 DEF Validate, LeaderObserved
  <2>7. CASE Signal(d)  BY <1>3, <2>7 DEF Signal
  <2>8. CASE Await(d)  BY SMTT(30), <1>3, <2>8 DEF Await
  <2>9. CASE Reread(d)  BY SMTT(30), <1>3, <2>9 DEF Reread
  <2>10. CASE PublishRecovered(d)  BY <1>3, <2>10 DEF PublishRecovered, IndexReadable
  <2>11. CASE Unregister(d)  BY SMTT(30), <1>3, <2>11 DEF Unregister
  <2>12. CASE Unlease(d)  BY SMTT(30), <1>3, <2>12 DEF Unlease
  <2>13. CASE PruneOne(d)  BY <1>3, <2>13 DEF PruneOne
  <2>. QED  BY <1>3, <2>1, <2>2, <2>3, <2>4, <2>5, <2>6, <2>7, <2>8, <2>9, <2>10, <2>11, <2>12,
        <2>13 DEF RegistryStep
<1>4. ASSUME NEW d \in Client, RobotEnds(d) PROVE ReportOK(c)'
  BY <1>4 DEF RobotEnds
<1>5. ASSUME NEW v \in World, HostPersists(v), UNCHANGED <<mine, worlds>> PROVE ReportOK(c)'
  BY <1>5 DEF HostPersists
<1>6. ASSUME NEW v \in World, HostRegisters(v), UNCHANGED <<mine, worlds>> PROVE ReportOK(c)'
  BY <1>6 DEF HostRegisters
<1>7. ASSUME NEW v \in World, HostUnregisters(v), UNCHANGED <<mine, worlds>> PROVE ReportOK(c)'
  BY <1>7 DEF HostUnregisters
<1>8. ASSUME NEW v \in World, HostLost(v), UNCHANGED <<mine, worlds>> PROVE ReportOK(c)'
  BY <1>8 DEF HostLost
<1>9. ASSUME NEW v \in World, HostReaped(v), UNCHANGED <<mine, worlds>> PROVE ReportOK(c)'
  BY <1>9 DEF HostReaped
<1>10. ASSUME NEW v \in World, LateSummary(v), UNCHANGED <<mine, worlds>> PROVE ReportOK(c)'
  BY <1>10 DEF LateSummary
<1>11. ASSUME NEW v \in World, NativeChanges(v), UNCHANGED <<mine, worlds>> PROVE ReportOK(c)'
  BY <1>11 DEF NativeChanges
<1>12. ASSUME NEW v \in World, HostSettles(v) PROVE ReportOK(c)'
  BY <1>12 DEF HostSettles, HostSummarises
<1>13. ASSUME NEW v \in World, HostAnnounces(v) PROVE ReportOK(c)'
  BY <1>13 DEF HostAnnounces
<1>14. ASSUME NEW v \in World, HostFails(v) PROVE ReportOK(c)'
  BY <1>14 DEF HostFails
<1>15. ASSUME NEW v \in World, NEW d \in Client, MemberEnds(v, d) PROVE ReportOK(c)'
  BY <1>15 DEF MemberEnds
<1>. QED  BY <1>1, <1>2, <1>3, <1>4, <1>5, <1>6, <1>7, <1>8, <1>9, <1>10, <1>11, <1>12, <1>13,
      <1>14, <1>15 DEF Next

\* Every step keeps what a client prunes prunable.
LEMMA VictimsStep ==
  ASSUME IInv, [Next]_vars, NEW c \in Client
  PROVE  VictimsOK(c)'
<1>. USE WorldAssumption, CommandAssumption DEF vars, worldVars, files, processes, history,
      probing, mine, worlds, IInv, TypeOK, ProbeTypes, ClientOK, FileTypes, HostTypes,
      VictimsOK, FilesOK, Summarise, HostRuns, Fresh, List, Prune, Go, Probe, Return, Fail
<1>1. CASE UNCHANGED vars  BY <1>1
<1>2. ASSUME NEW d \in Client, CommandStep(d) PROVE VictimsOK(c)'
  <2>1. CASE GiveListing(d)  BY <2>1 DEF GiveListing
  <2>2. CASE GiveInstance(d)  BY <2>2 DEF GiveInstance
  <2>3. CASE ListOne(d)
    <3>1. \E ls : victims' \in {victims, [victims EXCEPT ![d] = Oldest(Candidates(ls))]}
      BY <2>3 DEF ListOne
    <3>2. UNCHANGED <<files, processes>>  BY <2>3 DEF ListOne
    <3>3. ASSUME NEW w \in victims'[c]
          PROVE  w \in victims[c] \/ (w \in evidence /\ summary[w] # None)
      BY <3>1, OldestAreTerminal
    <3>. QED  BY <3>2, <3>3
  <2>4. CASE FinaliseOne(d)
    <3>1. \E ls : victims' \in {victims, [victims EXCEPT ![d] = Oldest(Candidates(ls))]}
      BY <2>4 DEF FinaliseOne
    <3>2. UNCHANGED <<files, processes>>  BY <2>4 DEF FinaliseOne
    <3>3. ASSUME NEW w \in victims'[c]
          PROVE  w \in victims[c] \/ (w \in evidence /\ summary[w] # None)
      BY <3>1, OldestAreTerminal
    <3>. QED  BY <3>2, <3>3
  <2>5. CASE Recovered(d)  BY <2>5 DEF Recovered, Exits, MembersReadable
  <2>6. CASE PreparationFails(d)  BY <2>6 DEF PreparationFails
  <2>7. CASE SpawnHost(d)  BY <2>7 DEF SpawnHost
  <2>8. CASE AwaitReady(d)  BY <2>8 DEF AwaitReady
  <2>9. CASE PublishLog(d)  BY <2>9 DEF PublishLog
  <2>10. CASE Identify(d)  BY <2>10 DEF Identify
  <2>11. CASE Verify(d)  BY <2>11 DEF Verify
  <2>12. CASE Connect(d)  BY <2>12 DEF Connect
  <2>13. CASE LaunchRobot(d)  BY <2>13 DEF LaunchRobot
  <2>14. CASE Attach(d)  BY <2>14 DEF Attach
  <2>15. CASE AwaitActive(d)  BY <2>15 DEF AwaitActive
  <2>16. CASE Drive(d)  BY <2>16 DEF Drive
  <2>17. CASE Ending(d)  BY <2>17 DEF Ending, Exits
  <2>18. CASE Looked(d)  BY <2>18 DEF Looked
  <2>19. CASE Settle(d)  BY <2>19 DEF Settle, Exits
  <2>20. CASE StopWorld(d)  BY <2>20 DEF StopWorld
  <2>21. CASE Poll(d)  BY <2>21 DEF Poll
  <2>22. CASE Polled(d)  BY <2>22 DEF Polled, Exits
  <2>23. CASE Show(d)  BY <2>23 DEF Show
  <2>24. CASE Control(d)  BY <2>24 DEF Control
  <2>25. CASE RollBack(d)  BY <2>25 DEF RollBack
  <2>26. CASE Terminate(d)  BY <2>26 DEF Terminate
  <2>27. CASE AwaitHost(d)  BY <2>27 DEF AwaitHost, OwnHostAlive
  <2>28. CASE KillHost(d)  BY <2>28 DEF KillHost
  <2>29. CASE ClientKilled(d)  BY <2>29 DEF ClientKilled
  <2>. QED  BY <1>2, <2>1, <2>2, <2>3, <2>4, <2>5, <2>6, <2>7, <2>8, <2>9, <2>10, <2>11, <2>12,
        <2>13, <2>14, <2>15, <2>16, <2>17, <2>18, <2>19, <2>20, <2>21, <2>22, <2>23, <2>24,
        <2>25, <2>26, <2>27, <2>28, <2>29 DEF CommandStep
<1>3. ASSUME NEW d \in Client, RegistryStep(d), UNCHANGED <<mine, worlds>> PROVE VictimsOK(c)'
  <2>1. CASE OpenRegistration(d)  BY <1>3, <2>1 DEF OpenRegistration
  <2>2. CASE TryLease(d)  BY <1>3, <2>2 DEF TryLease
  <2>3. CASE Judge(d)  BY <1>3, <2>3 DEF Judge
  <2>4. CASE Recover(d)  BY <1>3, <2>4 DEF Recover
  <2>5. CASE Grace(d)  BY <1>3, <2>5 DEF Grace
  <2>6. CASE Validate(d)  BY <1>3, <2>6 DEF Validate, LeaderObserved
  <2>7. CASE Signal(d)  BY <1>3, <2>7 DEF Signal
  <2>8. CASE Await(d)  BY <1>3, <2>8 DEF Await
  <2>9. CASE Reread(d)  BY <1>3, <2>9 DEF Reread
  <2>10. CASE PublishRecovered(d)  BY <1>3, <2>10 DEF PublishRecovered, IndexReadable
  <2>11. CASE Unregister(d)  BY <1>3, <2>11 DEF Unregister
  <2>12. CASE Unlease(d)  BY <1>3, <2>12 DEF Unlease
  <2>13. CASE PruneOne(d)  BY <1>3, <2>13 DEF PruneOne
  <2>. QED  BY <1>3, <2>1, <2>2, <2>3, <2>4, <2>5, <2>6, <2>7, <2>8, <2>9, <2>10, <2>11, <2>12,
        <2>13 DEF RegistryStep
<1>4. ASSUME NEW d \in Client, RobotEnds(d) PROVE VictimsOK(c)'
  BY <1>4 DEF RobotEnds
<1>5. ASSUME NEW v \in World, HostPersists(v), UNCHANGED <<mine, worlds>> PROVE VictimsOK(c)'
  BY <1>5 DEF HostPersists
<1>6. ASSUME NEW v \in World, HostRegisters(v), UNCHANGED <<mine, worlds>> PROVE VictimsOK(c)'
  BY <1>6 DEF HostRegisters
<1>7. ASSUME NEW v \in World, HostUnregisters(v), UNCHANGED <<mine, worlds>> PROVE VictimsOK(c)'
  BY <1>7 DEF HostUnregisters
<1>8. ASSUME NEW v \in World, HostLost(v), UNCHANGED <<mine, worlds>> PROVE VictimsOK(c)'
  BY <1>8 DEF HostLost
<1>9. ASSUME NEW v \in World, HostReaped(v), UNCHANGED <<mine, worlds>> PROVE VictimsOK(c)'
  BY <1>9 DEF HostReaped
<1>10. ASSUME NEW v \in World, LateSummary(v), UNCHANGED <<mine, worlds>> PROVE VictimsOK(c)'
  BY <1>10 DEF LateSummary
<1>11. ASSUME NEW v \in World, NativeChanges(v), UNCHANGED <<mine, worlds>> PROVE VictimsOK(c)'
  BY <1>11 DEF NativeChanges
<1>12. ASSUME NEW v \in World, HostSettles(v) PROVE VictimsOK(c)'
  BY <1>12 DEF HostSettles, HostSummarises
<1>13. ASSUME NEW v \in World, HostAnnounces(v) PROVE VictimsOK(c)'
  BY <1>13 DEF HostAnnounces
<1>14. ASSUME NEW v \in World, HostFails(v) PROVE VictimsOK(c)'
  BY <1>14 DEF HostFails
<1>15. ASSUME NEW v \in World, NEW d \in Client, MemberEnds(v, d) PROVE VictimsOK(c)'
  BY <1>15 DEF MemberEnds
<1>. QED  BY <1>1, <1>2, <1>3, <1>4, <1>5, <1>6, <1>7, <1>8, <1>9, <1>10, <1>11, <1>12, <1>13,
      <1>14, <1>15 DEF Next

\* Every step keeps the files of a world with its host.
LEMMA FilesStep ==
  ASSUME IInv, [Next]_vars, NEW w \in World
  PROVE  FilesOK(w)'
<1>. USE WorldAssumption, CommandAssumption DEF vars, worldVars, files, processes, history,
      probing, mine, worlds, IInv, TypeOK, ProbeTypes, ClientOK, FileTypes, HostTypes, FilesOK,
      StaleOK, VictimsOK, AimOK, HostRuns, Summarise, Fresh, Go, Probe, Return, Fail
<1>1. CASE UNCHANGED vars  BY <1>1
<1>2. ASSUME NEW d \in Client, CommandStep(d) PROVE FilesOK(w)'
  <2>1. CASE GiveListing(d)  BY <2>1 DEF GiveListing
  <2>2. CASE GiveInstance(d)  BY <2>2 DEF GiveInstance
  <2>3. CASE ListOne(d)  BY <2>3 DEF ListOne
  <2>4. CASE FinaliseOne(d)  BY <2>4 DEF FinaliseOne
  <2>5. CASE Recovered(d)  BY <2>5 DEF Recovered, Exits, MembersReadable
  <2>6. CASE PreparationFails(d)  BY <2>6 DEF PreparationFails
  <2>7. CASE SpawnHost(d)  BY <2>7 DEF SpawnHost
  <2>8. CASE AwaitReady(d)  BY <2>8 DEF AwaitReady
  <2>9. CASE PublishLog(d)  BY <2>9 DEF PublishLog
  <2>10. CASE Identify(d)  BY <2>10 DEF Identify
  <2>11. CASE Verify(d)  BY <2>11 DEF Verify
  <2>12. CASE Connect(d)  BY <2>12 DEF Connect
  <2>13. CASE LaunchRobot(d)  BY <2>13 DEF LaunchRobot
  <2>14. CASE Attach(d)  BY <2>14 DEF Attach
  <2>15. CASE AwaitActive(d)  BY <2>15 DEF AwaitActive
  <2>16. CASE Drive(d)  BY <2>16 DEF Drive
  <2>17. CASE Ending(d)  BY <2>17 DEF Ending, Exits
  <2>18. CASE Looked(d)  BY <2>18 DEF Looked
  <2>19. CASE Settle(d)  BY <2>19 DEF Settle, Exits
  <2>20. CASE StopWorld(d)  BY <2>20 DEF StopWorld
  <2>21. CASE Poll(d)  BY <2>21 DEF Poll
  <2>22. CASE Polled(d)  BY <2>22 DEF Polled, Exits
  <2>23. CASE Show(d)  BY <2>23 DEF Show
  <2>24. CASE Control(d)  BY <2>24 DEF Control
  <2>25. CASE RollBack(d)  BY <2>25 DEF RollBack
  <2>26. CASE Terminate(d)  BY <2>26 DEF Terminate
  <2>27. CASE AwaitHost(d)  BY <2>27 DEF AwaitHost, OwnHostAlive
  <2>28. CASE KillHost(d)  BY <2>28 DEF KillHost
  <2>29. CASE ClientKilled(d)  BY <2>29 DEF ClientKilled
  <2>. QED  BY <1>2, <2>1, <2>2, <2>3, <2>4, <2>5, <2>6, <2>7, <2>8, <2>9, <2>10, <2>11, <2>12,
        <2>13, <2>14, <2>15, <2>16, <2>17, <2>18, <2>19, <2>20, <2>21, <2>22, <2>23, <2>24,
        <2>25, <2>26, <2>27, <2>28, <2>29 DEF CommandStep
<1>3. ASSUME NEW d \in Client, RegistryStep(d), UNCHANGED <<mine, worlds>> PROVE FilesOK(w)'
  <2>1. CASE OpenRegistration(d)  BY <1>3, <2>1 DEF OpenRegistration
  <2>2. CASE TryLease(d)  BY <1>3, <2>2 DEF TryLease
  <2>3. CASE Judge(d)  BY <1>3, <2>3 DEF Judge
  <2>4. CASE Recover(d)  BY <1>3, <2>4 DEF Recover
  <2>5. CASE Grace(d)  BY <1>3, <2>5 DEF Grace
  <2>6. CASE Validate(d)  BY <1>3, <2>6 DEF Validate, LeaderObserved
  <2>7. CASE Signal(d)  BY <1>3, <2>7 DEF Signal
  <2>8. CASE Await(d)  BY <1>3, <2>8 DEF Await
  <2>9. CASE Reread(d)  BY <1>3, <2>9 DEF Reread
  <2>10. CASE PublishRecovered(d)  BY <1>3, <2>10 DEF PublishRecovered, IndexReadable
  <2>11. CASE Unregister(d)  BY <1>3, <2>11 DEF Unregister
  <2>12. CASE Unlease(d)  BY <1>3, <2>12 DEF Unlease
  <2>13. CASE PruneOne(d)  BY <1>3, <2>13 DEF PruneOne
  <2>. QED  BY <1>3, <2>1, <2>2, <2>3, <2>4, <2>5, <2>6, <2>7, <2>8, <2>9, <2>10, <2>11, <2>12,
        <2>13 DEF RegistryStep
<1>4. ASSUME NEW d \in Client, RobotEnds(d) PROVE FilesOK(w)'
  BY <1>4 DEF RobotEnds
<1>5. ASSUME NEW v \in World, HostPersists(v), UNCHANGED <<mine, worlds>> PROVE FilesOK(w)'
  BY <1>5 DEF HostPersists
<1>6. ASSUME NEW v \in World, HostRegisters(v), UNCHANGED <<mine, worlds>> PROVE FilesOK(w)'
  BY <1>6 DEF HostRegisters
<1>7. ASSUME NEW v \in World, HostUnregisters(v), UNCHANGED <<mine, worlds>> PROVE FilesOK(w)'
  BY <1>7 DEF HostUnregisters
<1>8. ASSUME NEW v \in World, HostLost(v), UNCHANGED <<mine, worlds>> PROVE FilesOK(w)'
  BY <1>8 DEF HostLost
<1>9. ASSUME NEW v \in World, HostReaped(v), UNCHANGED <<mine, worlds>> PROVE FilesOK(w)'
  BY <1>9 DEF HostReaped
<1>10. ASSUME NEW v \in World, LateSummary(v), UNCHANGED <<mine, worlds>> PROVE FilesOK(w)'
  BY <1>10 DEF LateSummary
<1>11. ASSUME NEW v \in World, NativeChanges(v), UNCHANGED <<mine, worlds>> PROVE FilesOK(w)'
  BY <1>11 DEF NativeChanges
<1>12. ASSUME NEW v \in World, HostSettles(v) PROVE FilesOK(w)'
  BY <1>12 DEF HostSettles, HostSummarises
<1>13. ASSUME NEW v \in World, HostAnnounces(v) PROVE FilesOK(w)'
  BY <1>13 DEF HostAnnounces
<1>14. ASSUME NEW v \in World, HostFails(v) PROVE FilesOK(w)'
  BY <1>14 DEF HostFails
<1>15. ASSUME NEW v \in World, NEW d \in Client, MemberEnds(v, d) PROVE FilesOK(w)'
  BY <1>15 DEF MemberEnds
<1>. QED  BY <1>1, <1>2, <1>3, <1>4, <1>5, <1>6, <1>7, <1>8, <1>9, <1>10, <1>11, <1>12, <1>13,
      <1>14, <1>15 DEF Next

\* No step signals a foreign group.
LEMMA SignalsStep ==
  ASSUME IInv, [Next]_vars
  PROVE  NoForeignSignal'
<1>. USE DEF vars, worldVars, files, processes, history, probing, mine, worlds, IInv, TypeOK,
      ProbeTypes, ClientOK, NoForeignSignal, SignalOK, Fresh, Go, Probe, Return, Fail
<1>1. CASE UNCHANGED vars  BY <1>1
<1>2. ASSUME NEW d \in Client, CommandStep(d) PROVE NoForeignSignal'
  <2>1. CASE GiveListing(d)  BY <2>1 DEF GiveListing
  <2>2. CASE GiveInstance(d)  BY <2>2 DEF GiveInstance
  <2>3. CASE ListOne(d)  BY <2>3 DEF ListOne
  <2>4. CASE FinaliseOne(d)  BY <2>4 DEF FinaliseOne
  <2>5. CASE Recovered(d)  BY <2>5 DEF Recovered, Exits, MembersReadable
  <2>6. CASE PreparationFails(d)  BY <2>6 DEF PreparationFails
  <2>7. CASE SpawnHost(d)  BY <2>7 DEF SpawnHost
  <2>8. CASE AwaitReady(d)  BY <2>8 DEF AwaitReady
  <2>9. CASE PublishLog(d)  BY <2>9 DEF PublishLog
  <2>10. CASE Identify(d)  BY <2>10 DEF Identify
  <2>11. CASE Verify(d)  BY <2>11 DEF Verify
  <2>12. CASE Connect(d)  BY <2>12 DEF Connect
  <2>13. CASE LaunchRobot(d)  BY <2>13 DEF LaunchRobot
  <2>14. CASE Attach(d)  BY <2>14 DEF Attach
  <2>15. CASE AwaitActive(d)  BY <2>15 DEF AwaitActive
  <2>16. CASE Drive(d)  BY <2>16 DEF Drive
  <2>17. CASE Ending(d)  BY <2>17 DEF Ending, Exits
  <2>18. CASE Looked(d)  BY <2>18 DEF Looked
  <2>19. CASE Settle(d)  BY <2>19 DEF Settle, Exits
  <2>20. CASE StopWorld(d)  BY <2>20 DEF StopWorld
  <2>21. CASE Poll(d)  BY <2>21 DEF Poll
  <2>22. CASE Polled(d)  BY <2>22 DEF Polled, Exits
  <2>23. CASE Show(d)  BY <2>23 DEF Show
  <2>24. CASE Control(d)  BY <2>24 DEF Control
  <2>25. CASE RollBack(d)  BY <2>25 DEF RollBack
  <2>26. CASE Terminate(d)  BY <2>26 DEF Terminate
  <2>27. CASE AwaitHost(d)  BY <2>27 DEF AwaitHost, OwnHostAlive
  <2>28. CASE KillHost(d)  BY <2>28 DEF KillHost
  <2>29. CASE ClientKilled(d)  BY <2>29 DEF ClientKilled
  <2>. QED  BY <1>2, <2>1, <2>2, <2>3, <2>4, <2>5, <2>6, <2>7, <2>8, <2>9, <2>10, <2>11, <2>12,
        <2>13, <2>14, <2>15, <2>16, <2>17, <2>18, <2>19, <2>20, <2>21, <2>22, <2>23, <2>24,
        <2>25, <2>26, <2>27, <2>28, <2>29 DEF CommandStep
<1>3. ASSUME NEW d \in Client, RegistryStep(d), UNCHANGED <<mine, worlds>>
      PROVE  NoForeignSignal'
  <2>1. CASE OpenRegistration(d)  BY <1>3, <2>1 DEF OpenRegistration
  <2>2. CASE TryLease(d)  BY <1>3, <2>2 DEF TryLease
  <2>3. CASE Judge(d)  BY <1>3, <2>3 DEF Judge
  <2>4. CASE Recover(d)  BY <1>3, <2>4 DEF Recover
  <2>5. CASE Grace(d)  BY <1>3, <2>5 DEF Grace
  <2>6. CASE Validate(d)  BY <1>3, <2>6 DEF Validate, LeaderObserved
  <2>7. CASE Signal(d)  BY <1>3, <2>7 DEF Signal
  <2>8. CASE Await(d)  BY <1>3, <2>8 DEF Await
  <2>9. CASE Reread(d)  BY <1>3, <2>9 DEF Reread
  <2>10. CASE PublishRecovered(d)  BY <1>3, <2>10 DEF PublishRecovered, IndexReadable
  <2>11. CASE Unregister(d)  BY <1>3, <2>11 DEF Unregister
  <2>12. CASE Unlease(d)  BY <1>3, <2>12 DEF Unlease
  <2>13. CASE PruneOne(d)  BY <1>3, <2>13 DEF PruneOne
  <2>. QED  BY <1>3, <2>1, <2>2, <2>3, <2>4, <2>5, <2>6, <2>7, <2>8, <2>9, <2>10, <2>11, <2>12,
        <2>13 DEF RegistryStep
<1>4. ASSUME NEW d \in Client, RobotEnds(d) PROVE NoForeignSignal'
  BY <1>4 DEF RobotEnds
<1>5. ASSUME NEW v \in World, HostPersists(v), UNCHANGED <<mine, worlds>> PROVE NoForeignSignal'
  BY <1>5 DEF HostPersists
<1>6. ASSUME NEW v \in World, HostRegisters(v), UNCHANGED <<mine, worlds>>
      PROVE  NoForeignSignal'
  BY <1>6 DEF HostRegisters
<1>7. ASSUME NEW v \in World, HostUnregisters(v), UNCHANGED <<mine, worlds>>
      PROVE  NoForeignSignal'
  BY <1>7 DEF HostUnregisters
<1>8. ASSUME NEW v \in World, HostLost(v), UNCHANGED <<mine, worlds>> PROVE NoForeignSignal'
  BY <1>8 DEF HostLost
<1>9. ASSUME NEW v \in World, HostReaped(v), UNCHANGED <<mine, worlds>> PROVE NoForeignSignal'
  BY <1>9 DEF HostReaped
<1>10. ASSUME NEW v \in World, LateSummary(v), UNCHANGED <<mine, worlds>> PROVE NoForeignSignal'
  BY <1>10 DEF LateSummary
<1>11. ASSUME NEW v \in World, NativeChanges(v), UNCHANGED <<mine, worlds>>
       PROVE  NoForeignSignal'
  BY <1>11 DEF NativeChanges
<1>12. ASSUME NEW v \in World, HostSettles(v) PROVE NoForeignSignal'
  BY <1>12 DEF HostSettles, HostSummarises
<1>13. ASSUME NEW v \in World, HostAnnounces(v) PROVE NoForeignSignal'
  BY <1>13 DEF HostAnnounces
<1>14. ASSUME NEW v \in World, HostFails(v) PROVE NoForeignSignal'
  BY <1>14 DEF HostFails
<1>15. ASSUME NEW v \in World, NEW d \in Client, MemberEnds(v, d) PROVE NoForeignSignal'
  BY <1>15 DEF MemberEnds
<1>. QED  BY <1>1, <1>2, <1>3, <1>4, <1>5, <1>6, <1>7, <1>8, <1>9, <1>10, <1>11, <1>12, <1>13,
      <1>14, <1>15 DEF Next

(***************************************************************************)
(* The theorems.                                                           *)
(***************************************************************************)
\* It holds at the start.
LEMMA InitOK == Init => IInv
<1>. SUFFICES ASSUME Init PROVE IInv
  OBVIOUS
<1>. USE WorldAssumption, CommandAssumption DEF Init, WorldInit
<1>1. PICK serving \in {{}, Serving} :
        /\ registration = serving /\ leaseFile = serving
        /\ evidence = serving \cup Retained
        /\ summary = [w \in World |-> IF w \in Retained THEN "host" ELSE None]
        /\ host = [w \in World |-> IF w \in serving THEN "serving"
                                  ELSE IF w \in Retained THEN "gone" ELSE "none"]
        /\ native = [w \in World |-> IF w \in serving THEN "ours"
                                    ELSE IF w \in Retained THEN "gone" ELSE "none"]
  OBVIOUS
<1>2. FileTypes /\ HostTypes
  BY <1>1 DEF FileTypes, HostTypes, Endings
<1>3. ProbeTypes /\ CommandTypes /\ MemberTypes
  BY DEF ProbeTypes, CommandTypes, MemberTypes, Points, Probing, Stale, Returns, Aimed, Aimless,
         Endings, Commands
<1>4. ASSUME NEW w \in World PROVE FilesOK(w)
  BY <1>1 DEF FilesOK
<1>5. ASSUME NEW c \in Client PROVE ClientOK(c)
  BY DEF ClientOK, AimOK, CommandOK, OwnOK, RobotOK, LogOK, SignalOK, StaleOK, PastJoining,
         JoinedOK, ReportOK, VictimsOK, Joined, Probing, Stale, Returns, Aimed
<1>6. NoForeignSignal
  BY DEF NoForeignSignal
<1>. QED  BY <1>2, <1>3, <1>4, <1>5, <1>6 DEF IInv, TypeOK

\* No step of a command, of a host, of a robot or of the registry breaks the inductive invariant.
LEMMA StepOK == IInv /\ [Next]_vars => IInv'
<1>. SUFFICES ASSUME IInv, [Next]_vars PROVE IInv'
  OBVIOUS
<1>1. TypeOK'
  BY FileTypesStep, HostTypesStep, ProbeTypesStep, CommandTypesStep, MemberTypesStep DEF TypeOK
<1>2. ASSUME NEW c \in Client PROVE ClientOK(c)'
  BY AimStep, CommandOKStep, OwnStep, RobotStep, LogStep, SignalStep, StaleStep,
        PastJoiningStep,
     JoinedStep, ReportStep, VictimsStep DEF ClientOK
<1>3. ASSUME NEW w \in World PROVE FilesOK(w)'
  BY FilesStep
<1>. QED  BY <1>1, <1>2, <1>3, SignalsStep DEF IInv

\* The whole invariant holds, for any number of worlds and clients.
THEOREM Invariant == Spec => []IInv
  BY InitOK, StepOK, PTL DEF Spec

\* Type correctness.
THEOREM TypeCorrect == Spec => []TypeOK
<1>1. IInv => TypeOK  BY DEF IInv
<1>. QED  BY Invariant, <1>1, PTL

\* A recovery signals only the process group of the checkpoint
\* (process_control.rs, terminate_validated_group).
THEOREM NoForeignGroupSignalled == Spec => []NoForeignSignal
<1>1. IInv => NoForeignSignal  BY DEF IInv
<1>. QED  BY Invariant, <1>1, PTL

\* A command that fails leaves neither its host nor its execution nor its log
\* (start.rs, connect.rs).
THEOREM RollbacksAreWhole == Spec => []RollbackIsWhole
<1>1. IInv => RollbackIsWhole
  BY DEF IInv, ClientOK, OwnOK, RobotOK, LogOK, RollbackIsWhole
<1>. QED  BY Invariant, <1>1, PTL

\* The reported end of a member was not the end of its world
\* (connect.rs, await_connected_simulation_ending).
THEOREM MemberEndingsAreTrue == Spec => []MemberEndingIsTrue
<1>1. IInv => MemberEndingIsTrue
  BY DEF IInv, ClientOK, ReportOK, MemberEndingIsTrue
<1>. QED  BY Invariant, <1>1, PTL

\* What a step that removes a registration knows of its world.
Removals ==
  \A w \in registration \ registration' :
    /\ host[w] \in {"stopping", "gone"}
    /\ summary[w] # None \/ w \notin evidence

\* A step that removes a registration does so after its host.
LEMMA RegistrationStep ==
  ASSUME IInv, [Next]_vars
  PROVE  Removals
<1>. USE DEF vars, worldVars, files, processes, history, probing, mine, worlds, IInv, ClientOK,
      AimOK, StaleOK, Stale, Fresh, Removals
<1>1. CASE UNCHANGED vars  BY <1>1
<1>2. ASSUME NEW d \in Client, CommandStep(d) PROVE Removals
  <2>1. CASE GiveListing(d)  BY <2>1 DEF GiveListing
  <2>2. CASE GiveInstance(d)  BY <2>2 DEF GiveInstance
  <2>3. CASE ListOne(d)  BY <2>3 DEF ListOne
  <2>4. CASE FinaliseOne(d)  BY <2>4 DEF FinaliseOne
  <2>5. CASE Recovered(d)  BY <2>5 DEF Recovered, Exits, MembersReadable
  <2>6. CASE PreparationFails(d)  BY <2>6 DEF PreparationFails
  <2>7. CASE SpawnHost(d)  BY <2>7 DEF SpawnHost
  <2>8. CASE AwaitReady(d)  BY <2>8 DEF AwaitReady
  <2>9. CASE PublishLog(d)  BY <2>9 DEF PublishLog
  <2>10. CASE Identify(d)  BY <2>10 DEF Identify
  <2>11. CASE Verify(d)  BY <2>11 DEF Verify
  <2>12. CASE Connect(d)  BY <2>12 DEF Connect
  <2>13. CASE LaunchRobot(d)  BY <2>13 DEF LaunchRobot
  <2>14. CASE Attach(d)  BY <2>14 DEF Attach
  <2>15. CASE AwaitActive(d)  BY <2>15 DEF AwaitActive
  <2>16. CASE Drive(d)  BY <2>16 DEF Drive
  <2>17. CASE Ending(d)  BY <2>17 DEF Ending, Exits
  <2>18. CASE Looked(d)  BY <2>18 DEF Looked
  <2>19. CASE Settle(d)  BY <2>19 DEF Settle, Exits
  <2>20. CASE StopWorld(d)  BY <2>20 DEF StopWorld
  <2>21. CASE Poll(d)  BY <2>21 DEF Poll
  <2>22. CASE Polled(d)  BY <2>22 DEF Polled, Exits
  <2>23. CASE Show(d)  BY <2>23 DEF Show
  <2>24. CASE Control(d)  BY <2>24 DEF Control
  <2>25. CASE RollBack(d)  BY <2>25 DEF RollBack
  <2>26. CASE Terminate(d)  BY <2>26 DEF Terminate
  <2>27. CASE AwaitHost(d)  BY <2>27 DEF AwaitHost, OwnHostAlive
  <2>28. CASE KillHost(d)  BY <2>28 DEF KillHost
  <2>29. CASE ClientKilled(d)  BY <2>29 DEF ClientKilled
  <2>. QED  BY <1>2, <2>1, <2>2, <2>3, <2>4, <2>5, <2>6, <2>7, <2>8, <2>9, <2>10, <2>11, <2>12,
        <2>13, <2>14, <2>15, <2>16, <2>17, <2>18, <2>19, <2>20, <2>21, <2>22, <2>23, <2>24,
        <2>25, <2>26, <2>27, <2>28, <2>29 DEF CommandStep
<1>3. ASSUME NEW d \in Client, RegistryStep(d), UNCHANGED <<mine, worlds>> PROVE Removals
  <2>1. CASE OpenRegistration(d)  BY <1>3, <2>1 DEF OpenRegistration
  <2>2. CASE TryLease(d)  BY <1>3, <2>2 DEF TryLease
  <2>3. CASE Judge(d)  BY <1>3, <2>3 DEF Judge
  <2>4. CASE Recover(d)  BY <1>3, <2>4 DEF Recover
  <2>5. CASE Grace(d)  BY <1>3, <2>5 DEF Grace
  <2>6. CASE Validate(d)  BY <1>3, <2>6 DEF Validate, LeaderObserved
  <2>7. CASE Signal(d)  BY <1>3, <2>7 DEF Signal
  <2>8. CASE Await(d)  BY <1>3, <2>8 DEF Await
  <2>9. CASE Reread(d)  BY <1>3, <2>9 DEF Reread
  <2>10. CASE PublishRecovered(d)  BY <1>3, <2>10 DEF PublishRecovered, IndexReadable
  <2>11. CASE Unregister(d)  BY <1>3, <2>11 DEF Unregister
  <2>12. CASE Unlease(d)  BY <1>3, <2>12 DEF Unlease
  <2>13. CASE PruneOne(d)  BY <1>3, <2>13 DEF PruneOne
  <2>. QED  BY <1>3, <2>1, <2>2, <2>3, <2>4, <2>5, <2>6, <2>7, <2>8, <2>9, <2>10, <2>11, <2>12,
        <2>13 DEF RegistryStep
<1>4. ASSUME NEW d \in Client, RobotEnds(d) PROVE Removals
  BY <1>4 DEF RobotEnds
<1>5. ASSUME NEW v \in World, HostPersists(v), UNCHANGED <<mine, worlds>> PROVE Removals
  BY <1>5 DEF HostPersists
<1>6. ASSUME NEW v \in World, HostRegisters(v), UNCHANGED <<mine, worlds>> PROVE Removals
  BY <1>6 DEF HostRegisters
<1>7. ASSUME NEW v \in World, HostUnregisters(v), UNCHANGED <<mine, worlds>> PROVE Removals
  BY <1>7 DEF HostUnregisters
<1>8. ASSUME NEW v \in World, HostLost(v), UNCHANGED <<mine, worlds>> PROVE Removals
  BY <1>8 DEF HostLost
<1>9. ASSUME NEW v \in World, HostReaped(v), UNCHANGED <<mine, worlds>> PROVE Removals
  BY <1>9 DEF HostReaped
<1>10. ASSUME NEW v \in World, LateSummary(v), UNCHANGED <<mine, worlds>> PROVE Removals
  BY <1>10 DEF LateSummary
<1>11. ASSUME NEW v \in World, NativeChanges(v), UNCHANGED <<mine, worlds>> PROVE Removals
  BY <1>11 DEF NativeChanges
<1>12. ASSUME NEW v \in World, HostSettles(v) PROVE Removals
  BY <1>12 DEF HostSettles, HostSummarises
<1>13. ASSUME NEW v \in World, HostAnnounces(v) PROVE Removals
  BY <1>13 DEF HostAnnounces
<1>14. ASSUME NEW v \in World, HostFails(v) PROVE Removals
  BY <1>14 DEF HostFails
<1>15. ASSUME NEW v \in World, NEW d \in Client, MemberEnds(v, d) PROVE Removals
  BY <1>15 DEF MemberEnds
<1>. QED  BY <1>1, <1>2, <1>3, <1>4, <1>5, <1>6, <1>7, <1>8, <1>9, <1>10, <1>11, <1>12, <1>13,
      <1>14, <1>15 DEF Next

\* A registration outlives its host, and goes when its world has an outcome
\* (registry.rs, recovery.rs).
THEOREM RegistrationsOutliveHosts == Spec => RegistrationOutlivesHost
<1>1. IInv /\ [Next]_vars => [Removals]_vars
  BY RegistrationStep
<1>2. [][Removals]_vars => RegistrationOutlivesHost
  BY PTL DEF RegistrationOutlivesHost, Removals
<1>. QED  BY Invariant, <1>1, <1>2, PTL DEF Spec

(***************************************************************************)
(* The refinement.                                                         *)
(***************************************************************************)
\* The phases before and after, and the outcome, as functions.
phases == [w \in World |-> Phase(w)]

\* The evidence starts as WorldOutcome does.
LEMMA OutcomeInit == Init => Evidence!Init
<1>. SUFFICES ASSUME Init PROVE Evidence!Init
  OBVIOUS
<1>1. TypeOK /\ \A w \in World : FilesOK(w)  BY InitOK DEF IInv
<1>2. pruned = {}  BY DEF Init, WorldInit
<1>3. \A w \in World : Phase(w) \in {"unborn", "open", "closed"}
  BY <1>2 DEF Phase
<1>4. \A w \in World : summary[w] # None <=> Phase(w) = "closed"
  BY <1>2 DEF Phase
<1>5. summary \in [World -> {"host", "hostlost"} \cup {None}]
  BY <1>1 DEF TypeOK, FileTypes, Endings
<1>. QED  BY <1>3, <1>4, <1>5 DEF Evidence!Init

\* The steps that leave evidence, summaries and prunings alone.
LEMMA Unseen ==
  ASSUME UNCHANGED <<evidence, summary, pruned>>
  PROVE  UNCHANGED <<phases, summary>>
  BY DEF phases, Phase

\* A host that persists its checkpoint opens the evidence of its world.
LEMMA Opens ==
  ASSUME IInv, NEW w \in World, HostPersists(w)
  PROVE  Evidence!Open(w)
<1>. USE DEF IInv, TypeOK, FileTypes, FilesOK
<1>1. w \notin evidence /\ w \notin pruned /\ summary[w] = None  BY DEF HostPersists
<1>2. evidence' = evidence \cup {w} /\ pruned' = pruned /\ summary' = summary
  BY DEF HostPersists, history
<1>3. Phase(w) = "unborn" /\ Phase(w)' = "open"  BY <1>1, <1>2 DEF Phase
<1>4. \A v \in World : v # w => Phase(v)' = Phase(v)  BY <1>2 DEF Phase
<1>. QED  BY <1>2, <1>3, <1>4 DEF Evidence!Open

\* Whoever summarises a world whose evidence is there closes it.
LEMMA Closes ==
  ASSUME IInv, NEW w \in World, NEW o \in {"host", "hostlost"}, w \in evidence,
         summary[w] = None, Summarise(w, o), UNCHANGED <<evidence, pruned>>
  PROVE  Evidence!Close(w, o)
<1>. USE DEF IInv, TypeOK, FileTypes, FilesOK
<1>1. summary' = [summary EXCEPT ![w] = o]  BY DEF Summarise
<1>2. o # None  BY WorldAssumption
<1>3. Phase(w) = "open" /\ Phase(w)' = "closed"  BY <1>1, <1>2 DEF Phase
<1>4. \A v \in World : v # w => Phase(v)' = Phase(v)  BY <1>1 DEF Phase
<1>. QED  BY <1>1, <1>3, <1>4 DEF Evidence!Close

\* A prune forgets a world, or fails.
LEMMA Forgets ==
  ASSUME IInv, NEW c \in Client, PruneOne(c)
  PROVE  (\E w \in World : Evidence!Forget(w)) \/ UNCHANGED <<phases, summary>>
<1>. USE DEF IInv, TypeOK, FileTypes, ProbeTypes, FilesOK
<1>1. PICK w \in victims[c] :
        \/ /\ w \in evidence /\ evidence' = evidence \ {w}
           /\ summary' = [summary EXCEPT ![w] = None] /\ pruned' = pruned \cup {w}
        \/ UNCHANGED <<evidence, summary, pruned>>
  BY DEF PruneOne
<1>2. CASE UNCHANGED <<evidence, summary, pruned>>  BY <1>2, Unseen
<1>3. CASE /\ w \in evidence /\ evidence' = evidence \ {w}
           /\ summary' = [summary EXCEPT ![w] = None] /\ pruned' = pruned \cup {w}
  <2>1. w \in World /\ w \notin pruned /\ summary[w] # None
    BY <1>3 DEF ClientOK, VictimsOK
  <2>2. Phase(w) = "closed" /\ Phase(w)' = "forgotten"  BY <1>3, <2>1 DEF Phase
  <2>3. \A v \in World : v # w => Phase(v)' = Phase(v)  BY <1>3 DEF Phase
  <2>. QED  BY <1>3, <2>1, <2>2, <2>3 DEF Evidence!Forget
<1>. QED  BY <1>1, <1>2, <1>3

\* Every step opens, closes or forgets the evidence of one world, or none.
LEMMA OutcomeStep ==
  ASSUME IInv, [Next]_vars
  PROVE  [Evidence!Next]_<<phases, summary>>
<1>. USE DEF vars, worldVars, files, processes, history, probing, mine, worlds, Fail
<1>1. CASE UNCHANGED vars  BY <1>1, Unseen
<1>2. ASSUME NEW d \in Client, CommandStep(d) PROVE [Evidence!Next]_<<phases, summary>>
  <2>1. CASE GiveListing(d)
    BY <2>1, Unseen DEF GiveListing, Fresh
  <2>2. CASE GiveInstance(d)
    BY <2>2, Unseen DEF GiveInstance, Fresh
  <2>3. CASE ListOne(d)
    BY <2>3, Unseen DEF ListOne, Fresh
  <2>4. CASE FinaliseOne(d)
    BY <2>4, Unseen DEF FinaliseOne, Fresh
  <2>5. CASE Recovered(d)
    BY <2>5, Unseen DEF Recovered, Fresh, Exits, MembersReadable
  <2>6. CASE PreparationFails(d)
    BY <2>6, Unseen DEF PreparationFails, Fresh
  <2>7. CASE SpawnHost(d)
    BY <2>7, Unseen DEF SpawnHost, Fresh
  <2>8. CASE AwaitReady(d)
    BY <2>8, Unseen DEF AwaitReady, Fresh
  <2>9. CASE PublishLog(d)
    BY <2>9, Unseen DEF PublishLog, Fresh
  <2>10. CASE Identify(d)
    BY <2>10, Unseen DEF Identify, Fresh
  <2>11. CASE Verify(d)
    BY <2>11, Unseen DEF Verify, Fresh
  <2>12. CASE Connect(d)
    BY <2>12, Unseen DEF Connect, Fresh
  <2>13. CASE LaunchRobot(d)
    BY <2>13, Unseen DEF LaunchRobot, Fresh
  <2>14. CASE Attach(d)
    BY <2>14, Unseen DEF Attach, Fresh
  <2>15. CASE AwaitActive(d)
    BY <2>15, Unseen DEF AwaitActive, Fresh
  <2>16. CASE Drive(d)
    BY <2>16, Unseen DEF Drive, Fresh
  <2>17. CASE Ending(d)
    BY <2>17, Unseen DEF Ending, Fresh, Exits
  <2>18. CASE Looked(d)
    BY <2>18, Unseen DEF Looked, Fresh
  <2>19. CASE Settle(d)
    BY <2>19, Unseen DEF Settle, Fresh, Exits
  <2>20. CASE StopWorld(d)
    BY <2>20, Unseen DEF StopWorld, Fresh
  <2>21. CASE Poll(d)
    BY <2>21, Unseen DEF Poll, Fresh
  <2>22. CASE Polled(d)
    BY <2>22, Unseen DEF Polled, Fresh, Exits
  <2>23. CASE Show(d)
    BY <2>23, Unseen DEF Show, Fresh
  <2>24. CASE Control(d)
    BY <2>24, Unseen DEF Control, Fresh
  <2>25. CASE RollBack(d)
    BY <2>25, Unseen DEF RollBack, Fresh
  <2>26. CASE Terminate(d)
    BY <2>26, Unseen DEF Terminate, Fresh
  <2>27. CASE AwaitHost(d)
    BY <2>27, Unseen DEF AwaitHost, Fresh, OwnHostAlive
  <2>28. CASE KillHost(d)
    BY <2>28, Unseen DEF KillHost, Fresh
  <2>29. CASE ClientKilled(d)
    BY <2>29, Unseen DEF ClientKilled, Fresh
  <2>. QED  BY <1>2, <2>1, <2>2, <2>3, <2>4, <2>5, <2>6, <2>7, <2>8, <2>9, <2>10, <2>11, <2>12,
        <2>13, <2>14, <2>15, <2>16, <2>17, <2>18, <2>19, <2>20, <2>21, <2>22, <2>23, <2>24,
        <2>25, <2>26, <2>27, <2>28, <2>29 DEF CommandStep
<1>3. ASSUME NEW d \in Client, RegistryStep(d), UNCHANGED <<mine, worlds>>
      PROVE  [Evidence!Next]_<<phases, summary>>
  <2>1. CASE OpenRegistration(d)
    BY <1>3, <2>1, Unseen DEF OpenRegistration
  <2>2. CASE TryLease(d)
    BY <1>3, <2>2, Unseen DEF TryLease
  <2>3. CASE Judge(d)
    BY <1>3, <2>3, Unseen DEF Judge
  <2>4. CASE Recover(d)
    BY <1>3, <2>4, Unseen DEF Recover
  <2>5. CASE Grace(d)
    BY <1>3, <2>5, Unseen DEF Grace
  <2>6. CASE Validate(d)
    BY <1>3, <2>6, Unseen DEF Validate, LeaderObserved
  <2>7. CASE Signal(d)
    BY <1>3, <2>7, Unseen DEF Signal
  <2>8. CASE Await(d)
    BY <1>3, <2>8, Unseen DEF Await
  <2>9. CASE Reread(d)
    BY <1>3, <2>9, Unseen DEF Reread
  <2>10. CASE PublishRecovered(d)
    <3>1. UNCHANGED <<evidence, pruned>>  BY <1>3, <2>10 DEF PublishRecovered, IndexReadable
    <3>2. CASE UNCHANGED summary  BY <3>1, <3>2, Unseen
    <3>3. CASE ~UNCHANGED summary
      <4>1. goal[d] \in World /\ goal[d] \in evidence /\ summary[goal[d]] = None
              /\ Summarise(goal[d], "hostlost")
        BY <1>3, <2>10, <3>3 DEF PublishRecovered, IInv, ClientOK, AimOK, Stale, IndexReadable
      <4>. QED  BY <3>1, <4>1, Closes DEF Evidence!Next
    <3>. QED  BY <3>2, <3>3
  <2>11. CASE Unregister(d)
    BY <1>3, <2>11, Unseen DEF Unregister
  <2>12. CASE Unlease(d)
    BY <1>3, <2>12, Unseen DEF Unlease
  <2>13. CASE PruneOne(d)
    BY <1>3, <2>13, Forgets DEF Evidence!Next
  <2>. QED  BY <1>3, <2>1, <2>2, <2>3, <2>4, <2>5, <2>6, <2>7, <2>8, <2>9, <2>10, <2>11, <2>12,
        <2>13 DEF RegistryStep
<1>4. ASSUME NEW d \in Client, RobotEnds(d) PROVE [Evidence!Next]_<<phases, summary>>
  BY <1>4, Unseen DEF RobotEnds
<1>5. ASSUME NEW v \in World, HostPersists(v), UNCHANGED <<mine, worlds>>
      PROVE  [Evidence!Next]_<<phases, summary>>
  BY <1>5, Opens DEF Evidence!Next
<1>6. ASSUME NEW v \in World, HostRegisters(v), UNCHANGED <<mine, worlds>>
      PROVE  [Evidence!Next]_<<phases, summary>>
  BY <1>6, Unseen DEF HostRegisters
<1>7. ASSUME NEW v \in World, HostUnregisters(v), UNCHANGED <<mine, worlds>>
      PROVE  [Evidence!Next]_<<phases, summary>>
  BY <1>7, Unseen DEF HostUnregisters
<1>8. ASSUME NEW v \in World, HostLost(v), UNCHANGED <<mine, worlds>>
      PROVE  [Evidence!Next]_<<phases, summary>>
  BY <1>8, Unseen DEF HostLost
<1>9. ASSUME NEW v \in World, HostReaped(v), UNCHANGED <<mine, worlds>>
      PROVE  [Evidence!Next]_<<phases, summary>>
  BY <1>9, Unseen DEF HostReaped
<1>10. ASSUME NEW v \in World, LateSummary(v), UNCHANGED <<mine, worlds>>
       PROVE  [Evidence!Next]_<<phases, summary>>
  <2>1. v \in evidence /\ summary[v] = None /\ Summarise(v, "host") /\ UNCHANGED <<evidence, pruned>>
    BY <1>10 DEF LateSummary
  <2>. QED  BY <2>1, Closes DEF Evidence!Next
<1>11. ASSUME NEW v \in World, NativeChanges(v), UNCHANGED <<mine, worlds>>
       PROVE  [Evidence!Next]_<<phases, summary>>
  BY <1>11, Unseen DEF NativeChanges
<1>12. ASSUME NEW v \in World, HostSettles(v) PROVE [Evidence!Next]_<<phases, summary>>
  <2>1. v \in evidence /\ summary[v] = None /\ Summarise(v, "host") /\ UNCHANGED <<evidence, pruned>>
    BY <1>12 DEF HostSettles, HostSummarises
  <2>. QED  BY <2>1, Closes DEF Evidence!Next
<1>13. ASSUME NEW v \in World, HostAnnounces(v) PROVE [Evidence!Next]_<<phases, summary>>
  BY <1>13, Unseen DEF HostAnnounces
<1>14. ASSUME NEW v \in World, HostFails(v) PROVE [Evidence!Next]_<<phases, summary>>
  BY <1>14, Unseen DEF HostFails
<1>15. ASSUME NEW v \in World, NEW d \in Client, MemberEnds(v, d)
       PROVE  [Evidence!Next]_<<phases, summary>>
  BY <1>15, Unseen DEF MemberEnds
<1>. QED  BY <1>1, <1>2, <1>3, <1>4, <1>5, <1>6, <1>7, <1>8, <1>9, <1>10, <1>11, <1>12, <1>13,
      <1>14, <1>15 DEF Next

\* The outcome of a world is published once and never replaced, whoever writes
\* it: the evidence of the worlds implements WorldOutcome.
THEOREM OutcomesAreFinal == Spec => OneOutcome
<1>1. IInv /\ [Next]_vars => [Evidence!Next]_<<phases, summary>>
  BY OutcomeStep
<1>2. [Evidence!Next]_<<phases, summary>> <=> [Evidence!Next]_<<[w \in World |-> Phase(w)], summary>>
  BY DEF phases
<1>. QED  BY OutcomeInit, Invariant, <1>1, <1>2, PTL DEF Spec, OneOutcome, Evidence!Spec

=============================================================================
