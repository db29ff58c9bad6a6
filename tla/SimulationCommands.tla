------------------------- MODULE SimulationCommands -------------------------
(***************************************************************************)
(* The commands over simulation worlds (cli/src/application/simulation/)   *)
(* and the world host they launch (crates/host/src/world_process.rs), on   *)
(* top of WorldRegistry: start and run, which own a host until they commit *)
(* and roll it back otherwise; connect, which owns a robot execution;      *)
(* stop, status, list and control.                                         *)
(*                                                                         *)
(* Abstractions: launching and stopping the robot execution is one step    *)
(* each (SessionLifecycle has them in detail), an execution is the client  *)
(* that launched it; every call to a host may fail; status stands for      *)
(* logs, resume for the other controls, list for list --all.               *)
(***************************************************************************)
EXTENDS WorldRegistry

CONSTANTS
  Gives,        \* the commands each client gives
  MaxCommands,  \* bound: how many of them in a behaviour
  Kills         \* whether a client may be killed

ASSUME CommandAssumption ==
  /\ Gives \in [Client -> SUBSET {"start", "run", "list", "connect", "stop", "status", "resume"}]
  /\ MaxCommands \in Nat /\ Kills \in BOOLEAN
  /\ None \notin {"serving", "stopping", "member", "unclean"}

VARIABLES
  cmd,          \* the command of a client
  own,          \* the world whose host the client owns
  robot,        \* its robot execution: none, live, ended
  announced,    \* worlds whose host has printed the ready line
  bootLog,      \* clients whose .starting-*.host.log exists
  motion,       \* worlds whose physics run
  members,      \* the executions a world has attached
  memberEnd,    \* executions with member-terminal evidence, and in which
                \* lifecycle of the world it was written
  seen, live, todo,  \* what a client's listing found
  report,       \* what the command tells its user
  given         \* commands given so far

mine     == <<cmd, own, robot, bootLog, seen, live, todo, report, given>>
worlds   == <<announced, motion, members, memberEnd>>
vars     == <<worldVars, mine, worlds>>

Init ==
  /\ WorldInit
  /\ cmd = [c \in Client |-> None] /\ own = [c \in Client |-> None]
  /\ robot = [c \in Client |-> "none"] /\ report = [c \in Client |-> None]
  /\ announced = registration /\ bootLog = {} /\ motion = {}
  /\ members = [w \in World |-> {}] /\ memberEnd = [c \in Client |-> None]
  /\ seen = [c \in Client |-> {}] /\ live = [c \in Client |-> {}] /\ todo = [c \in Client |-> {}]
  /\ given = 0

\* connect_verified, current_verified: the endpoint answers for the world.
Verified(w) == host[w] = "serving"

ReadyAndPaused(w) == w \notin motion

\* detach: the host outlives the command.
Detached(c) == [own EXCEPT ![c] = None]

MemberTerminal(c) == memberEnd[c]

\* The records and logs that a summary names, which a prune may have removed.
MembersReadable(w) == w \in evidence

\* How a command that reports an ending exits: a host that was lost, a world that
\* failed and a member that did not stop cleanly are failures.
Exits(ending) == IF ending = "hostlost" THEN {"failed"} ELSE {"done", "failed"}

Go(c, point) == pc' = [pc EXCEPT ![c] = point]

\* A probe of w that returns to a point.
Probe(c, w, point) ==
  /\ Go(c, "probe")
  /\ goal' = [goal EXCEPT ![c] = w]
  /\ then' = [then EXCEPT ![c] = point]

\* registry.list(): the names first, then a probe of each.
List(c) ==
  /\ Go(c, "listing")
  /\ seen' = [seen EXCEPT ![c] = registration]
  /\ todo' = [todo EXCEPT ![c] = registration]
  /\ live' = [live EXCEPT ![c] = {}]

(***************************************************************************)
(* The rest of the host's own behaviour (external).                        *)
(***************************************************************************)
HostAnnounces(w) ==
  /\ host[w] = "serving" /\ w \notin announced
  /\ announced' = announced \cup {w}
  /\ UNCHANGED <<worldVars, mine, motion, members, memberEnd>>

\* The world ends by itself: a failure of the simulator.
HostFails(w) ==
  /\ host[w] = "serving"
  /\ host' = [host EXCEPT ![w] = "stopping"]
  /\ UNCHANGED <<files, lock, native, history, pc, probing, victims, mine, worlds>>

\* A member that ended is written down and leaves; a stopping world writes
\* all of its members down before its summary.
MemberEnds(w, c) ==
  /\ c \in members[w]
  /\ \/ host[w] = "serving" /\ robot[c] = "ended"
     \/ host[w] = "stopping" /\ summary[w] = None
  /\ members' = [members EXCEPT ![w] = @ \ {c}]
  /\ memberEnd' = [memberEnd EXCEPT ![c] = host[w]]
  /\ UNCHANGED <<worldVars, mine, announced, motion>>

HostSettles(w) == members[w] = {} /\ HostSummarises(w) /\ UNCHANGED <<mine, worlds>>

\* An attached execution ends, by itself or with its world.
RobotEnds(c) ==
  /\ robot[c] = "live"
  /\ robot' = [robot EXCEPT ![c] = "ended"]
  /\ UNCHANGED <<worldVars, cmd, own, bootLog, seen, live, todo, report, given, worlds>>

(***************************************************************************)
(* Giving a command.                                                       *)
(***************************************************************************)
Fresh(c) ==
  /\ pc[c] \in {"idle", "failed", "done"} /\ robot[c] # "live" /\ given < MaxCommands
  /\ \A w \in World : c \notin members[w]
  /\ given' = given + 1
  /\ robot' = [robot EXCEPT ![c] = "none"]
  /\ own' = [own EXCEPT ![c] = None]
  /\ report' = [report EXCEPT ![c] = None]
  /\ memberEnd' = [memberEnd EXCEPT ![c] = None]
  /\ found' = [found EXCEPT ![c] = None]
  /\ UNCHANGED <<files, lock, processes, history, signal, victims,
                 bootLog, announced, motion, members>>

\* start and run prune first; list recovers what is stale and prunes last.
GiveListing(c) ==
  /\ Fresh(c)
  /\ \E name \in Gives[c] \cap {"start", "run", "list"} : cmd' = [cmd EXCEPT ![c] = name]
  /\ List(c)
  /\ UNCHANGED <<goal, then>>

\* The others name an instance.
GiveInstance(c) ==
  /\ Fresh(c)
  /\ \E name \in Gives[c] \cap {"connect", "stop", "status", "resume"}, w \in World :
       /\ cmd' = [cmd EXCEPT ![c] = name]
       /\ Probe(c, w, CASE name = "connect" -> "connect" [] name = "stop" -> "stop"
                         [] name = "status" -> "show" [] name = "resume" -> "control")
  /\ UNCHANGED <<seen, live, todo>>

(***************************************************************************)
(* Listing, recovering and pruning.                                        *)
(***************************************************************************)
\* A world found live is remembered; the last one is followed by the
\* pruning, or by the recovery of those that were not live.
ListOne(c) ==
  LET found_live == IF found[c] = "live" THEN {goal[c]} ELSE {} IN
  /\ pc[c] = "listing"
  /\ live' = [live EXCEPT ![c] = @ \cup found_live]
  /\ found' = [found EXCEPT ![c] = None]
  /\ \/ \E w \in todo[c] :
          /\ todo' = [todo EXCEPT ![c] = @ \ {w}]
          /\ Probe(c, w, "listing")
          /\ UNCHANGED victims
     \/ /\ todo[c] = {} /\ cmd[c] = "list"
        /\ Go(c, "finalise")
        /\ todo' = [todo EXCEPT ![c] = seen[c] \ live'[c]]
        /\ UNCHANGED <<goal, then, victims>>
     \/ /\ todo[c] = {} /\ cmd[c] # "list"
        /\ Prune(c, live'[c], "spawn")
        /\ UNCHANGED <<todo, goal>>
  /\ UNCHANGED <<files, lock, processes, history, signal,
                 cmd, own, robot, bootLog, seen, report, given, worlds>>

\* list --all: a world that cannot be finalised is a warning.
FinaliseOne(c) ==
  /\ pc[c] = "finalise"
  /\ \/ \E w \in todo[c] :
          /\ todo' = [todo EXCEPT ![c] = @ \ {w}]
          /\ Probe(c, w, "recover")
          /\ UNCHANGED victims
     \/ /\ todo[c] = {}
        /\ Prune(c, live[c], "done")
        /\ UNCHANGED <<todo, goal>>
  /\ UNCHANGED <<files, lock, processes, history, found, signal,
                 cmd, own, robot, bootLog, seen, live, report, given, worlds>>

Recovered(c) ==
  /\ pc[c] = "recovered"
  /\ \/ cmd[c] = "list" /\ Go(c, "finalise") /\ UNCHANGED report
     \/ /\ cmd[c] = "status"
        /\ IF found[c] # None /\ MembersReadable(goal[c])
           THEN Go(c, "done") /\ report' = [report EXCEPT ![c] = found[c]]
           ELSE Go(c, "failed") /\ UNCHANGED report
     \/ /\ cmd[c] \in {"stop", "run", "connect"} /\ found[c] = None
        /\ Go(c, IF cmd[c] = "stop" THEN "poll" ELSE "ending")
        /\ UNCHANGED report
     \/ /\ cmd[c] \in {"stop", "run", "connect"} /\ found[c] # None
        /\ \E exit \in Exits(found[c]) : Go(c, exit)
        /\ report' = [report EXCEPT ![c] = found[c]]
  /\ UNCHANGED <<files, lock, processes, history, probing, victims,
                 cmd, own, robot, bootLog, seen, live, todo, given, worlds>>

(***************************************************************************)
(* start_world and launch.                                                 *)
(***************************************************************************)
\* The world does not compile, or its tools cannot be materialised.
PreparationFails(c) ==
  /\ pc[c] = "spawn"
  /\ Go(c, "failed")
  /\ UNCHANGED <<files, lock, processes, history, probing, victims, mine, worlds>>

\* The host is spawned in a process group of its own, logging to a file
\* that waits for the name of the instance.
SpawnHost(c) ==
  /\ pc[c] = "spawn"
  /\ \E w \in World :
       /\ host[w] = "none"
       /\ host' = [host EXCEPT ![w] = "booting"]
       /\ own' = [own EXCEPT ![c] = w]
  /\ bootLog' = bootLog \cup {c}
  /\ Go(c, "ready")
  /\ UNCHANGED <<files, lock, native, history, probing, victims,
                 cmd, robot, seen, live, todo, report, given, worlds>>

\* The ready line; or the end of the stream, the budget, an interrupt.
AwaitReady(c) ==
  /\ pc[c] = "ready"
  /\ \/ own[c] \in announced /\ Go(c, "log")
     \/ Go(c, "failing")
  /\ UNCHANGED <<files, lock, processes, history, probing, victims, mine, worlds>>

\* The evidence directory must be there; the bootstrap log moves into it,
\* and the host is looked up.
PublishLog(c) ==
  /\ pc[c] = "log"
  /\ IF own[c] \in evidence
     THEN /\ bootLog' = bootLog \ {c}
          /\ Probe(c, own[c], "identify")
     ELSE Go(c, "failing") /\ UNCHANGED <<bootLog, goal, then>>
  /\ UNCHANGED <<files, lock, processes, history, found, signal, victims,
                 cmd, own, robot, seen, live, todo, report, given, worlds>>

\* resolve, then the registered framework, world and digest.
Identify(c) ==
  /\ pc[c] = "identify"
  /\ \/ found[c] = "live" /\ Go(c, "verify")
     \/ Go(c, "failing")
  /\ UNCHANGED <<files, lock, processes, history, probing, victims, mine, worlds>>

\* The authoritative state must be ready and paused.  start then detaches
\* from its host; run keeps it until its robot is attached.
Verify(c) ==
  /\ pc[c] = "verify"
  /\ \/ /\ Verified(own[c]) /\ ReadyAndPaused(own[c])
        /\ Go(c, IF cmd[c] = "start" THEN "done" ELSE "connect")
        /\ own' = IF cmd[c] = "start" THEN Detached(c) ELSE own
        /\ UNCHANGED then
     \/ Go(c, "failing") /\ UNCHANGED <<own, then>>
  /\ UNCHANGED <<files, lock, processes, history, goal, found, signal, victims,
                 cmd, robot, bootLog, seen, live, todo, report, given, worlds>>

(***************************************************************************)
(* connect_world.                                                          *)
(***************************************************************************)
\* The world resolved, its bootstrap verified, the train compatible.
Connect(c) ==
  /\ pc[c] = "connect"
  /\ \/ found[c] = "live" /\ Verified(goal[c]) /\ Go(c, "robot")
     \/ Go(c, "failing")
  /\ UNCHANGED <<files, lock, processes, history, probing, victims, mine, worlds>>

\* Build and launch the execution without its drivers.
LaunchRobot(c) ==
  /\ pc[c] = "robot"
  /\ \/ Go(c, "attach") /\ robot' = [robot EXCEPT ![c] = "live"]
     \/ Go(c, "failing") /\ UNCHANGED robot
  /\ UNCHANGED <<files, lock, processes, history, probing, victims,
                 cmd, own, bootLog, seen, live, todo, report, given, worlds>>

\* The host accepts the member, whether its answer arrives or not.
Attach(c) ==
  /\ pc[c] = "attach"
  /\ \/ /\ host[goal[c]] = "serving"
        /\ members' = [members EXCEPT ![goal[c]] = @ \cup {c}]
        /\ Go(c, "active") \/ Go(c, "failing")
     \/ Go(c, "failing") /\ UNCHANGED members
  /\ UNCHANGED <<files, lock, processes, history, probing, victims, mine,
                 announced, motion, memberEnd>>

\* The member became active: the commit releases the host.
AwaitActive(c) ==
  /\ pc[c] = "active"
  /\ \/ /\ c \in members[goal[c]] /\ host[goal[c]] = "serving"
        /\ own' = Detached(c)
        /\ Go(c, "drive")
     \/ Go(c, "failing") /\ UNCHANGED own
  /\ UNCHANGED <<files, lock, processes, history, probing, victims,
                 cmd, robot, bootLog, seen, live, todo, report, given, worlds>>

\* Detach, or drive the session until its supervisor ends.
Drive(c) ==
  /\ pc[c] = "drive"
  /\ \/ Go(c, "done")
     \/ robot[c] = "ended" /\ Go(c, "ending")
  /\ UNCHANGED <<files, lock, processes, history, probing, victims, mine, worlds>>

(***************************************************************************)
(* await_connected_simulation_ending: which of the two ended?              *)
(***************************************************************************)
Ending(c) ==
  /\ pc[c] = "ending"
  /\ \/ /\ summary[goal[c]] # None
        /\ report' = [report EXCEPT ![c] = summary[goal[c]]]
        /\ \E exit \in Exits(summary[goal[c]]) : Go(c, exit)
        /\ UNCHANGED <<goal, then>>
     \/ /\ summary[goal[c]] = None
        /\ Probe(c, goal[c], "looked")
        /\ UNCHANGED report
     \/ Go(c, "failed") /\ UNCHANGED <<goal, then, report>>
  /\ UNCHANGED <<files, lock, processes, history, found, signal, victims,
                 cmd, own, robot, bootLog, seen, live, todo, given, worlds>>

Looked(c) ==
  /\ pc[c] = "looked"
  /\ \/ /\ found[c] = "live" /\ MemberTerminal(c) # None
        /\ Go(c, "settle") /\ UNCHANGED then
     \/ /\ found[c] = "live" /\ MemberTerminal(c) = None
        /\ Go(c, "ending") /\ UNCHANGED then
     \/ /\ found[c] # "live"
        /\ Probe(c, goal[c], "recover")
  /\ UNCHANGED <<files, lock, processes, history, found, signal, victims, mine, worlds>>
               /\ UNCHANGED goal

\* Mutant: the member's evidence alone decides.
SettleOnEvidence(c) ==
  /\ pc[c] = "settle"
  /\ Go(c, "done")
  /\ report' = [report EXCEPT ![c] = "member"]
  /\ UNCHANGED <<files, lock, processes, history, probing, victims,
                 cmd, own, robot, bootLog, seen, live, todo, given, worlds>>

\* "A held registration alone cannot prove this was member-only."
Settle(c) ==
  /\ pc[c] = "settle"
  /\ \/ /\ host[goal[c]] = "serving" /\ c \notin members[goal[c]]
        /\ \E exit \in Exits("member") : Go(c, exit)
        /\ report' = [report EXCEPT ![c] = "member"]
     \/ Go(c, "ending") /\ UNCHANGED report
  /\ UNCHANGED <<files, lock, processes, history, probing, victims,
                 cmd, own, robot, bootLog, seen, live, todo, given, worlds>>

(***************************************************************************)
(* stop_world, load_status, control_world.                                 *)
(***************************************************************************)
StopWorld(c) ==
  /\ pc[c] = "stop"
  /\ \/ /\ found[c] = "live" /\ host[goal[c]] \in {"serving", "stopping"}
        /\ host' = [host EXCEPT ![goal[c]] = "stopping"]
        /\ Go(c, "poll")
     \/ Go(c, "failed") /\ UNCHANGED host
  /\ UNCHANGED <<files, lock, native, history, probing, victims, mine, worlds>>

Poll(c) ==
  /\ pc[c] = "poll"
  /\ \/ Probe(c, goal[c], "polled")
     \/ Go(c, "failed") /\ UNCHANGED <<goal, then>>
  /\ UNCHANGED <<files, lock, processes, history, found, signal, victims, mine, worlds>>

Polled(c) ==
  /\ pc[c] = "polled"
  /\ \/ found[c] = "live" /\ Go(c, "poll") /\ UNCHANGED <<goal, then, report>>
     \/ /\ found[c] # "live" /\ summary[goal[c]] # None
        /\ report' = [report EXCEPT ![c] = summary[goal[c]]]
        /\ \E exit \in Exits(summary[goal[c]]) : Go(c, exit)
        /\ UNCHANGED <<goal, then>>
     \/ /\ found[c] # "live" /\ summary[goal[c]] = None
        /\ Probe(c, goal[c], "recover")
        /\ UNCHANGED report
  /\ UNCHANGED <<files, lock, processes, history, found, signal, victims,
                 cmd, own, robot, bootLog, seen, live, todo, given, worlds>>

\* A live world answers for itself; another one is recovered.
Show(c) ==
  /\ pc[c] = "show"
  /\ IF found[c] = "live"
     THEN (Go(c, "done") \/ Go(c, "failed")) /\ UNCHANGED <<goal, then>>
     ELSE Probe(c, goal[c], "recover")
  /\ UNCHANGED <<files, lock, processes, history, found, signal, victims, mine, worlds>>

Control(c) ==
  /\ pc[c] = "control"
  /\ \/ /\ found[c] = "live" /\ Verified(goal[c])
        /\ motion' = motion \cup {goal[c]}
        /\ Go(c, "done")
     \/ Go(c, "failed") /\ UNCHANGED motion
  /\ UNCHANGED <<files, lock, processes, history, probing, victims, mine,
                 announced, members, memberEnd>>

(***************************************************************************)
(* Failing: the transaction rolls its robot back, then its host.           *)
(***************************************************************************)
\* Mutant: a failed connection rolls back only its own robot.
RollBackRobotOnly(c) ==
  /\ pc[c] = "failing"
  /\ \/ /\ cmd[c] = "list" /\ then[c] = "recover"
        /\ Go(c, "finalise")
        /\ UNCHANGED <<robot, bootLog, report>>
     \/ /\ ~(cmd[c] = "list" /\ then[c] = "recover")
        /\ bootLog' = bootLog \ {c}
        /\ robot' = [robot EXCEPT ![c] = IF @ = "live" THEN "ended" ELSE @]
        /\ Go(c, "failed")
        /\ UNCHANGED report
  /\ UNCHANGED <<files, lock, processes, history, probing, victims,
                 cmd, own, seen, live, todo, given, worlds>>

\* A robot that cannot be stopped is reported, and the host still goes.
RollBack(c) ==
  /\ pc[c] = "failing"
  /\ \/ /\ cmd[c] = "list" /\ then[c] = "recover"
        /\ Go(c, "finalise")
        /\ UNCHANGED <<robot, bootLog, report>>
     \/ /\ ~(cmd[c] = "list" /\ then[c] = "recover")
        /\ bootLog' = bootLog \ {c}
        /\ \/ /\ robot' = [robot EXCEPT ![c] = IF @ = "live" THEN "ended" ELSE @]
              /\ UNCHANGED report
           \/ /\ robot[c] = "live"
              /\ report' = [report EXCEPT ![c] = "unclean"]
              /\ UNCHANGED robot
        /\ Go(c, IF own[c] = None THEN "failed" ELSE "terminate")
  /\ UNCHANGED <<files, lock, processes, history, probing, victims,
                 cmd, own, seen, live, todo, given, worlds>>

\* stop_process_group: SIGTERM, which a host answers by stopping ...
Terminate(c) ==
  LET w == own[c] IN
  /\ pc[c] = "terminate"
  /\ \/ /\ host[w] \in {"booting", "persisted", "serving"}
        /\ \E next \in {host[w], IF host[w] = "serving" THEN "stopping" ELSE "exiting"} :
             host' = [host EXCEPT ![w] = next]
     \/ host[w] \notin {"booting", "persisted", "serving"} /\ UNCHANGED host
  /\ Go(c, "wait")
  /\ UNCHANGED <<files, lock, native, history, probing, victims, mine, worlds>>

\* process_group_alive: a process that has ended is reaped by its own parent.
OwnHostAlive(c) == HostRuns(own[c])

\* ... then SIGKILL, when it is still there after its time.
AwaitHost(c) ==
  /\ pc[c] = "wait"
  /\ IF OwnHostAlive(c)
     THEN Go(c, "kill")
     ELSE Go(c, "failed")
  /\ UNCHANGED <<files, lock, processes, history, probing, victims, mine, worlds>>

KillHost(c) ==
  LET w == own[c] IN
  /\ pc[c] = "kill"
  /\ host' = [host EXCEPT ![w] = IF HostRuns(w) THEN "exiting" ELSE @]
  /\ lock' = [lock EXCEPT ![w] = IF @ = "host" THEN None ELSE @]
  /\ Go(c, "failed")
  /\ UNCHANGED <<files, native, history, probing, victims, mine, worlds>>

\* Killed outright: nothing is dropped in order, only the locks fall.
ClientKilled(c) ==
  LET forget(variable, value) == [variable EXCEPT ![c] = value] IN
  /\ Kills /\ pc[c] \notin {"idle", "failed", "done", "killed"}
  /\ Go(c, "killed")
  /\ lock' = Released(c)
  /\ own' = forget(own, None) /\ goal' = forget(goal, None) /\ then' = forget(then, None)
  /\ found' = forget(found, None) /\ signal' = forget(signal, None)
  /\ victims' = forget(victims, {}) /\ seen' = forget(seen, {})
  /\ live' = forget(live, {}) /\ todo' = forget(todo, {})
  /\ UNCHANGED <<files, processes, history, cmd, robot, bootLog, report, given, worlds>>

CommandStep(c) ==
  \/ GiveListing(c) \/ GiveInstance(c)
  \/ ListOne(c) \/ FinaliseOne(c) \/ Recovered(c)
  \/ PreparationFails(c) \/ SpawnHost(c) \/ AwaitReady(c) \/ PublishLog(c) \/ Identify(c) \/ Verify(c)
  \/ Connect(c) \/ LaunchRobot(c) \/ Attach(c) \/ AwaitActive(c) \/ Drive(c)
  \/ Ending(c) \/ Looked(c) \/ Settle(c)
  \/ StopWorld(c) \/ Poll(c) \/ Polled(c) \/ Show(c) \/ Control(c)
  \/ RollBack(c) \/ Terminate(c) \/ AwaitHost(c) \/ KillHost(c) \/ ClientKilled(c)

Next ==
  \/ \E c \in Client : CommandStep(c) \/ RobotEnds(c) \/ (RegistryStep(c) /\ UNCHANGED <<mine, worlds>>)
  \/ \E w \in World :
       \/ HostPersists(w) /\ UNCHANGED <<mine, worlds>>
       \/ HostRegisters(w) /\ UNCHANGED <<mine, worlds>>
       \/ HostSettles(w)
       \/ HostUnregisters(w) /\ UNCHANGED <<mine, worlds>>
       \/ HostLost(w) /\ UNCHANGED <<mine, worlds>>
       \/ HostReaped(w) /\ UNCHANGED <<mine, worlds>>
       \/ LateSummary(w) /\ UNCHANGED <<mine, worlds>>
       \/ NativeChanges(w) /\ UNCHANGED <<mine, worlds>>
       \/ HostAnnounces(w) \/ HostFails(w)
       \/ \E c \in Client : MemberEnds(w, c)

Spec == Init /\ [][Next]_vars

(***************************************************************************)
(* Properties.                                                             *)
(***************************************************************************)
\* A recovery never signals a process group that is not the one of the
\* checkpoint, even when the group ended and its number was used again
\* between SIGTERM and SIGKILL (process_control.rs:100-127).
NoForeignSignal == wronged = {}

\* A command that fails to start or to connect leaves neither the host it
\* launched nor its execution, unless it says so (start.rs, connect.rs).
RollbackIsWhole ==
  \A c \in Client :
    pc[c] = "failed" =>
      /\ own[c] # None => ~HostRuns(own[c])
      /\ cmd[c] \in {"run", "connect"} /\ robot[c] = "live" => report[c] = "unclean"
      /\ c \notin bootLog

\* What is reported as the end of a member is not the end of its world,
\* although both leave member evidence and, for a while, the registration
\* (connect.rs:338-350).
MemberEndingIsTrue ==
  \A c \in Client : report[c] = "member" => memberEnd[c] = "serving"

\* A registration is removed by its own host, or after that host's process
\* is gone; and only when the outcome has been published or the evidence is
\* not there any more (registry.rs:160-183, recovery.rs:28-81).
RegistrationOutlivesHost ==
  [][\A w \in registration \ registration' :
       /\ host[w] \in {"stopping", "gone"}
       /\ summary[w] # None \/ w \notin evidence]_vars

Phase(w) ==
  CASE w \in pruned -> "forgotten"
    [] w \notin pruned /\ summary[w] # None -> "closed"
    [] w \in evidence \ pruned /\ summary[w] = None -> "open"
    [] OTHER -> "unborn"

Evidence == INSTANCE WorldOutcome WITH
              phase <- [w \in World |-> Phase(w)],
              outcome <- summary,
              Outcome <- {"host", "hostlost"}

\* Whoever writes it, host, adapter or recovery, the outcome of a world is
\* published once and never replaced (recovery.rs:42-47, paths.rs:80-140).
OneOutcome == Evidence!Spec

=============================================================================
