-------------------------- MODULE SessionLifecycle --------------------------
(***************************************************************************)
(* One robot project on one machine, and every phoxal command that starts  *)
(* or ends an execution of it: run, start, simulation connect, stop        *)
(* (cli/src/application/lifecycle.rs, launcher.rs, cli/src/lock.rs).       *)
(*                                                                         *)
(* A command is a client: one operating-system process of the CLI.  What   *)
(* the clients share is on disk (the build lock, the session record, the   *)
(* published release) or in the process table (the supervisor and the      *)
(* runtimes a launch started, which outlive the client).                   *)
(*                                                                         *)
(* A Session is the identity of one launch: the release it publishes, the  *)
(* supervisor it spawns, the runtimes it starts and the record it writes.  *)
(* Session is a finite pool, so a run of TLC sees at most that many        *)
(* launches.                                                               *)
(*                                                                         *)
(* Abstractions: pids are never reused; publishing a release is one step;  *)
(* how a runtime or the supervisor behaves between its start and its end   *)
(* is not modelled, except that it may end at any time.                    *)
(***************************************************************************)
EXTENDS Integers, FiniteSets

CONSTANTS
  Client,       \* CLI processes
  Session,      \* launches; the bound on how many a behaviour may contain
  Participant,  \* the runtimes of the release
  Nothing,      \* no session, no holder, no record
  Garbled,      \* a session record that exists and cannot be parsed
  Killable,     \* the clients that an outside signal may end at any step
  Unkillable    \* whether a process may outlast SIGKILL for a whole grace

\* The commands that take the project through a launch, and the one that ends
\* a recorded session.
Launches == {"run", "start", "connect"}
Commands == Launches \cup {"stop"}

\* The commands that may drive a dashboard.
Driven == {"run", "connect"}

ASSUME ClientAssumption  == Nothing \notin Client /\ Killable \subseteq Client
ASSUME SessionAssumption == {Nothing, Garbled} \cap Session = {} /\ Nothing # Garbled
ASSUME NothingAssumption == Nothing \notin Commands
ASSUME UnkillableAssumption == Unkillable \in BOOLEAN

VARIABLES
  buildLock,    \* the client holding .phoxal/run/build.lock
  supLock,      \* the session whose supervisor holds the supervisor lock
  record,       \* .phoxal/run/session.json
  bundle,       \* the launch whose release is the published one
  sup,          \* the supervisor process of every launch
  exec,         \* the release whose bundle a supervisor read
  live,         \* the running runtimes of every launch
  started,      \* the runtimes a launch has spawned so far
  mode,         \* native or simulation, per launch
  pc,           \* where a client is in its command
  cmd,          \* the command a client runs
  sess,         \* the launch a client owns, or the one a stop read
  stage,        \* the stop stage a client is in
  confirmed,    \* whether the current stop is the dashboard's own effect
  failed,       \* whether a stage of the current stop left a survivor
  loose         \* history: launches whose client left the handshake while
                \* their supervisor had not taken its lock yet

disk    == <<record, bundle>>
procs   == <<supLock, sup, exec, live, started>>
stopper == <<stage, failed, confirmed>>
vars == <<buildLock, disk, procs, mode, pc, cmd, sess, stopper, loose>>

(***************************************************************************)
(* The two stop orders, and which processes a stage ends.                  *)
(***************************************************************************)
Modes    == {"Native", "Simulation"}

LaunchMode(command) == IF command = "connect" THEN "Simulation" ELSE "Native"

\* Mutant: every stop takes the native order.
StopModeNative(c) == "Native"

\* The order a client stops in: `stop` always takes the native one.
StopMode(c) == LaunchMode(cmd[c])

EndsRuntimes(m, i) == (m = "Native") <=> (i = 1)

SupGone(s)      == sup[s] \in {"none", "staged", "dead"}
RuntimesGone(s) == live[s] = {}
Gone(s)         == SupGone(s) /\ RuntimesGone(s)

StageGone(c) ==
  IF EndsRuntimes(StopMode(c), stage[c])
  THEN RuntimesGone(sess[c]) ELSE SupGone(sess[c])

(***************************************************************************)
(* Where a client can be.                                                  *)
(***************************************************************************)
Prelaunch == {"recordGate", "publish"}
Launching == {"spawn", "handshake", "launch", "write", "writing"}
Attached  == {"attach", "ready", "driving"}
Stopping  == {"grace", "killed", "consume"}
PCs == {"idle", "probe", "lock", "recheck", "gate"}
         \cup Prelaunch \cup Launching \cup Attached \cup Stopping

\* The ProjectLock lives from its acquisition to the end of the command.
Holds(c) == /\ cmd[c] # "stop"
            /\ pc[c] \notin {"idle", "probe", "lock"}

Answering == \E s \in Session : sup[s] = "answering"

\* Something listens at the endpoint that does not answer for an execution yet:
\* a probe may find it absent, or fail with what it found.
Opening == \E s \in Session : sup[s] = "locked"

TypeOK ==
  /\ buildLock \in Client \cup {Nothing}
  /\ supLock \in Session \cup {Nothing}
  /\ record \in Session \cup {Nothing, Garbled}
  /\ bundle \in Session \cup {Nothing}
  /\ sup \in [Session -> {"none", "staged", "spawned", "locked", "answering", "dead"}]
  /\ exec \in [Session -> Session \cup {Nothing}]
  /\ live \in [Session -> SUBSET Participant]
  /\ started \in [Session -> SUBSET Participant]
  /\ mode \in [Session -> Modes]
  /\ pc \in [Client -> PCs]
  /\ cmd \in [Client -> Commands \cup {Nothing}]
  /\ sess \in [Client -> Session \cup {Nothing}]
  /\ stage \in [Client -> {1, 2}]
  /\ failed \in [Client -> BOOLEAN]
  /\ confirmed \in [Client -> BOOLEAN]
  /\ loose \subseteq Session

Init ==
  /\ buildLock = Nothing
  /\ supLock = Nothing
  /\ record = Nothing
  /\ bundle = Nothing
  /\ sup = [s \in Session |-> "none"]
  /\ exec = [s \in Session |-> Nothing]
  /\ live = [s \in Session |-> {}]
  /\ started = [s \in Session |-> {}]
  /\ mode = [s \in Session |-> "Native"]
  /\ pc = [c \in Client |-> "idle"]
  /\ cmd = [c \in Client |-> Nothing]
  /\ sess = [c \in Client |-> Nothing]
  /\ stage = [c \in Client |-> 1]
  /\ failed = [c \in Client |-> FALSE]
  /\ confirmed = [c \in Client |-> FALSE]
  /\ loose = {}

Goto(c, from, to) == pc[c] = from /\ pc' = [pc EXCEPT ![c] = to]

\* The command returns: its own state goes with it, and so does the
\* ProjectLock it may hold.
Exit(c) ==
  /\ pc' = [pc EXCEPT ![c] = "idle"]
  /\ cmd' = [cmd EXCEPT ![c] = Nothing]
  /\ sess' = [sess EXCEPT ![c] = Nothing]
  /\ stage' = [stage EXCEPT ![c] = 1]
  /\ failed' = [failed EXCEPT ![c] = FALSE]
  /\ confirmed' = [confirmed EXCEPT ![c] = FALSE]
  /\ buildLock' = IF buildLock = c THEN Nothing ELSE buildLock

\* Whoever leaves the handshake of s leaves s loose if it is not locked yet.
LeavesHandshake(s) ==
  loose' = IF sup[s] = "spawned" THEN loose \cup {s} ELSE loose

(***************************************************************************)
(* The road from a project to a running robot.                             *)
(***************************************************************************)
Begin(c) ==
  /\ Goto(c, "idle", "probe")
  /\ \E k \in Launches : cmd' = [cmd EXCEPT ![c] = k]
  /\ UNCHANGED <<buildLock, disk, procs, mode, sess, stopper, loose>>

\* refuse_if_live before the lock: it is only the friendly message.
Probe(c) ==
  /\ ~Answering
  /\ Goto(c, "probe", "lock")
  /\ UNCHANGED <<buildLock, disk, procs, mode, cmd, sess, stopper, loose>>

\* Every refusal on the way ends the command without touching the project.
Refusal(c) ==
  \/ pc[c] \in {"probe", "recheck"} /\ (Answering \/ Opening)
  \/ pc[c] = "lock" /\ buildLock # Nothing
  \/ pc[c] = "gate" /\ supLock # Nothing
  \/ pc[c] = "recordGate" /\ record # Nothing

Refuse(c) ==
  /\ Refusal(c)
  /\ Exit(c)
  /\ UNCHANGED <<disk, procs, mode, loose>>

\* Mutant: the advisory lock does not exclude.
AcquireLockShared(c) ==
  /\ Goto(c, "lock", "recheck")
  /\ buildLock' = c
  /\ UNCHANGED <<disk, procs, mode, cmd, sess, stopper, loose>>

AcquireLock(c) ==
  /\ buildLock = Nothing
  /\ Goto(c, "lock", "recheck")
  /\ buildLock' = c
  /\ UNCHANGED <<disk, procs, mode, cmd, sess, stopper, loose>>

Recheck(c) ==
  /\ ~Answering
  /\ Goto(c, "recheck", "gate")
  /\ UNCHANGED <<buildLock, disk, procs, mode, cmd, sess, stopper, loose>>

\* Mutant: an answered handshake is the only evidence of a live execution.
GateOpen(c) ==
  /\ Goto(c, "gate", "recordGate")
  /\ UNCHANGED <<buildLock, disk, procs, mode, cmd, sess, stopper, loose>>

\* refuse_while_execution_is_live: the supervisor lock is the authority.
Gate(c) ==
  /\ supLock = Nothing
  /\ Goto(c, "gate", "recordGate")
  /\ UNCHANGED <<buildLock, disk, procs, mode, cmd, sess, stopper, loose>>

\* Mutant: a launch overwrites what record it finds.
RecordGateOpen(c) ==
  /\ Goto(c, "recordGate", "publish")
  /\ UNCHANGED <<buildLock, disk, procs, mode, cmd, sess, stopper, loose>>

\* refuse_unconsumed_session_record: the file's existence, not its content.
RecordGate(c) ==
  /\ record = Nothing
  /\ Goto(c, "recordGate", "publish")
  /\ UNCHANGED <<buildLock, disk, procs, mode, cmd, sess, stopper, loose>>

\* prepare_run replaces the project's release by the one just built.
Publish(c) ==
  /\ Goto(c, "publish", "spawn")
  /\ \E s \in Session :
       /\ sup[s] = "none"
       /\ sup' = [sup EXCEPT ![s] = "staged"]
       /\ bundle' = s
       /\ sess' = [sess EXCEPT ![c] = s]
       /\ mode' = [mode EXCEPT ![s] = LaunchMode(cmd[c])]
  /\ UNCHANGED <<buildLock, record, supLock, exec, live, started, cmd, stopper, loose>>

Spawn(c) ==
  /\ Goto(c, "spawn", "handshake")
  /\ sup' = [sup EXCEPT ![sess[c]] = "spawned"]
  /\ UNCHANGED <<buildLock, disk, supLock, exec, live, started, mode, cmd, sess,
                 stopper, loose>>

\* await_supervisor asks the endpoint, which any supervisor may answer.
Handshake(c) ==
  /\ Answering
  /\ Goto(c, "handshake", "launch")
  /\ LeavesHandshake(sess[c])
  /\ UNCHANGED <<buildLock, disk, procs, mode, cmd, sess, stopper>>

\* launcher::launch, one spawn_one at a time.
LaunchOne(c) ==
  /\ pc[c] = "launch"
  /\ \E p \in Participant \ started[sess[c]] :
       /\ started' = [started EXCEPT ![sess[c]] = @ \cup {p}]
       /\ live' = [live EXCEPT ![sess[c]] = @ \cup {p}]
  /\ UNCHANGED <<buildLock, disk, supLock, sup, exec, mode, pc, cmd, sess, stopper,
                 loose>>

AllLaunched(c) ==
  /\ Goto(c, "launch", "write")
  /\ started[sess[c]] = Participant
  /\ UNCHANGED <<buildLock, disk, procs, mode, cmd, sess, stopper, loose>>

\* std::fs::write creates or truncates the file, then fills that inode: a
\* removal in between leaves nothing at the path.
OpenRecord(c) ==
  /\ Goto(c, "write", "writing")
  /\ record' = Garbled
  /\ UNCHANGED <<buildLock, bundle, procs, mode, cmd, sess, stopper, loose>>

FillRecord(c) ==
  /\ Goto(c, "writing", "attach")
  /\ record' = IF record = Garbled THEN sess[c] ELSE record
  /\ UNCHANGED <<buildLock, bundle, procs, mode, cmd, sess, stopper, loose>>

Attach(c) ==
  /\ Goto(c, "attach", "ready")
  /\ UNCHANGED <<buildLock, disk, procs, mode, cmd, sess, stopper, loose>>

\* A build that fails, a supervisor that exits, answers wrongly or stays
\* silent for the whole budget, a runtime that cannot be spawned (abandon
\* only sends SIGTERM), a record that cannot be written, an attachment that
\* cannot be opened: each `?` returns and leaves every process as it is.
GiveUp(c) ==
  /\ pc[c] \in {"publish", "spawn", "handshake", "launch", "write", "writing", "attach"}
  /\ IF pc[c] = "handshake" THEN LeavesHandshake(sess[c]) ELSE UNCHANGED loose
  /\ Exit(c)
  /\ UNCHANGED <<disk, procs, mode>>

\* The graph is up, or the world member is active.  `run` drives the dashboard,
\* `start` detaches and returns, `simulation connect` does what it was told.
Ready(c) ==
  /\ pc[c] = "ready"
  /\ \/ /\ cmd[c] \in Driven
        /\ Goto(c, "ready", "driving")
        /\ UNCHANGED <<buildLock, cmd, sess, stopper>>
     \/ cmd[c] # "run" /\ Exit(c)
  /\ UNCHANGED <<disk, procs, mode, loose>>

Detach(c) ==
  /\ pc[c] = "driving"
  /\ Exit(c)
  /\ UNCHANGED <<disk, procs, mode, loose>>

(***************************************************************************)
(* Ending a session.                                                       *)
(***************************************************************************)
\* The first stage has been sent its SIGTERM.
BeginStop(c, effect) ==
  /\ pc' = [pc EXCEPT ![c] = "grace"]
  /\ stage' = [stage EXCEPT ![c] = 1]
  /\ failed' = [failed EXCEPT ![c] = FALSE]
  /\ confirmed' = [confirmed EXCEPT ![c] = effect]

\* The graph never came up, or the connect transaction rolled back.
NotReady(c) ==
  /\ pc[c] = "ready"
  /\ BeginStop(c, FALSE)
  /\ UNCHANGED <<buildLock, disk, procs, mode, cmd, sess, loose>>

\* The operator confirms a stop (the effect), or the dashboard ends in any way
\* but a detach and drive_launched_session ends what is left.
EndSession(c) ==
  /\ pc[c] = "driving"
  /\ \E effect \in BOOLEAN : BeginStop(c, effect)
  /\ UNCHANGED <<buildLock, disk, procs, mode, cmd, sess, loose>>

\* Mutant: a stop takes whatever it finds for a record.
StopAnything(c) ==
  /\ pc[c] = "idle"
  /\ record # Nothing
  /\ cmd' = [cmd EXCEPT ![c] = "stop"]
  /\ sess' = [sess EXCEPT ![c] = record]
  /\ BeginStop(c, FALSE)
  /\ UNCHANGED <<buildLock, disk, procs, mode, loose>>

\* `phoxal stop` from any terminal: no lock is taken, and a record that is
\* missing or unreadable ends the command at once.
Stop(c) ==
  /\ pc[c] = "idle"
  /\ record \in Session
  /\ cmd' = [cmd EXCEPT ![c] = "stop"]
  /\ sess' = [sess EXCEPT ![c] = record]
  /\ BeginStop(c, FALSE)
  /\ UNCHANGED <<buildLock, disk, procs, mode, loose>>

\* Mutant: a stop waits for its SIGTERM to be obeyed.
EscalateNever(c) ==
  /\ Goto(c, "grace", "killed")
  /\ Gone(sess[c])
  /\ UNCHANGED <<buildLock, disk, procs, mode, cmd, sess, stopper, loose>>

Escalate(c) ==
  /\ Goto(c, "grace", "killed")
  /\ ~StageGone(c)
  /\ UNCHANGED <<buildLock, disk, procs, mode, cmd, sess, stopper, loose>>

\* A stage ends when its processes are gone, or when one outlasts SIGKILL.
StageEnds(c) ==
  /\ pc[c] \in {"grace", "killed"}
  /\ StageGone(c) \/ (Unkillable /\ pc[c] = "killed")

\* The second stage follows whatever the first one came to.
FirstStageEnds(c) ==
  /\ StageEnds(c)
  /\ stage[c] = 1
  /\ failed' = [failed EXCEPT ![c] = ~StageGone(c)]
  /\ stage' = [stage EXCEPT ![c] = 2]
  /\ pc' = [pc EXCEPT ![c] = "grace"]
  /\ UNCHANGED <<buildLock, disk, procs, mode, cmd, sess, confirmed, loose>>

\* Mutant: only the last stage decides whether the record is consumed.
StopCompleteLastStage(c) ==
  /\ StageEnds(c)
  /\ stage[c] = 2
  /\ StageGone(c)
  /\ pc' = [pc EXCEPT ![c] = "consume"]
  /\ UNCHANGED <<buildLock, disk, procs, mode, cmd, sess, stopper, loose>>

StopComplete(c) ==
  /\ StageEnds(c)
  /\ stage[c] = 2
  /\ StageGone(c) /\ ~failed[c]
  /\ pc' = [pc EXCEPT ![c] = "consume"]
  /\ UNCHANGED <<buildLock, disk, procs, mode, cmd, sess, stopper, loose>>

\* The record is retained for a retry.  The dashboard stays up after its own
\* effect failed; every other stop ends its command.
StopIncomplete(c) ==
  /\ StageEnds(c)
  /\ stage[c] = 2
  /\ ~StageGone(c) \/ failed[c]
  /\ IF confirmed[c]
     THEN pc' = [pc EXCEPT ![c] = "driving"] /\ UNCHANGED <<buildLock, cmd, sess, stopper>>
     ELSE Exit(c)
  /\ UNCHANGED <<disk, procs, mode, loose>>

\* SessionRecord::remove unlinks the path, whatever record is there now.  A
\* dashboard whose effect did this then ends, and stops the session again
\* unless its operator detached in the meantime.
Consume(c) ==
  /\ pc[c] = "consume"
  /\ record' = Nothing
  /\ \/ Exit(c)
     \/ confirmed[c] /\ BeginStop(c, FALSE) /\ UNCHANGED <<buildLock, cmd, sess>>
  /\ UNCHANGED <<bundle, procs, mode, loose>>

\* A client that has installed no handler dies of a hangup or a SIGTERM, and
\* any client dies of SIGKILL.  The kernel drops its lock; its children stay.
ClientKilled(c) ==
  /\ c \in Killable
  /\ pc[c] # "idle"
  /\ IF pc[c] = "handshake" THEN LeavesHandshake(sess[c]) ELSE UNCHANGED loose
  /\ Exit(c)
  /\ UNCHANGED <<disk, procs, mode>>

(***************************************************************************)
(* The processes of a launch, as far as the CLI can tell.                  *)
(***************************************************************************)
\* The supervisor takes its lock before it reads the bundle.
TakeSupLock(s) ==
  /\ sup[s] = "spawned"
  /\ supLock = Nothing
  /\ supLock' = s
  /\ sup' = [sup EXCEPT ![s] = "locked"]
  /\ exec' = [exec EXCEPT ![s] = bundle]
  /\ UNCHANGED <<buildLock, disk, live, started, mode, pc, cmd, sess, stopper, loose>>

Answer(s) ==
  /\ sup[s] = "locked"
  /\ sup' = [sup EXCEPT ![s] = "answering"]
  /\ UNCHANGED <<buildLock, disk, supLock, exec, live, started, mode, pc, cmd, sess,
                 stopper, loose>>

\* However it ends, the kernel releases the lock it held.
SupExits(s) ==
  /\ ~SupGone(s)
  /\ sup' = [sup EXCEPT ![s] = "dead"]
  /\ supLock' = IF supLock = s THEN Nothing ELSE supLock
  /\ UNCHANGED <<buildLock, disk, exec, live, started, mode, pc, cmd, sess, stopper, loose>>

RuntimeExits(s) ==
  /\ \E p \in live[s] : live' = [live EXCEPT ![s] = @ \ {p}]
  /\ UNCHANGED <<buildLock, disk, supLock, sup, exec, started, mode, pc, cmd, sess,
                 stopper, loose>>

ClientStep(c) ==
  \/ Begin(c) \/ Probe(c) \/ Refuse(c) \/ AcquireLock(c) \/ Recheck(c) \/ Gate(c)
  \/ RecordGate(c) \/ Publish(c) \/ Spawn(c) \/ Handshake(c) \/ LaunchOne(c)
  \/ AllLaunched(c) \/ OpenRecord(c) \/ FillRecord(c) \/ Attach(c) \/ GiveUp(c)
  \/ Ready(c) \/ Detach(c) \/ NotReady(c) \/ EndSession(c) \/ Stop(c)
  \/ Escalate(c) \/ FirstStageEnds(c) \/ StopComplete(c) \/ StopIncomplete(c)
  \/ Consume(c) \/ ClientKilled(c)

ProcessStep(s) ==
  TakeSupLock(s) \/ Answer(s) \/ SupExits(s) \/ RuntimeExits(s)

Next == \/ \E c \in Client : ClientStep(c)
        \/ \E s \in Session : ProcessStep(s)

Spec == Init /\ [][Next]_vars

\* What the operating system and the client's own loop guarantee: a client
\* that is stopping keeps going, and a process sent SIGKILL ends.
Doomed(s, supervisor) ==
  \E c \in Client : /\ pc[c] = "killed" /\ sess[c] = s
                    /\ supervisor = ~EndsRuntimes(StopMode(c), stage[c])

StopStep(c) == \/ Escalate(c) \/ FirstStageEnds(c) \/ StopComplete(c)
               \/ StopIncomplete(c) \/ Consume(c)

Fairness ==
  /\ \A c \in Client : WF_vars(StopStep(c))
  /\ \A s \in Session : /\ WF_vars(Doomed(s, TRUE) /\ SupExits(s))
                        /\ WF_vars(Doomed(s, FALSE) /\ RuntimeExits(s))

FairSpec == Spec /\ Fairness

(***************************************************************************)
(* Safety.                                                                 *)
(***************************************************************************)
\* At most one command is between its lock and its end, however commands
\* interleave, give up or die (lock.rs, ProjectLock).
LockDiscipline ==
  \A c \in Client : Holds(c) <=> buildLock = c

\* No launch starts a process while the record of an earlier one, readable or
\* not, is still the only handle on what may survive of it
\* (refuse_unconsumed_session_record).
NoLaunchOverRecord ==
  \A c \in Client :
    pc[c] \in {"publish", "spawn", "handshake", "launch", "write"} => record = Nothing

\* A record is only ever replaced by nothing, or completed by the client that
\* is writing it: ownership of a session is never overwritten.
RecordNeverOverwritten ==
  [][record' # record => \/ record' = Nothing
                         \/ record = Nothing
                         \/ /\ record = Garbled
                            /\ \E c \in Client : /\ pc[c] = "writing"
                                                 /\ record' = sess[c]]_vars

\* The published release is never replaced under a supervisor whose launch saw
\* it through the handshake, whatever became of that launch since
\* (refuse_while_execution_is_live under the build lock).
NeverPublishedUnderfoot ==
  [][bundle' # bundle =>
       \A s \in Session \ loose : sup[s] \notin {"locked", "answering"}]_vars

\* A supervisor executes the bundle of the release it was spawned from.
OneRelease ==
  \A s \in Session \ loose : sup[s] \in {"locked", "answering"} => exec[s] = s

\* A stop consumes a record only once every process of the session it stopped
\* is gone, in both orders and after a failed first stage.
StoppedSessionIsGone ==
  \A c \in Client : pc[c] = "consume" => Gone(sess[c])

\* The owner of a simulation execution never signals a runtime while the
\* supervisor that owns the Removing handshake still runs, unless it could not
\* be killed (stop_order).
OwnerStopsSimulationSupervisorFirst ==
  \A c \in Client :
    /\ cmd[c] = "connect" /\ pc[c] \in {"grace", "killed"}
    /\ EndsRuntimes(StopMode(c), stage[c])
    => SupGone(sess[c]) \/ failed[c]

(***************************************************************************)
(* The strengthening under which the safety properties are inductive.      *)
(***************************************************************************)
\* What a client's place says about its own state.
ControlOK ==
  \A c \in Client :
    /\ pc[c] = "idle" <=> cmd[c] = Nothing
    /\ cmd[c] = "stop" => pc[c] \in Stopping
    /\ pc[c] = "driving" \/ confirmed[c] => cmd[c] \in Driven
    /\ pc[c] \in Launching \cup Attached \cup Stopping => sess[c] \in Session
    /\ pc[c] = "consume" => stage[c] = 2 /\ ~failed[c]

\* A supervisor holds the lock exactly while it is past it.
SupLockOK ==
  \A s \in Session : sup[s] \in {"locked", "answering"} <=> supLock = s

\* A launch not used yet is nowhere.
FreshOK ==
  \A s \in Session : sup[s] = "none" =>
    record # s /\ \A c \in Client : sess[c] # s

\* What a launch knows about its own release and supervisor.
LaunchOK ==
  \A c \in Client :
    /\ pc[c] \in {"recordGate", "publish", "spawn"} => supLock \in loose \cup {Nothing}
    /\ pc[c] \in {"spawn", "handshake"} => bundle = sess[c]
    /\ pc[c] = "spawn" => sup[sess[c]] = "staged"

\* A supervisor on its way to the lock is still being waited for, or is loose.
SpawnedOK ==
  \A s \in Session : sup[s] = "spawned" =>
    s \in loose \/ \E c \in Client : pc[c] = "handshake" /\ sess[c] = s

\* No client stops, and no record names, a session that is still launching.
StopsAreLate ==
  \A c \in Client : pc[c] \in Launching =>
    /\ record # sess[c]
    /\ \A d \in Client : pc[d] \in Stopping => sess[d] # sess[c]

\* A stage that succeeded leaves its processes gone for good.
StageOneGone ==
  \A c \in Client : pc[c] \in Stopping /\ stage[c] = 2 /\ ~failed[c] =>
    IF StopMode(c) = "Native" THEN RuntimesGone(sess[c]) ELSE SupGone(sess[c])

IInv ==
  /\ TypeOK
  /\ ControlOK /\ LockDiscipline
  /\ SupLockOK /\ FreshOK /\ NoLaunchOverRecord
  /\ LaunchOK /\ SpawnedOK /\ OneRelease
  /\ StopsAreLate /\ StageOneGone /\ StoppedSessionIsGone

(***************************************************************************)
(* Liveness.                                                               *)
(***************************************************************************)
\* When SIGKILL works and nobody kills the stopping client, what it stops ends.
StopEndsSession ==
  \A s \in Session : (\E c \in Client : pc[c] \in Stopping /\ sess[c] = s) ~> Gone(s)

=============================================================================
