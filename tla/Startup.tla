------------------------------- MODULE Startup -------------------------------
(***************************************************************************)
(* The startup that gates the dashboard of a launched execution            *)
(* (cli/src/application/startup.rs, cli/src/cli/output/welcome.rs and      *)
(* diagnostics.rs): the command that prepares, launches, attaches and      *)
(* waits; the checklist it drives; the presenter task that draws the       *)
(* checklist and the diagnostics routed to it; the watcher of Ctrl+C; the  *)
(* watcher of the launched children; and the hand-over of the terminal.    *)
(*                                                                         *)
(* Abstractions: preparing, launching and stopping are one step each       *)
(* (SessionLifecycle and BundleStaging have them in detail); a diagnostic  *)
(* is its level; a line that is drawn is whether it was drawn over the     *)
(* dashboard; the log file of the startup is left out.                     *)
(***************************************************************************)
EXTENDS Naturals, Sequences, SequencesExt

CONSTANTS
  Robot,             \* the runtimes of the bundle
  Drivers,           \* those that are drivers
  Asked,             \* bound: the sets of ids that --driver may name
  DiagnosticRoom,    \* DIAGNOSTIC_CAPACITY
  MaxSnapshots,      \* bound: snapshots published during a startup
  MaxTraces          \* bound: lines traced by the command's other tasks

ASSUME StartupAssumption ==
  /\ Drivers \subseteq Robot
  /\ {MaxSnapshots, MaxTraces} \subseteq Nat /\ DiagnosticRoom \in Nat \ {0}

VARIABLES
  step,          \* where the command is
  launch,        \* [mode, drives]: what it was asked for; its driver options [off,
                 \* asked] until they have been resolved to the runtimes [selected]
  checklist,     \* the state of every step of the checklist
  closed,        \* the checklist has given the terminal back
  presenting,    \* the presenter and the watcher of Ctrl+C: running, aborted, ended
  routed,        \* who takes the diagnostics: nobody, checklist, dashboard
  diagnostics,   \* those that wait for the presenter
  cancelled,     \* Ctrl+C was heard
  snapshot,      \* the newest one: [lifecycle, present], lifecycle none if there is none
  news,          \* it has not been borrowed yet
  facts,         \* what the watcher of the children knows: the launched runtimes
  report,        \* how the command ended, or the error on its way out
  terminal,      \* whose it is: checklist, nobody, dashboard
  scribbled,     \* history: somebody else wrote on the dashboard
  earned,        \* history: a snapshot showed the launch up (LaunchIsUp)
  spent          \* counters of the bounds

presenter   == <<checklist, closed, presenting, routed, diagnostics>>
observed    == <<snapshot, news, facts>>
startupVars == <<step, launch, presenter, cancelled, observed, report, terminal,
                 scribbled, earned, spent>>

(***************************************************************************)
(* The checklist (welcome.rs).                                             *)
(***************************************************************************)
StepOrder == <<"project", "prepare", "supervisor", "runtimes", "attachment">>
Steps == IF launch.mode = "Native" THEN SubSeq(StepOrder, 1, 4) ELSE StepOrder

NewChecklist == [id \in ToSet(Steps) |-> "pending"]

Settled(list, id) == list[id] \in {"done", "failed"}
Running(list, id) == list[id] = "active"

\* A step that is settled stays as it is.
Finish(list, id, state) ==
  IF Settled(list, id) THEN list ELSE [list EXCEPT ![id] = state]

\* A step is finished by the next one starting.
SettleBefore(list, id) ==
  LET before == {StepOrder[i] : i \in {j \in DOMAIN StepOrder :
                   j < CHOOSE k \in DOMAIN StepOrder : StepOrder[k] = id}}
  IN  [s \in DOMAIN list |-> IF s \in before /\ Running(list, s) THEN "done" ELSE list[s]]

BeginStep(list, id) == [SettleBefore(list, id) EXCEPT ![id] = "active"]

Complete(list, id) == Finish(SettleBefore(list, id), id, "done")

FailActive(list) ==
  LET active == SelectSeq(Steps, LAMBDA id : Running(list, id)) IN
  IF active = <<>> THEN list ELSE Finish(list, Head(active), "failed")

\* Every line of the checklist is drawn unless it has been closed.
Draw == scribbled' = (scribbled \/ (~closed /\ terminal = "dashboard"))

\* note: one permanent line that is not a step.
Note == Draw

\* Nothing else may write while a live session owns the terminal: a diagnostic
\* is queued, dropped when the queue is full, and written only without a session.
Route(level) ==
  \/ /\ routed = "checklist"
     /\ diagnostics' = IF Len(diagnostics) < DiagnosticRoom
                       THEN Append(diagnostics, level) ELSE diagnostics
     /\ UNCHANGED scribbled
  \/ /\ routed = "dashboard"
     /\ UNCHANGED <<diagnostics, scribbled>>
  \/ /\ routed = "nobody"
     /\ scribbled' = (scribbled \/ terminal = "dashboard")
     /\ UNCHANGED diagnostics

(***************************************************************************)
(* What a snapshot says of the graph.                                      *)
(***************************************************************************)
NoSnapshot == [lifecycle |-> "none", present |-> {}]

\* GraphSplit: the expected runtimes the supervisor does not see.
Absent(seen) == Robot \ seen.present

\* The supervisor's word that the robot is whole, or as whole as it gets.
GraphIsReady(seen) == seen.lifecycle \in {"Ready", "Degraded"}

\* What an operator waits for is the runtimes this client launched; one that
\* knows of none has only the supervisor's word.
LaunchIsUp(seen, local) == GraphIsReady(seen) \/ (local # {} /\ local \subseteq seen.present)

\* A snapshot only ever advances the runtimes.
Observed(list, seen, local) ==
  LET begun == IF Settled(list, "supervisor") /\ ~Settled(list, "runtimes")
                  /\ ~Running(list, "runtimes")
               THEN BeginStep(list, "runtimes") ELSE list
  IN  IF LaunchIsUp(seen, local) THEN Complete(begun, "runtimes") ELSE begun

(***************************************************************************)
(* Selection (launcher.rs): which of the runtimes are launched.            *)
(***************************************************************************)
\* --drivers off with --driver, or a driver the robot does not declare.
Refused(options) ==
  /\ options.mode = "Native"
  /\ IF options.off THEN options.asked # {} ELSE ~ (options.asked \subseteq Drivers)

Includes(options, runtime) ==
  \/ runtime \notin Drivers
  \/ ~options.off /\ (options.asked = {} \/ runtime \in options.asked)

\* A simulation supplies the components of the robot itself.
ResolveSelection(options) ==
  [options EXCEPT !.off = FALSE, !.asked = {},
     !.selected = IF options.mode = "Simulation" THEN Robot \ Drivers
                  ELSE {runtime \in Robot : Includes(options, runtime)}]

StartupInit ==
  /\ step = "prepare"
  /\ launch \in [mode : {"Native", "Simulation"}, drives : BOOLEAN,
                 off : BOOLEAN, asked : Asked, selected : {{}}]
  /\ launch.mode = "Simulation" => ~launch.off /\ launch.asked = {}
  /\ checklist = NewChecklist
  /\ closed = FALSE /\ presenting = "running"
  /\ routed = "checklist" /\ diagnostics = <<>>
  /\ cancelled = FALSE
  /\ snapshot = NoSnapshot /\ news = FALSE /\ facts = {}
  /\ report = "nothing"
  /\ terminal = "checklist" /\ scribbled = FALSE
  /\ earned = FALSE
  /\ spent = [snapshots |-> 0, traces |-> 0]

(***************************************************************************)
(* The command.                                                            *)
(***************************************************************************)
\* A preparation asks between its phases whether it is cancelled.
EnsureActive == ~cancelled

\* report_cancelled or report_failure: one of them ends the checklist.
ReportEnding(list) == IF cancelled THEN list ELSE FailActive(list)

\* An error on its way out: what was launched is stopped first.
Failing(why) ==
  /\ report' = why
  /\ step' = IF step = "prepare" THEN "failed" ELSE "rollback"

\* PreparationReporter::report: the phases of the preparation.  Only "validate"
\* belongs to the project's step, and only its success completes it.
ReportPhase ==
  /\ step = "prepare" /\ EnsureActive
  /\ \/ /\ checklist["project"] = "pending" /\ checklist["prepare"] = "pending"
        /\ checklist' = BeginStep(checklist, "project")
     \/ /\ Running(checklist, "project")
        /\ checklist' = Complete(checklist, "project")
     \/ /\ checklist["prepare"] = "pending"
        /\ checklist' = BeginStep(checklist, "prepare")
  /\ Draw
  /\ UNCHANGED <<step, launch, closed, presenting, routed, diagnostics, cancelled,
                 observed, report, terminal, earned, spent>>

\* The release is staged and published and the selection resolved against it, or
\* the preparation fails.
PreparationEnds ==
  /\ step = "prepare"
  /\ \/ /\ EnsureActive /\ ~Refused(launch)
        /\ checklist' = BeginStep(Complete(checklist, "prepare"), "supervisor")
        /\ launch' = ResolveSelection(launch)
        /\ step' = "supervisor"
        /\ Draw
        /\ UNCHANGED report
     \/ /\ EnsureActive /\ Refused(launch)
        /\ checklist' = Complete(checklist, "prepare")
        /\ Failing("refused")
        /\ Draw
        /\ UNCHANGED launch
     \/ Failing("not-prepared") /\ UNCHANGED <<launch, checklist, scribbled>>
  /\ UNCHANGED <<closed, presenting, routed, diagnostics, cancelled, observed,
                 terminal, earned, spent>>

\* The supervisor answers, the runtimes are spawned and recorded, the watcher of
\* the children is started, and the client attaches.  Ctrl+C is not looked at.
LaunchAndAttach ==
  /\ step = "supervisor"
  /\ \/ /\ checklist' = Complete(checklist, "supervisor")
        /\ step' = "look"
        /\ Draw
        /\ UNCHANGED report
     \/ /\ report' = "not-launched" /\ step' = "failed"
        /\ UNCHANGED <<checklist, scribbled>>
  /\ UNCHANGED <<launch, closed, presenting, routed, diagnostics, cancelled, observed,
                 terminal, earned, spent>>

\* await_graph: what has been published so far comes before everything else,
\* the interrupt and the deadline included.
Look ==
  /\ step = "look"
  /\ news' = FALSE
  /\ IF snapshot # NoSnapshot
     THEN /\ checklist' = Observed(checklist, snapshot, facts)
          /\ earned' = (earned \/ LaunchIsUp(snapshot, facts))
          /\ step' = IF ~LaunchIsUp(snapshot, facts) THEN "wait"
                     ELSE IF launch.mode = "Native" THEN "ready" ELSE "admit"
          /\ Draw
     ELSE step' = "wait" /\ UNCHANGED <<checklist, earned, scribbled>>
  /\ UNCHANGED <<launch, closed, presenting, routed, diagnostics, cancelled, snapshot,
                 facts, report, terminal, spent>>

\* The budget may run out at any moment; then the message names the absent.
Wait ==
  /\ step = "wait"
  /\ \/ news /\ step' = "look" /\ UNCHANGED report
     \/ cancelled /\ Failing("cancelled")
     \/ Failing("timed-out")
     \/ Failing("attachment-lost")
  /\ UNCHANGED <<launch, presenter, cancelled, observed, terminal, scribbled, earned, spent>>

\* ensure_drivers_absent: only the world host may add the drivers.
Admit ==
  /\ step = "admit"
  /\ \/ /\ snapshot # NoSnapshot /\ snapshot.present \cap Drivers = {}
        /\ checklist' = BeginStep(checklist, "attachment")
        /\ step' = "member"
        /\ Draw
        /\ UNCHANGED report
     \/ Failing("not-admitted") /\ UNCHANGED <<checklist, scribbled>>
  /\ UNCHANGED <<launch, closed, presenting, routed, diagnostics, cancelled, observed,
                 terminal, earned, spent>>

\* The member becomes active, or the wait is interrupted or times out; an answer
\* that is active already is not waited for.
AwaitMember ==
  /\ step = "member"
  /\ \/ /\ checklist' = Complete(checklist, "attachment")
        /\ step' = "ready"
        /\ Draw
        /\ UNCHANGED report
     \/ /\ Failing(IF cancelled THEN "cancelled" ELSE "not-attached")
        /\ UNCHANGED <<checklist, scribbled>>
  /\ UNCHANGED <<launch, closed, presenting, routed, diagnostics, cancelled, observed,
                 terminal, earned, spent>>

\* await_session_ready, the transaction: the launched session is stopped.
RollBackLaunch ==
  /\ step = "rollback"
  /\ step' = "failed"
  /\ UNCHANGED <<launch, presenter, cancelled, observed, report, terminal, scribbled,
                 earned, spent>>

\* Stop the presenter's work and give stderr back.  A task that is aborted ends
\* where it waits next.
Quiesced ==
  /\ routed' = "nobody"
  /\ presenting' = "aborted"

\* ready: the presenter is told to end, then the checklist is closed.
Quiesce ==
  /\ step = "ready"
  /\ Quiesced
  /\ step' = "quiet"
  /\ UNCHANGED <<launch, checklist, closed, diagnostics, cancelled, observed, report,
                 terminal, scribbled, earned, spent>>

\* `start` names what the supervisor does not see; a dashboard shows it.
Started ==
  IF launch.drives THEN "nothing" ELSE
  IF launch.mode = "Native" /\ Absent(snapshot) # {} THEN "started-degraded" ELSE "started"

\* Mutant: the presenter is told to end and the checklist is left open.
HandOverOpen ==
  /\ step = "quiet"
  /\ step' = IF launch.drives THEN "handed-over" ELSE "over"
  /\ closed' = FALSE
  /\ terminal' = "nobody"
  /\ report' = Started
  /\ UNCHANGED <<launch, checklist, presenting, routed, diagnostics, cancelled, observed,
                 scribbled, earned, spent>>

\* Welcome::close; `start` and a detached connection then return.
HandOver ==
  /\ step = "quiet"
  /\ step' = IF launch.drives THEN "handed-over" ELSE "over"
  /\ closed' = TRUE
  /\ terminal' = "nobody"
  /\ report' = Started
  /\ UNCHANGED <<launch, checklist, presenting, routed, diagnostics, cancelled, observed,
                 scribbled, earned, spent>>

\* drive routes the diagnostics to itself before it starts the application.
RouteToDashboard ==
  /\ step = "handed-over" /\ routed = "nobody"
  /\ routed' = "dashboard"
  /\ UNCHANGED <<step, launch, checklist, closed, presenting, diagnostics, cancelled,
                 observed, report, terminal, scribbled, earned, spent>>

TakeTerminal ==
  /\ step = "handed-over" /\ routed = "dashboard" /\ terminal = "nobody"
  /\ terminal' = "dashboard"
  /\ UNCHANGED <<step, launch, presenter, cancelled, observed, report, scribbled, earned, spent>>

\* failed: an interrupt is all that is reported if there was one.
Failed ==
  /\ step = "failed"
  /\ step' = "over"
  /\ Quiesced
  /\ checklist' = ReportEnding(checklist)
  /\ report' = IF cancelled THEN "cancelled" ELSE report
  /\ closed' = TRUE /\ terminal' = "nobody"
  /\ Draw
  /\ UNCHANGED <<launch, diagnostics, cancelled, observed, earned, spent>>

(***************************************************************************)
(* The tasks beside it.                                                    *)
(***************************************************************************)
\* animate: a diagnostic is a line of the checklist if it is a warning, and
\* only recorded if not.
Present ==
  /\ presenting # "ended" /\ diagnostics # <<>>
  /\ diagnostics' = Tail(diagnostics)
  /\ IF Head(diagnostics) = "warn" THEN Note ELSE UNCHANGED scribbled
  /\ presenting' = IF presenting = "aborted" THEN "ended" ELSE presenting
  /\ UNCHANGED <<step, launch, checklist, closed, routed, cancelled, observed, report,
                 terminal, earned, spent>>

\* A task that is aborted is dropped where it waits.
PresenterEnds ==
  /\ presenting = "aborted"
  /\ presenting' = "ended"
  /\ diagnostics' = <<>>
  /\ UNCHANGED <<step, launch, checklist, closed, routed, cancelled, observed, report,
                 terminal, scribbled, earned, spent>>

\* tracing from any task, at any time: a Zenoh warning, a message of a feed.
Trace(level) ==
  /\ step # "over" /\ spent.traces < MaxTraces
  /\ Route(level)
  /\ spent' = [spent EXCEPT !.traces = @ + 1]
  /\ UNCHANGED <<step, launch, checklist, closed, presenting, routed, cancelled, observed,
                 report, terminal, earned>>

\* watch_interrupt, until it is told to end.
Interrupted ==
  /\ presenting = "running" /\ ~cancelled /\ step # "over"
  /\ cancelled' = TRUE
  /\ UNCHANGED <<step, launch, presenter, observed, report, terminal, scribbled, earned, spent>>

\* watch_children: a child that has exited is known too.
WatchChildren ==
  /\ step \in {"look", "wait", "admit", "member"} /\ facts # launch.selected
  /\ facts' = launch.selected
  /\ UNCHANGED <<step, launch, presenter, cancelled, snapshot, news, report, terminal,
                 scribbled, earned, spent>>

\* The supervisor (external) publishes the leases it sees and its lifecycle.
Publishes ==
  /\ step \in {"look", "wait", "admit", "member"} /\ spent.snapshots < MaxSnapshots
  /\ \E lifecycle \in {"Starting", "Ready", "Degraded"}, present \in SUBSET Robot :
       snapshot' = [lifecycle |-> lifecycle, present |-> present]
  /\ news' = TRUE
  /\ spent' = [spent EXCEPT !.snapshots = @ + 1]
  /\ UNCHANGED <<step, launch, presenter, cancelled, facts, report, terminal, scribbled, earned>>

CommandSteps ==
  \/ ReportPhase \/ PreparationEnds \/ LaunchAndAttach \/ Look \/ Wait \/ Admit \/ AwaitMember
  \/ RollBackLaunch \/ Quiesce \/ HandOver \/ RouteToDashboard \/ TakeTerminal \/ Failed

BesideSteps ==
  \/ Present \/ PresenterEnds \/ Interrupted \/ WatchChildren \/ Publishes
  \/ \E level \in {"info", "warn"} : Trace(level)

StartupNext == CommandSteps \/ BesideSteps

StartupSpec == StartupInit /\ [][StartupNext]_startupVars

(***************************************************************************)
(* Properties.                                                             *)
(***************************************************************************)
\* The dashboard is entered after one snapshot showed the launch up by the rule of
\* launch_is_up (startup.rs:352): the supervisor said Ready or Degraded, or it
\* still said Starting and every runtime this client launched, at least one, was
\* present.  The second half is more than the head of startup.rs promises (:10,
\* "only once the supervisor published Ready or Degraded"): under --drivers off a
\* robot that has drivers stays at Starting.  No step of the checklist is left
\* running or failed then, and from then on nobody writes on the dashboard, not
\* the presenter that is still being aborted, nor a line that is traced meanwhile.
HandOverIsClean ==
  /\ step \in {"ready", "quiet", "handed-over"} =>
       /\ earned
       /\ \A id \in DOMAIN checklist : checklist[id] \in {"pending", "done"}
  /\ ~scribbled
=============================================================================
