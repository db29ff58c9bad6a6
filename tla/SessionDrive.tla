---------------------------- MODULE SessionDrive ----------------------------
(***************************************************************************)
(* A session driven through the dashboard, for the client that launched it *)
(* and for one that attached to it (cli/src/application/session.rs drive,  *)
(* lifecycle.rs drive_launched_session, attach_command): the terminal      *)
(* application in a thread of its own, the select loop between the         *)
(* attachment and the application, the effect tasks, the watcher of the    *)
(* owned supervisor, and the stop of what a session that is over left      *)
(* behind.                                                                 *)
(*                                                                         *)
(* Abstractions: the runtimes are one process group and stop in the native *)
(* order (SessionLifecycle has the groups, the orders and the record); the *)
(* store of runtime rows is its pending announcement; the snapshot is the  *)
(* set of present runtimes.  Diagnostics, the input effects and a task     *)
(* that panics are left out, and so is an event stream that ends without a *)
(* loss, which the snapshot feed announces first.                          *)
(***************************************************************************)
EXTENDS Dashboard, Naturals

CONSTANTS
  MaxInputs,        \* bound: keys pressed and signals received
  Presses,          \* bound: the keys that are pressed
  MaxChanges,       \* bound: changes of the snapshot and telemetry records
  IngressCapacity,  \* UI_INGRESS_CAPACITY
  EventCapacity     \* capacity of the attachment's event channel

ASSUME BoundsAssumption ==
  /\ {MaxInputs, MaxChanges} \subseteq Nat
  /\ {IngressCapacity, EventCapacity} \subseteq Nat \ {0}
  /\ Presses \subseteq Keys
ASSUME NoResultAssumption == None \notin {"ui-failed", "stop-failed"}

VARIABLES
  ui,           \* the model of the application
  thread,       \* the terminal loop: not started, collect, keys, returned
  known,        \* the mailbox knows the epoch
  ingress,      \* channel: drive -> application
  guaranteed,   \* channel: application -> drive, unbounded
  drive,        \* [at, hold]: the select loop (select, send, leaving, cleanup,
                \* done) and a message that waits for room
  stops,        \* confirmed stop tasks: the stage each is at (runtimes, supervisor,
                \* report) and whether one failed
  reading,      \* the query of the read task, or None
  events,       \* channel: attachment feeds -> drive
  feed,         \* [at, table]: the snapshot feed (borrow, send, ended)
  announced,    \* an announcement of the store of rows is out
  watcher,      \* the watcher of the owned supervisor, and its one message
  session,      \* what runs: [supervisor, runtimes, table]
  result,       \* what drive_launched_session returns: detached, stopped, ended,
                \* ui failed, stop failed
  history,      \* [alone, failed]: the supervisor ended by itself, a stop failed
  used          \* counters of the bounds

actors == <<ui, thread, known, ingress, guaranteed, drive, stops, reading>>
attachment == <<events, feed, announced, watcher>>
driveVars == <<ui, thread, known, ingress, guaranteed, drive, stops, reading,
          events, feed, announced, watcher, session, result, history, used>>

\* SessionOwnership: the session this client launched, and the exit of its
\* supervisor; an attachment owns neither, and the application cannot stop it.
Own(owned) ==
  /\ ui = NewModel(owned)
  /\ watcher = IF owned THEN "armed" ELSE "dropped"

Owned == ui.stoppable

DriveInit ==
  /\ thread = "not-started"
  /\ known = FALSE
  /\ ingress = <<>> /\ guaranteed = <<>>
  /\ drive = [at |-> "select", hold |-> None]
  /\ stops = <<>> /\ reading = None
  /\ events = <<[kind |-> "epoch"], [kind |-> "connected"]>>
  /\ feed = [at |-> "borrow", table |-> None]
  /\ announced = FALSE
  /\ session = [supervisor |-> TRUE, runtimes |-> TRUE, table |-> Participants]
  /\ result = None
  /\ history = [alone |-> FALSE, failed |-> FALSE]
  /\ used = [inputs |-> 0, changes |-> 0]

LaunchedInit == DriveInit /\ Own(TRUE)

(***************************************************************************)
(* The application's thread.                                               *)
(***************************************************************************)
\* A pass that emitted effects hands them to the router; all that are modelled
\* are guaranteed.
Becomes(m) ==
  /\ ui' = [m EXCEPT !.effects = <<>>]
  /\ guaranteed' = guaranteed \o m.effects

\* Mutant: the opening batch goes around the mailbox.
OpenUiAround ==
  /\ thread = "not-started"
  /\ Becomes(Reduced(ui, events))
  /\ known' = FALSE
  /\ events' = <<>>
  /\ thread' = "collect"
  /\ UNCHANGED <<ingress, drive, stops, reading, feed, announced, watcher, session, result, history, used>>

\* What the attachment has queued is taken, and applied through the mailbox.
OpenUi ==
  /\ thread = "not-started"
  /\ LET pass == Dispatch(ui, NewMailbox, events) IN
       /\ Becomes(pass.model)
       /\ known' = pass.epoch
  /\ events' = <<>>
  /\ thread' = "collect"
  /\ UNCHANGED <<ingress, drive, stops, reading, feed, announced, watcher, session, result, history, used>>

\* There is no terminal, or it fails.
UiFails ==
  /\ thread \in {"not-started", "keys"}
  /\ thread' = "returned"
  /\ ui' = NewModel(Owned)
  /\ UNCHANGED <<known, ingress, guaranteed, drive, stops, reading, attachment, session, result, history, used>>

\* Collect what has arrived, dispatch it, render, and leave if there is an exit,
\* which is all that remains of the model.
Pass ==
  /\ thread = "collect"
  /\ LET pass == Dispatch(ui, [NewMailbox EXCEPT !.epoch = known], ingress)
         leave == pass.model.exit # None
     IN
       /\ Becomes(IF leave THEN [NewModel(Owned) EXCEPT !.exit = pass.model.exit,
                                                        !.effects = pass.model.effects]
                  ELSE pass.model)
       /\ known' = pass.epoch
       /\ thread' = IF leave THEN "returned" ELSE "keys"
  /\ ingress' = <<>>
  /\ UNCHANGED <<drive, stops, reading, attachment, session, result, history, used>>

\* One of the keys of a tick.
PressKey(key) ==
  /\ thread = "keys" /\ used.inputs < MaxInputs
  /\ Becomes(HandleKey(ui, key))
  /\ used' = [used EXCEPT !.inputs = @ + 1]
  /\ UNCHANGED <<thread, known, ingress, drive, stops, reading, attachment, session, result, history>>

TickEnds ==
  /\ thread = "keys"
  /\ thread' = "collect"
  /\ UNCHANGED <<ui, known, ingress, guaranteed, drive, stops, reading, attachment, session, result, history, used>>

(***************************************************************************)
(* drive: the select loop.                                                 *)
(***************************************************************************)
Room == Len(ingress) < IngressCapacity

\* send_input: it waits for room, and fails once the application is gone.
SendInput(message) ==
  \/ /\ thread = "returned"
     /\ drive' = [at |-> "leaving", hold |-> None]
     /\ UNCHANGED ingress
  \/ /\ thread # "returned" /\ Room
     /\ ingress' = Append(ingress, message)
     /\ drive' = [at |-> "select", hold |-> None]
  \/ /\ thread # "returned" /\ ~ Room
     /\ drive' = [at |-> "send", hold |-> message]
     /\ UNCHANGED ingress

Selecting == drive.at = "select" /\ thread # "not-started"

ReceiveSignal(kind) ==
  /\ Selecting /\ used.inputs < MaxInputs
  /\ SendInput([kind |-> kind])
  /\ used' = [used EXCEPT !.inputs = @ + 1]
  /\ UNCHANGED <<ui, thread, known, guaranteed, stops, reading, attachment, session, result, history>>

ReceiveEvent ==
  /\ Selecting /\ events # <<>>
  /\ SendInput(Head(events))
  /\ events' = Tail(events)
  /\ UNCHANGED <<ui, thread, known, guaranteed, stops, reading, feed, announced, watcher, session, result, history, used>>

ReceiveSupervisorExit ==
  /\ Selecting /\ watcher \in {"supervisor-stopped", "supervisor-failed"}
  /\ SendInput([kind |-> watcher])
  /\ watcher' = "dropped"
  /\ UNCHANGED <<ui, thread, known, guaranteed, stops, reading, events, feed, announced, session, result, history, used>>

HeldInput ==
  /\ drive.at = "send" /\ (Room \/ thread = "returned")
  /\ SendInput(drive.hold)
  /\ UNCHANGED <<ui, thread, known, guaranteed, stops, reading, attachment, session, result, history, used>>

\* A confirmed stop takes over the reaping: the watcher is not heard any more.
RouteStop ==
  /\ Selecting /\ guaranteed # <<>> /\ Head(guaranteed).kind = "stop"
  /\ guaranteed' = Tail(guaranteed)
  /\ watcher' = "dropped"
  /\ stops' = Append(stops, [stage |-> "runtimes", failed |-> FALSE])
  /\ UNCHANGED <<ui, thread, known, ingress, drive, reading, events, feed, announced, session, result, history, used>>

RouteRead ==
  /\ Selecting /\ guaranteed # <<>> /\ Head(guaranteed).kind = "read"
  /\ guaranteed' = Tail(guaranteed)
  /\ reading' = Head(guaranteed).query
  /\ UNCHANGED <<ui, thread, known, ingress, drive, stops, attachment, session, result, history, used>>

UiReturned ==
  /\ Selecting /\ thread = "returned"
  /\ drive' = [at |-> "leaving", hold |-> None]
  /\ UNCHANGED <<ui, thread, known, ingress, guaranteed, stops, reading, attachment, session, result, history, used>>

(***************************************************************************)
(* Effect tasks.                                                           *)
(***************************************************************************)
\* RuntimeReader::read answers, and the answer is sent.
AnswerRead ==
  /\ reading # None /\ Room
  /\ ingress' = IF thread = "returned" THEN ingress
                ELSE Append(ingress, [kind |-> "reply", query |-> reading])
  /\ reading' = None
  /\ announced' = FALSE
  /\ UNCHANGED <<ui, thread, known, guaranteed, drive, stops, events, feed, watcher, session, result, history, used>>

\* terminate: the group of the stage is gone, or survives SIGKILL.  Whatever it
\* finds, the stop goes on to the next stage.
Terminates(stage, gone) ==
  /\ session' = [session EXCEPT ![stage] = @ /\ ~ gone]
  /\ session[stage] \/ gone

StopStage(k) ==
  /\ stops[k].stage # "report"
  /\ \E gone \in BOOLEAN :
       /\ Terminates(stops[k].stage, gone)
       /\ stops' = [stops EXCEPT ![k] = [failed |-> @.failed \/ ~ gone,
            stage |-> IF @.stage = "runtimes" THEN "supervisor" ELSE "report"]]
       /\ history' = [history EXCEPT !.failed = @ \/ ~ gone]
  /\ UNCHANGED <<ui, thread, known, ingress, guaranteed, drive, reading, attachment, result, used>>

\* Mutant: the completion is dropped when the channel is full.
ReportStopIfRoom(k) ==
  /\ stops[k].stage = "report"
  /\ ingress' = IF thread = "returned" \/ ~ Room THEN ingress
                ELSE Append(ingress, [kind |-> IF stops[k].failed THEN "stop-failed" ELSE "stopped"])
  /\ stops' = RemoveAt(stops, k)
  /\ UNCHANGED <<ui, thread, known, guaranteed, drive, reading, attachment, session, result, history, used>>

\* stop_session_completion: the answer waits for room.
ReportStop(k) ==
  /\ stops[k].stage = "report" /\ (Room \/ thread = "returned")
  /\ ingress' = IF thread = "returned" THEN ingress
                ELSE Append(ingress, [kind |-> IF stops[k].failed THEN "stop-failed" ELSE "stopped"])
  /\ stops' = RemoveAt(stops, k)
  /\ UNCHANGED <<ui, thread, known, guaranteed, drive, reading, attachment, session, result, history, used>>

(***************************************************************************)
(* Leaving: stops that were routed finish, reads do not; what is queued    *)
(* and not routed is dropped.  Then what a session that is over left       *)
(* running is stopped by its owner.                                        *)
(***************************************************************************)
Outcome == IF ui.exit = None THEN "ui-failed" ELSE ui.exit

Leave ==
  /\ drive.at = "leaving" /\ stops = <<>>
  /\ IF Outcome = "detached" \/ ~Owned
     THEN drive' = [drive EXCEPT !.at = "done"] /\ result' = Outcome
     ELSE drive' = [drive EXCEPT !.at = "cleanup"] /\ UNCHANGED result
  /\ guaranteed' = <<>> /\ reading' = None
  /\ events' = <<>> /\ ingress' = <<>>
  /\ watcher' = "dropped"
  /\ UNCHANGED <<ui, thread, known, stops, feed, announced, session, history, used>>

Cleanup ==
  /\ drive.at = "cleanup"
  /\ \E down \in BOOLEAN :
       /\ session' = IF down THEN [session EXCEPT !.runtimes = FALSE, !.supervisor = FALSE] ELSE session
       /\ result' = IF down THEN Outcome ELSE "stop-failed"
  /\ drive' = [drive EXCEPT !.at = "done"]
  /\ UNCHANGED <<ui, thread, known, ingress, guaranteed, stops, reading, attachment, history, used>>

(***************************************************************************)
(* The attachment and what it observes.                                    *)
(***************************************************************************)
EventRoom == Len(events) < EventCapacity
AttachmentOpen == drive.at \in {"select", "send"}

\* The supervisor ends without this client: by itself, or stopped from elsewhere.
SupervisorEnds ==
  /\ session.supervisor
  /\ session' = [session EXCEPT !.supervisor = FALSE]
  /\ history' = [history EXCEPT !.alone = TRUE]
  /\ UNCHANGED <<actors, attachment, result, used>>

SnapshotChanges ==
  /\ AttachmentOpen /\ session.supervisor /\ used.changes < MaxChanges
  /\ \E table \in SUBSET Participants \ {session.table} : session' = [session EXCEPT !.table = table]
  /\ used' = [used EXCEPT !.changes = @ + 1]
  /\ UNCHANGED <<actors, attachment, result, history>>

\* watch_owned: the poll finds it gone, whoever ended it.
WatcherReports ==
  /\ AttachmentOpen /\ watcher = "armed" /\ ~ session.supervisor
  /\ \E exit \in {"supervisor-stopped", "supervisor-failed"} : watcher' = exit
  /\ UNCHANGED <<actors, events, feed, announced, session, result, history, used>>

\* borrow_and_update: the feed takes the newest snapshot, if it has another.
BorrowSnapshot ==
  /\ AttachmentOpen /\ feed.at = "borrow" /\ feed.table # session.table
  /\ feed' = [at |-> "send", table |-> session.table]
  /\ UNCHANGED <<actors, events, announced, watcher, session, result, history, used>>

PublishSnapshot ==
  /\ AttachmentOpen /\ feed.at = "send" /\ EventRoom
  /\ events' = Append(events, [kind |-> "processes", table |-> feed.table])
  /\ feed' = [feed EXCEPT !.at = "borrow"]
  /\ UNCHANGED <<actors, announced, watcher, session, result, history, used>>

AnnounceLost ==
  /\ AttachmentOpen /\ feed.at = "borrow" /\ ~ session.supervisor /\ EventRoom
  /\ events' = Append(events, [kind |-> "lost"])
  /\ feed' = [feed EXCEPT !.at = "ended"]
  /\ UNCHANGED <<actors, announced, watcher, session, result, history, used>>

\* The telemetry feed announces what the store says is to be announced.
AnnounceRuntimes ==
  /\ announced \/ EventRoom
  /\ events' = IF announced THEN events ELSE Append(events, [kind |-> "changed"])

\* RuntimeStore::record: to be announced unless an announcement is out.
TelemetryArrives ==
  /\ AttachmentOpen /\ session.supervisor /\ used.changes < MaxChanges
  /\ AnnounceRuntimes
  /\ announced' = TRUE
  /\ used' = [used EXCEPT !.changes = @ + 1]
  /\ UNCHANGED <<actors, feed, watcher, session, result, history>>

ThreadSteps == OpenUi \/ Pass \/ TickEnds
DriveSteps ==
  \/ ReceiveEvent \/ ReceiveSupervisorExit \/ HeldInput \/ RouteStop \/ RouteRead
  \/ UiReturned \/ Leave \/ Cleanup
TaskSteps == AnswerRead \/ \E k \in DOMAIN stops : StopStage(k) \/ ReportStop(k)
FeedSteps == BorrowSnapshot \/ PublishSnapshot \/ AnnounceLost

\* The command has returned.
Returned == drive.at = "done" /\ UNCHANGED driveVars

DriveNext ==
  \/ ThreadSteps \/ UiFails
  \/ \E key \in Presses : PressKey(key)
  \/ DriveSteps
  \/ \E kind \in {"interrupt", "terminate"} : ReceiveSignal(kind)
  \/ TaskSteps \/ FeedSteps \/ WatcherReports
  \/ SupervisorEnds \/ SnapshotChanges \/ TelemetryArrives
  \/ Returned

DriveSpec == LaunchedInit /\ [][DriveNext]_driveVars

(***************************************************************************)
(* Properties.                                                             *)
(***************************************************************************)
\* The ending that is reported is the one that happened: "the execution went
\* away" only if the supervisor ended without this client or a stop failed half
\* way, "stopped" only if the supervisor is down; a command that launched the
\* session and reports anything but a detach or a failure left nothing running;
\* and one that only attached has stopped nothing.
EndingIsItsCause ==
  /\ ui.exit = "ended" => history.alone \/ history.failed
  /\ ui.exit = "stopped" => ~ session.supervisor
  /\ Owned /\ result \in {"stopped", "ended", "ui-failed"} => ~session.supervisor /\ ~session.runtimes
  /\ ~Owned => session.runtimes /\ (session.supervisor \/ history.alone)

\* Once everything published has gone through, the dashboard shows the process table of the
\* newest snapshot; and the rows of the runtimes page are those of its detail unless
\* a read is owed or out.
DashboardIsCurrent ==
  /\ thread \in {"collect", "keys"} /\ events = <<>> /\ ingress = <<>> /\ drive.at = "select"
       /\ feed.at = "borrow" /\ feed.table = session.table
     => ui.processes = session.table
  /\ ui.epoch /\ ui.page = "runtimes" /\ ~ ui.owed /\ ui.asked = None
     => ui.rows = ui.detail

\* A dashboard that waits for a confirmed stop waits for something: the effect
\* is queued, its task runs, or its answer has been sent.  Another confirmation
\* is ignored meanwhile, so a lost answer would leave `q` as the only way out.
StopIsOwedAnAnswer ==
  ui.stopRequested =>
    \/ \E k \in DOMAIN guaranteed : guaranteed[k].kind = "stop"
    \/ stops # <<>>
    \/ \E k \in DOMAIN ingress : ingress[k].kind \in {"stopped", "stop-failed"}

=============================================================================
