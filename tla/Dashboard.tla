----------------------------- MODULE Dashboard -----------------------------
(***************************************************************************)
(* The dashboard as a function: the model of the terminal application and  *)
(* its reducer (crates/ui/src/app/update.rs, model.rs, route.rs), and the  *)
(* mailbox between the channel and the reducer (subscriptions.rs).  They   *)
(* have no state of their own here; SessionDrive runs them.                *)
(*                                                                         *)
(* Abstractions: which entry of a page is marked is left out, so a key     *)
(* that acts on the marked entry may act on any.  The pages other than the *)
(* runtimes are one: the log page is in LogFeed and the input page in      *)
(* ManualInput.  An attachment has one epoch, so the epoch is known or not.*)
(* A query of the runtimes is the participant it asks for, or All.         *)
(***************************************************************************)
EXTENDS Naturals, SequencesExt

CONSTANTS
  None,
  All,            \* the query without a participant
  Participants    \* the runtimes of the execution

Queries == Participants \cup {All}
Modals  == {"none", "help", "confirm-stop"}
Exits   == {"detached", "stopped", "ended"}

\* SessionInput: what the reducer is told.
Message ==
  [kind : {"epoch", "connected", "lost", "changed", "stopped", "stop-failed",
           "supervisor-stopped", "supervisor-failed", "interrupt", "terminate"}]
    \cup [kind : {"processes"}, table : SUBSET Participants]
    \cup [kind : {"reply"}, query : Queries]

ASSUME NoneAssumption ==
  /\ None \notin Queries /\ None \notin Exits
  /\ \A table \in SUBSET Participants : table # None
  /\ \A msg \in Message : msg # None

NewModel(stoppable) ==
  [epoch |-> FALSE, stoppable |-> stoppable, stopRequested |-> FALSE, exit |-> None,
   connection |-> None, processes |-> {}, modal |-> "none", page |-> "others",
   focus |-> "tabs", panel |-> None, candidate |-> None, detail |-> All,
   owed |-> FALSE, asked |-> None, rows |-> All, effects |-> <<>>]

Emit(m, effect) == [m EXCEPT !.effects = Append(@, effect)]

(***************************************************************************)
(* The window of runtime rows.                                             *)
(***************************************************************************)
IssueRuntimesIfIdle(m) ==
  IF m.epoch /\ m.asked = None /\ m.owed
  THEN Emit([m EXCEPT !.owed = FALSE, !.asked = m.detail], [kind |-> "read", query |-> m.detail])
  ELSE m

RefreshRuntimes(m) == IssueRuntimesIfIdle([m EXCEPT !.owed = TRUE])

\* invalidate_runtimes: an announcement of the store.
InvalidateRuntimes(m) == IF m.epoch THEN RefreshRuntimes(m) ELSE m

AcceptRuntimes(m, query) ==
  IF m.asked = None THEN m
  ELSE IssueRuntimesIfIdle([m EXCEPT !.rows = query, !.asked = None])

\* preserve_process_candidate, and the refresh when it cleared the detail.
PreserveCandidate(m, table) ==
  LET cleared == m.detail # All /\ m.detail \notin table
      kept == [m EXCEPT !.processes = table,
                !.candidate = IF @ \in table THEN @
                              ELSE IF table = {} THEN None ELSE CHOOSE p \in table : TRUE,
                !.detail = IF cleared THEN All ELSE @]
  IN IF cleared THEN RefreshRuntimes(kept) ELSE kept

(***************************************************************************)
(* Leaving and stopping.                                                   *)
(***************************************************************************)
Detaching(m) == [m EXCEPT !.exit = "detached"]

CloseModal(m) == [m EXCEPT !.modal = "none"]

\* The modal that is open closes, another one is replaced.
OpenModal(m, id) == [m EXCEPT !.modal = IF @ = id THEN "none" ELSE id]

RequestStop(m) ==
  IF ~ m.stoppable \/ m.stopRequested THEN CloseModal(m)
  ELSE Emit([CloseModal(m) EXCEPT !.stopRequested = TRUE], [kind |-> "stop"])

Interrupt(m) ==
  IF m.modal = "confirm-stop" THEN RequestStop(m) ELSE OpenModal(m, "confirm-stop")

\* Mutant: a loss ends the session even if the operator stopped it.
LoseUnconditionally(m) ==
  [m EXCEPT !.connection = "lost", !.exit = IF @ = None THEN "ended" ELSE @]

\* A loss ends the session when nothing better explains the ending.
Lose(m) ==
  [m EXCEPT !.connection = "lost",
            !.exit = IF @ = None /\ ~ m.stopRequested THEN "ended" ELSE @]

\* owned_supervisor_ends_the_session: the reason it has replaces a loss without one.
SupervisorExited(m, as) ==
  IF m.stopRequested \/ m.exit \notin {None, "ended"} THEN m ELSE [m EXCEPT !.exit = as]

(***************************************************************************)
(* Keys.                                                                   *)
(***************************************************************************)
EnterPage(m, page) ==
  LET there == [m EXCEPT !.detail = All, !.page = page, !.focus = "panels", !.panel = None]
  IN IF page = "runtimes" THEN RefreshRuntimes(there) ELSE there

\* handle_runtimes_key: Enter shows the marked process, l goes to its logs.
RuntimesKey(m, key) ==
  IF m.panel # "processes" THEN m
  ELSE CASE key = "enter" ->
              RefreshRuntimes([m EXCEPT !.panel = "performance",
                                !.detail = IF m.candidate = None THEN All ELSE m.candidate])
         [] key = "l" /\ m.candidate # None -> [m EXCEPT !.page = "others", !.panel = None]
         [] key = "mark" -> [m EXCEPT !.candidate = IF m.processes = {} THEN None
                                ELSE CHOOSE p \in m.processes : p # @ \/ m.processes = {p}]
         [] OTHER -> m

ModalKey(m, key) ==
  CASE key = "help" -> OpenModal(m, "help")
    [] key = "esc" -> CloseModal(m)
    [] key = "enter" /\ m.modal = "confirm-stop" -> RequestStop(m)
    [] key = "quit" /\ m.modal = "confirm-stop" -> Detaching(CloseModal(m))
    [] OTHER -> m

EscapeContent(m) ==
  LET up == [m EXCEPT !.focus = "panels"]
  IN IF m.page = "runtimes" THEN RefreshRuntimes([up EXCEPT !.detail = All]) ELSE up

\* Enter on a tab or on a panel, and what goes down to the content.
RouteKey(m, key) ==
  CASE key = "esc" -> IF m.focus = "content" THEN EscapeContent(m)
                      ELSE [m EXCEPT !.focus = "tabs"]
    [] key = "enter-processes" /\ m.focus = "panels" /\ m.page = "runtimes" ->
         [m EXCEPT !.focus = "content", !.panel = "processes"]
    [] key = "enter-performance" /\ m.focus = "panels" /\ m.page = "runtimes" ->
         [m EXCEPT !.focus = "content", !.panel = "performance"]
    [] m.focus = "content" /\ m.page = "runtimes" -> RuntimesKey(m, key)
    [] OTHER -> m

Keys == {"ctrl-c", "help", "stop", "quit", "runtimes", "others", "enter", "enter-processes",
         "enter-performance", "esc", "l", "mark"}

HandleKey(m, key) ==
  CASE key = "ctrl-c" -> Interrupt(m)
    [] key # "ctrl-c" /\ m.modal # "none" -> ModalKey(m, key)
    [] OTHER ->
         CASE key = "help" -> OpenModal(m, "help")
           [] key = "stop" -> OpenModal(m, "confirm-stop")
           [] key = "quit" -> Detaching(m)
           [] key \in {"runtimes", "others"} -> EnterPage(m, key)
           [] OTHER -> RouteKey(m, key)

(***************************************************************************)
(* update: one message through the reducer.                                *)
(***************************************************************************)
ResetQueries(m) == [m EXCEPT !.rows = All, !.owed = FALSE, !.asked = None]

\* update_client: the events of the attachment.
ClientEvents == {"epoch", "connected", "lost", "processes", "changed"}

UpdateClient(m, msg) ==
  CASE msg.kind = "epoch"     -> ResetQueries([m EXCEPT !.epoch = TRUE])
    [] msg.kind = "connected" -> [m EXCEPT !.connection = "connected"]
    [] msg.kind = "lost"      -> Lose(m)
    [] msg.kind = "processes" -> IF m.epoch THEN PreserveCandidate(m, msg.table) ELSE m
    [] msg.kind = "changed"   -> InvalidateRuntimes(m)

Update(m, msg) ==
  CASE msg.kind \in ClientEvents -> UpdateClient(m, msg)
    [] msg.kind = "reply"       -> AcceptRuntimes(m, msg.query)
    [] msg.kind = "stopped"     -> [m EXCEPT !.exit = "stopped"]
    [] msg.kind = "stop-failed" -> [m EXCEPT !.stopRequested = FALSE]
    [] msg.kind = "supervisor-stopped" -> SupervisorExited(m, "stopped")
    [] msg.kind = "supervisor-failed"  -> SupervisorExited(m, "ended")
    [] msg.kind = "interrupt"   -> Interrupt(m)
    [] msg.kind = "terminate"   -> Detaching(m)

(***************************************************************************)
(* PendingInputs: one slot for each kind of input, in the order in which   *)
(* they are drained, then the controls.  Inputs of an execution pass only  *)
(* once its epoch was pushed.                                              *)
(***************************************************************************)
Slots == <<"connection", "processes", "changed", "reply", "completion", "supervisor">>

SlotOf(msg) ==
  CASE msg.kind \in {"connected", "lost"} -> "connection"
    [] msg.kind \in {"processes", "changed", "reply"} -> msg.kind
    [] msg.kind \in {"stopped", "stop-failed"} -> "completion"
    [] msg.kind \in {"supervisor-stopped", "supervisor-failed"} -> "supervisor"

EmptySlots == [s \in ToSet(Slots) |-> None]
NewMailbox == [epoch |-> FALSE, epochPending |-> FALSE, slots |-> EmptySlots, controls |-> <<>>]

Stamped(msg) == msg.kind \in {"processes", "changed", "reply"}

\* Signals are kept in order, one termination at most.  That only the newest 256
\* are kept is left out.
PushControl(box, msg) ==
  IF msg.kind = "terminate" /\ Contains(box.controls, msg) THEN box
  ELSE [box EXCEPT !.controls = Append(@, msg)]

Push(box, msg) ==
  CASE msg.kind = "epoch" ->
         [box EXCEPT !.epoch = TRUE, !.epochPending = TRUE,
                     !.slots = [EmptySlots EXCEPT !["connection"] = box.slots["connection"]]]
    [] msg.kind \in {"interrupt", "terminate"} -> PushControl(box, msg)
    [] OTHER -> IF Stamped(msg) /\ ~ box.epoch THEN box
                ELSE [box EXCEPT !.slots[SlotOf(msg)] = msg]

\* All inputs of a pass go through the mailbox.
Pushed(box, inputs) ==
  LET after[k \in 0..Len(inputs)] ==
        IF k = 0 THEN box ELSE Push(after[k - 1], inputs[k])
  IN  after[Len(inputs)]

\* What drain hands to the reducer, in its order; a slot that is empty is None.
Drained(box) ==
  (IF box.epochPending THEN <<[kind |-> "epoch"]>> ELSE <<>>)
    \o [k \in DOMAIN Slots |-> box.slots[Slots[k]]] \o box.controls

Take(m, msg) == IF msg = None THEN m ELSE Update(m, msg)

Reduced(m, msgs) ==
  LET after[k \in 0..Len(msgs)] ==
        IF k = 0 THEN m ELSE Take(after[k - 1], msgs[k])
  IN  after[Len(msgs)]

\* One pass of the loop: the inputs that have arrived go through the mailbox and
\* then through the reducer.
Dispatch(m, box, inputs) ==
  LET full == Pushed(box, inputs)
  IN [model |-> Reduced(m, Drained(full)), epoch |-> full.epoch]
=============================================================================
