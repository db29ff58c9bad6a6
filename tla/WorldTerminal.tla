---------------------------- MODULE WorldTerminal ----------------------------
(***************************************************************************)
(* The terminal of a simulation world (crates/ui/src/world.rs and          *)
(* cli/src/application/simulation/terminal.rs): a blocking interface       *)
(* thread, the feeds of the two streams and the router of controls, joined *)
(* by a bounded channel of observations and an unbounded one of controls,  *)
(* beside a world that other clients control too.                          *)
(*                                                                         *)
(* The world session is external: it numbers its states, a subscription    *)
(* delivers later states in order and may skip some, and a control is      *)
(* answered by the state it led to.  Members, progress and the identity    *)
(* that is checked against the registration are left out, so a state is    *)
(* its lifecycle.  Diagnostics are only whether they are available.        *)
(***************************************************************************)
EXTENDS Naturals, SequencesExt

CONSTANTS
  None,
  IngressCapacity,  \* WORLD_UI_INGRESS_CAPACITY
  Opened,           \* bound: the lifecycles of the world it is opened on
  MaxKeys,          \* bound: keys pressed
  MaxOthers,        \* bound: changes that are not this terminal's
  MaxFaults         \* bound: failures of its connections to a world that serves

ASSUME BoundsAssumption ==
  /\ IngressCapacity \in Nat \ {0}
  /\ {MaxKeys, MaxOthers, MaxFaults} \subseteq Nat
  /\ Opened \subseteq {"running", "paused"}

VARIABLES
  history,   \* the lifecycles of the world; the index is the revision
  served,    \* the host still answers
  model,     \* WorldModel
  loop,      \* the interface thread: drain, poll, returned, over
  ingress,   \* channel: feeds and router -> interface
  controls,  \* channel: interface -> router, unbounded
  feed,      \* the state feed: [at, seen, item]; at is recv, send, reconnect,
             \* last or ended
  telling,   \* the diagnostics feed: recv, last, ended
  router,    \* the control router: [at, request, item]; at is idle, asked, send
  used       \* counters of the bounds

tasks == <<feed, telling, router>>
vars == <<history, served, model, loop, ingress, controls, tasks, used>>

Ready == {"running", "paused"}
Lifecycles == Ready \cup {"stopping", "failed"}
Controls == {"pause", "resume", "stop"}
Keys == {"q", "p", "S", "enter", "esc"}

ASSUME NoneAssumption == None \notin Controls \cup {"stopped", "ended"}

State(r) == [kind |-> "state", revision |-> r]
ControlFailed(c) == [kind |-> "control-failed", request |-> c]
Disconnected == [kind |-> "disconnected"]
DiagnosticsUnavailable == [kind |-> "diagnostics-unavailable"]

Revision == Len(history)

(* WorldModel::new; the fields of the drawing are left out. *)
NewModel ==
  [revision |-> 1, diagnostics |-> TRUE, pending |-> None,
   confirming_stop |-> FALSE, stop_acknowledged |-> FALSE, exit |-> None]

Init ==
  /\ history \in {<<l>> : l \in Opened} /\ served = TRUE
  /\ model = NewModel
  /\ loop = "drain"
  /\ ingress = <<>> /\ controls = <<>>
  /\ feed = [at |-> "recv", seen |-> 1, item |-> None]
  /\ telling = "recv"
  /\ router = [at |-> "idle", request |-> None, item |-> None]
  /\ used = [keys |-> 0, others |-> 0, states |-> 0, diagnostics |-> 0, controls |-> 0]

(* A connection fails: the world is gone, or by itself. *)
Spend(connection) ==
  /\ used.states + used.diagnostics + used.controls < MaxFaults
  /\ used' = [used EXCEPT ![connection] = @ + 1]
Fault(connection) == \/ ~served /\ UNCHANGED used
                     \/ served /\ Spend(connection)

-----------------------------------------------------------------------------
(* The world, as long as the terminal is there to see it. *)

Open == loop # "over"

(* What the world makes of a control in lifecycle l, or None: refused. *)
Obey(control, l) ==
  CASE l \in Ready -> [pause |-> "paused", resume |-> "running", stop |-> "stopping"][control]
    [] l = "stopping" /\ control = "stop" -> "stopping"
    [] OTHER -> None

(* Another client controls the world, a robot joins or leaves, or it fails. *)
WorldChanges ==
  /\ Open /\ served /\ used.others < MaxOthers
  /\ \E l \in CASE Last(history) \in Ready -> Lifecycles
                [] Last(history) = "stopping" -> {"stopping", "failed"}
                [] OTHER -> {} :
       history' = Append(history, l)
  /\ used' = [used EXCEPT !.others = @ + 1]
  /\ UNCHANGED <<served, model, loop, ingress, controls, tasks>>

HostGone ==
  /\ Open /\ served /\ served' = FALSE
  /\ UNCHANGED <<history, model, loop, ingress, controls, tasks, used>>

-----------------------------------------------------------------------------
(* The state feed. *)

HasRoom == Len(ingress) < IngressCapacity
(* A send that finds the interface gone ends its task. *)
Received == loop \in {"drain", "poll"}

FeedReceive ==
  /\ Open /\ feed.at = "recv"
  /\ \E r \in feed.seen + 1 .. Revision :
       feed' = [at |-> "send", seen |-> r, item |-> State(r)]
  /\ served
  /\ UNCHANGED <<history, served, model, loop, ingress, controls, telling, router, used>>

\* Mutant: a stream that ends is not reopened.
FeedErrorEnds ==
  /\ Open /\ feed.at = "recv"
  /\ Fault("states")
  /\ feed' = [feed EXCEPT !.at = "last", !.item = Disconnected]
  /\ UNCHANGED <<history, served, model, loop, ingress, controls, telling, router>>

FeedError ==
  /\ Open /\ feed.at = "recv"
  /\ Fault("states")
  /\ feed' = [feed EXCEPT !.at = "reconnect"]
  /\ UNCHANGED <<history, served, model, loop, ingress, controls, telling, router>>

\* Mutant: the reopened stream is trusted to deliver the current state.
ReconnectSilently ==
  /\ Open /\ feed.at = "reconnect"
  /\ \/ /\ served
        /\ feed' = [at |-> "recv", seen |-> Revision, item |-> None]
        /\ UNCHANGED used
     \/ /\ Fault("states")
        /\ feed' = [feed EXCEPT !.at = "last", !.item = Disconnected]
  /\ UNCHANGED <<history, served, model, loop, ingress, controls, telling, router>>

Reconnect ==
  /\ Open /\ feed.at = "reconnect"
  /\ \/ /\ served
        /\ feed' = [at |-> "send", seen |-> Revision, item |-> State(Revision)]
        /\ UNCHANGED used
     \/ /\ Fault("states")
        /\ feed' = [feed EXCEPT !.at = "last", !.item = Disconnected]
  /\ UNCHANGED <<history, served, model, loop, ingress, controls, telling, router>>

\* Mutant: the last word is only tried, and lost when there is no room.
FeedSendUnlessFull ==
  /\ Open /\ feed.at \in {"send", "last"}
  /\ Received /\ feed.at = "send" => HasRoom
  /\ ingress' = IF Received /\ HasRoom THEN Append(ingress, feed.item) ELSE ingress
  /\ feed' = [feed EXCEPT !.item = None,
                          !.at = IF Received /\ feed.at = "send" THEN "recv" ELSE "ended"]
  /\ UNCHANGED <<history, served, model, loop, controls, telling, router, used>>

FeedSend ==
  /\ Open /\ feed.at \in {"send", "last"}
  /\ \/ /\ Received /\ HasRoom
        /\ ingress' = Append(ingress, feed.item)
        /\ feed' = [feed EXCEPT !.item = None,
                                !.at = IF feed.at = "send" THEN "recv" ELSE "ended"]
     \/ /\ ~Received
        /\ feed' = [feed EXCEPT !.item = None, !.at = "ended"]
        /\ UNCHANGED ingress
  /\ UNCHANGED <<history, served, model, loop, controls, telling, router, used>>

-----------------------------------------------------------------------------
(* The diagnostics feed, if there is one.  A reading, or a stream that is
   reopened, changes nothing that is modelled. *)

DiagnosticsLost ==
  /\ Open /\ telling = "recv"
  /\ Fault("diagnostics")
  /\ telling' = "last"
  /\ UNCHANGED <<history, served, model, loop, ingress, controls, feed, router>>

DiagnosticsSend ==
  /\ Open /\ telling = "last"
  /\ \/ Received /\ HasRoom /\ ingress' = Append(ingress, DiagnosticsUnavailable)
     \/ ~Received /\ UNCHANGED ingress
  /\ telling' = "ended"
  /\ UNCHANGED <<history, served, model, loop, controls, feed, router, used>>

-----------------------------------------------------------------------------
(* The router of controls: one request at a time. *)

Route ==
  /\ Open /\ router.at = "idle" /\ controls # <<>>
  /\ router' = [at |-> "asked", request |-> Head(controls), item |-> None]
  /\ controls' = Tail(controls)
  /\ UNCHANGED <<history, served, model, loop, ingress, feed, telling, used>>

(* The world obeys; its answer may be lost. *)
Answer ==
  /\ Open /\ router.at = "asked" /\ served
  /\ LET now == Last(history)
         then == Obey(router.request, now)
     IN /\ then # None
        /\ history' = IF then = now THEN history ELSE Append(history, then)
        /\ \/ /\ router' = [router EXCEPT !.at = "send", !.item = State(Len(history'))]
              /\ UNCHANGED used
           \/ /\ Spend("controls")
              /\ router' = [router EXCEPT !.at = "send", !.item = ControlFailed(router.request)]
  /\ UNCHANGED <<served, model, loop, ingress, controls, feed, telling>>

(* The world refuses, is gone, or the request is lost. *)
Refuse ==
  /\ Open /\ router.at = "asked"
  /\ \/ served /\ Obey(router.request, Last(history)) = None /\ UNCHANGED used
     \/ Fault("controls")
  /\ router' = [router EXCEPT !.at = "send", !.item = ControlFailed(router.request)]
  /\ UNCHANGED <<history, served, model, loop, ingress, controls, feed, telling>>

RouterSend ==
  /\ Open /\ router.at = "send" /\ Received /\ HasRoom
  /\ ingress' = Append(ingress, router.item)
  /\ router' = [at |-> "idle", request |-> None, item |-> None]
  /\ UNCHANGED <<history, served, model, loop, controls, feed, telling, used>>

-----------------------------------------------------------------------------
(* The interface. *)

\* Mutant: the state that answers a resume is not recognised.
CompletedUnlessResume(request, l) ==
  \/ request = "pause" /\ l = "paused"
  \/ request = "stop" /\ l = "stopping"

(* The state that completes a pending request. *)
Completed(request, l) ==
  \/ request = "pause" /\ l = "paused"
  \/ request = "resume" /\ l = "running"
  \/ request = "stop" /\ l = "stopping"

(* Only a state newer than the one shown is applied. *)
ApplyState(m, revision) ==
  LET l == history[revision] IN
  IF revision <= m.revision THEN m
  ELSE [m EXCEPT
         !.pending = IF Completed(@, l) THEN None ELSE @,
         !.exit = IF l = "failed" THEN "ended" ELSE @,
         !.stop_acknowledged = @ \/ l = "stopping",
         !.revision = revision]

Apply(m, input) ==
  CASE input.kind = "state" -> ApplyState(m, input.revision)
    [] input.kind = "diagnostics-unavailable" -> [m EXCEPT !.diagnostics = FALSE]
    [] input.kind = "control-failed" ->
         [m EXCEPT !.pending = IF @ = input.request THEN None ELSE @]
    [] input.kind = "disconnected" ->
         [m EXCEPT !.exit = IF m.stop_acknowledged THEN "stopped" ELSE "ended"]

(* What a key does to the model, and the control it emits. *)
KeyEffect(m, key) ==
  LET l == history[m.revision]
      Plain(next) == [model |-> next, emits |-> <<>>]
      Asked(next, c) == [model |-> [next EXCEPT !.pending = c], emits |-> <<c>>]
  IN CASE key = "q" -> Plain([m EXCEPT !.exit = "detached"])
       [] key # "q" /\ m.confirming_stop ->
            CASE key = "esc" -> Plain([m EXCEPT !.confirming_stop = FALSE])
              [] key = "enter" /\ m.pending = None ->
                   Asked([m EXCEPT !.confirming_stop = FALSE], "stop")
              [] OTHER -> Plain(m)
       [] key = "S" /\ ~m.confirming_stop -> Plain([m EXCEPT !.confirming_stop = TRUE])
       [] key = "p" /\ ~m.confirming_stop /\ m.pending = None /\ l \in Ready ->
            Asked(m, IF l = "running" THEN "pause" ELSE "resume")
       [] OTHER -> Plain(m)

Drain ==
  /\ loop = "drain" /\ ingress # <<>>
  /\ model' = Apply(model, Head(ingress))
  /\ ingress' = Tail(ingress)
  /\ UNCHANGED <<history, served, loop, controls, tasks, used>>

(* The drained thread leaves, or draws and waits for a key. *)
Drained ==
  /\ loop = "drain" /\ ingress = <<>>
  /\ loop' = IF model.exit # None THEN "returned" ELSE "poll"
  /\ UNCHANGED <<history, served, model, ingress, controls, tasks, used>>

(* Nothing is pressed in time, or a key that does nothing. *)
NoKey ==
  /\ loop = "poll" /\ loop' = "drain"
  /\ UNCHANGED <<history, served, model, ingress, controls, tasks, used>>

Key ==
  /\ loop = "poll" /\ used.keys < MaxKeys
  /\ \E key \in Keys :
       LET effect == KeyEffect(model, key) IN
       /\ effect.model # model
       /\ model' = effect.model
       /\ controls' = controls \o effect.emits
  /\ loop' = "drain"
  /\ used' = [used EXCEPT !.keys = @ + 1]
  /\ UNCHANGED <<history, served, ingress, tasks>>

(* open_world_tui aborts the feeds and the router wherever they are. *)
Shutdown ==
  /\ loop = "returned" /\ loop' = "over"
  /\ UNCHANGED <<history, served, model, ingress, controls, tasks, used>>

Over == loop = "over" /\ UNCHANGED vars

Feeds ==
  \/ FeedReceive \/ FeedError \/ Reconnect \/ FeedSend
  \/ DiagnosticsLost \/ DiagnosticsSend
Routing == Route \/ Answer \/ Refuse \/ RouterSend
Interface == Drain \/ Drained \/ NoKey \/ Shutdown
Next == WorldChanges \/ HostGone \/ Feeds \/ Routing \/ Interface \/ Key \/ Over

Spec == Init /\ [][Next]_vars

(* The tasks and the thread are scheduled; a stream whose host is gone ends. *)
FairSpec ==
  /\ Spec
  /\ WF_vars(Drain) /\ WF_vars(Drained) /\ WF_vars(NoKey) /\ WF_vars(Shutdown)
  /\ WF_vars(FeedReceive \/ (FeedError /\ ~served)) /\ WF_vars(Reconnect) /\ WF_vars(FeedSend)

-----------------------------------------------------------------------------
(* Properties. *)

(* Everything on its way to the interface. *)
InFlight == ToSet(ingress) \cup ({feed.item, router.item} \ {None})

(* When nothing is on its way and the subscription has seen the last state,
   the terminal shows that state: neither an answer that overtakes the
   stream (world.rs apply) nor a reopened stream (terminal.rs
   reconnect_state_subscription) leaves an older one standing. *)
ViewIsCurrent ==
  Received /\ feed.at = "recv" /\ feed.seen = Revision /\ InFlight = {}
    => model.revision = Revision

(* A request the terminal waits for is still on its way, or its answer is,
   or a newer state than the one shown exists; otherwise the world has since
   been taken out of the state the request led to by somebody else.  While a
   request is pending the terminal accepts neither p nor the confirmation of
   a stop (world.rs key). *)
PendingIsAnsweredOrUndone ==
  Received /\ model.pending # None =>
    \/ model.pending \in ToSet(controls) \cup {router.request}
    \/ ControlFailed(model.pending) \in InFlight
    \/ model.revision < Revision
    \/ Last(history) \notin Ready
    \/ used.others > 0 /\ ~Completed(model.pending, Last(history))

(* The terminal says that its world stopped or ended only of a world that is
   gone, has failed, or was out of reach twice in a row: neither one broken
   stream nor the loss of diagnostics ends it (terminal.rs spawn_state_feed,
   world.rs test diagnostics_loss_never_ends_the_authoritative_session). *)
OutcomeIsTrue ==
  model.exit \in {"stopped", "ended"} =>
    ~served \/ "failed" \in ToSet(history) \/ used.states >= 2

(* A terminal whose world is gone ends, however full its channel is and
   whatever the router waits for (terminal.rs spawn_state_feed). *)
GoneWorldEndsTheTerminal == ~served ~> loop = "over"
=============================================================================
