---------------------------- MODULE ManualInput ----------------------------
(***************************************************************************)
(* Manual driving from an attached terminal: the gamepad backend           *)
(* (external), the input feed that polls it every tick and publishes       *)
(* commands and stops (cli/src/attach/feeds/input.rs, joypad/mod.rs), the  *)
(* motion feed, which announces on the same channel (feeds/motion.rs), the *)
(* input store, the input page of the dashboard with its requests on their *)
(* way to the feed (crates/ui/src/app/update.rs, application/session.rs),  *)
(* and the end of the attachment (attach/mod.rs).                          *)
(*                                                                         *)
(* Abstractions: a command is "drive" when it moves the robot and "stop"   *)
(* when it does not.  The feed's work between two awaits is atomic except  *)
(* that a poll handles one backend event per step, which nothing else can  *)
(* observe.  A backend that cannot start is one without pads.              *)
(***************************************************************************)
EXTENDS PadRegistry

CONSTANTS
  Fitted,           \* the pads plugged in at the attachment
  PadOrder,         \* the order in which the backend enumerates the pads: gamepads()
  StopRepeatCount,  \* STOP_REPEAT_COUNT
  EventRoom,        \* EVENT_CAPACITY
  EffectRoom,       \* EFFECT_CAPACITY, of the command queue and of the tasks
  InputRoom,        \* INPUT_CAPACITY
  MaxPlugs,         \* bound: pads plugged and unplugged
  MaxKeys,          \* bound: keys on the input page
  MaxFailures       \* bound: publications the bus refuses

ASSUME InputAssumption ==
  /\ Fitted \subseteq Pads /\ None \notin {"drive", "stop"}
  /\ {StopRepeatCount, EventRoom, EffectRoom, InputRoom} \subseteq Nat \ {0}
  /\ {PadOrder[n] : n \in DOMAIN PadOrder} = Pads
  /\ {MaxPlugs, MaxKeys, MaxFailures} \subseteq Nat

VARIABLES
  plugged,    \* the pads that are plugged in
  backend,    \* backend events the client has not read
  reg,        \* the registry
  feed,       \* the input feed task; at is one of start, rescan, idle, poll,
              \* record, send, drive, failed, ended
  stops,      \* pending_stops
  published,  \* the last manual command the bus accepted: "drive", "stop", None
  store,      \* the InputStore's device sample
  motion,     \* the sample the motion feed is about to announce, or None
  events,     \* InputChanged announcements in flight
  page,       \* the dashboard's input page
  commands,   \* effects on the droppable command channel
  tasks,      \* effect tasks, each with one command
  port,       \* commands on the input port
  stage,      \* "open", "closing" (the terminal is gone), "closed"
  count       \* [plugs, keys, failures] so far

hardware == <<plugged, backend>>
driver   == <<reg, feed, stops, published>>
terminal == <<page, commands, tasks>>
vars     == <<hardware, driver, store, motion, events, terminal, port, stage, count>>

Requests == [kind : {"select"}, id : Ids] \cup [kind : {"enable"}, on : BOOLEAN]
              \cup {[kind |-> "rescan"]}

Init ==
  /\ plugged = Fitted /\ backend = <<>>
  /\ reg = EmptyRegistry
  /\ feed = [at |-> "start", todo |-> {}, seen |-> {}, changed |-> FALSE,
             zero |-> FALSE, command |-> None]
  /\ stops = 0 /\ published = None
  /\ store = Sample(EmptyRegistry) /\ motion = None /\ events = <<>>
  /\ page = [shown |-> Sample(EmptyRegistry), fresh |-> TRUE]
  /\ commands = <<>> /\ tasks = {} /\ port = <<>>
  /\ stage = "open"
  /\ count = [plugs |-> 0, keys |-> 0, failures |-> 0]

(***************************************************************************)
(* The hardware.                                                           *)
(***************************************************************************)
Plug(p) ==
  /\ count.plugs < MaxPlugs
  /\ count' = [count EXCEPT !.plugs = @ + 1]
  /\ plugged' = IF p \in plugged THEN plugged \ {p} ELSE plugged \cup {p}
  /\ backend' = Append(backend, <<IF p \in plugged THEN "off" ELSE "on", p>>)
  /\ UNCHANGED <<driver, store, motion, events, terminal, port, stage>>

(***************************************************************************)
(* The input feed.                                                         *)
(***************************************************************************)
Alive == stage # "closed"
At(place) == Alive /\ feed.at = place

\* A publication is accepted or refused by the bus.
Publishes(command, ok) ==
  /\ ok \/ count.failures < MaxFailures
  /\ published' = IF ok THEN command ELSE published
  /\ count' = IF ok THEN count ELSE [count EXCEPT !.failures = @ + 1]

PublishStop(owed, ok) ==
  IF owed = 0 THEN /\ ok /\ stops' = 0 /\ UNCHANGED <<published, count>>
  ELSE /\ Publishes("stop", ok)
       /\ stops' = IF ok THEN owed - 1 ELSE owed

\* Mutant: a stop is sent once, and not again when the bus refuses it.
StopOnceIf(zero, ok) ==
  IF zero THEN Publishes("stop", ok) /\ stops' = 0
  ELSE ok /\ UNCHANGED <<stops, published, count>>

\* queue_stop and one attempt, when a transition asks for it.
StopIf(zero, ok) ==
  IF zero THEN PublishStop(StopRepeatCount, ok)
  ELSE ok /\ UNCHANGED <<stops, published, count>>

\* The publisher cannot be attached, or the backend is opened and enumerated.
Open ==
  /\ At("start")
  /\ \/ /\ feed' = [feed EXCEPT !.at = "rescan", !.todo = plugged]
        /\ UNCHANGED page
     \/ /\ feed' = [feed EXCEPT !.at = "failed"]
        /\ page' = [page EXCEPT !.fresh = FALSE]
  /\ UNCHANGED <<hardware, reg, stops, published, store, motion, events, commands, tasks,
                 port, stage, count>>

RescanPad ==
  /\ At("rescan")
  /\ \E p \in First(PadOrder, feed.todo) : \E i \in ObservedAs(reg, p) :
       /\ reg' = Observe(reg, p, i)
       /\ feed' = [feed EXCEPT !.todo = @ \ {p}, !.seen = @ \cup {i}]
  /\ UNCHANGED <<hardware, stops, published, store, motion, events, terminal, port, stage, count>>

FirstCompatible == First(PadOrder, plugged \cap Compatible)

RescanEnds(ok) ==
  /\ At("rescan") /\ feed.todo = {}
  /\ LET missing == RetainSeen(reg, feed.seen)
         settled == ReconcileSelection(missing.reg, FirstCompatible)
     IN /\ reg' = settled.reg
        /\ StopIf(missing.zero \/ settled.zero, ok)
  /\ feed' = [feed EXCEPT !.at = "record", !.seen = {}, !.command = None]
  /\ UNCHANGED <<hardware, store, motion, events, terminal, port, stage>>

Tick(ok) ==
  /\ At("idle")
  /\ PublishStop(stops, ok)
  /\ feed' = [feed EXCEPT !.at = "poll", !.changed = FALSE, !.zero = FALSE]
  /\ UNCHANGED <<hardware, reg, store, motion, events, terminal, port, stage>>

\* What one backend event makes of the registry.
Handled(kind, p) ==
  IF kind = "on"
  THEN {ConnectedPad(Observe(reg, p, i), i) : i \in ObservedAs(reg, p)}
  ELSE IF ByHandle(reg, p) = {} THEN {[reg |-> reg, zero |-> FALSE]}
  ELSE {Disconnect(reg, i) : i \in ByHandle(reg, p)}

PollEvent ==
  /\ At("poll") /\ backend # <<>>
  /\ \E c \in Handled(Head(backend)[1], Head(backend)[2]) :
       /\ reg' = c.reg
       /\ feed' = [feed EXCEPT !.zero = @ \/ c.zero,
                     !.changed = @ \/ Head(backend)[1] = "on"
                                  \/ ByHandle(reg, Head(backend)[2]) # {}]
  /\ backend' = Tail(backend)
  /\ UNCHANGED <<plugged, stops, published, store, motion, events, terminal, port, stage, count>>

\* After the poll: the stop that is owed, and the command of the selected pad.
\* A pad that is unplugged may be seen to be so before its event arrives.
TickEnds(ok) ==
  /\ At("poll") /\ backend = <<>>
  /\ LET pad == HandleOf(reg, reg.selected)
         live == reg.enabled /\ pad # None
     IN \/ /\ live
           /\ pad \notin plugged
           /\ LET c == Disconnect(reg, reg.selected)
              IN /\ reg' = c.reg
                 /\ StopIf(feed.zero \/ c.zero, ok)
           /\ feed' = [feed EXCEPT !.at = "record", !.command = None]
        \/ /\ StopIf(feed.zero, ok)
           /\ \E command \in IF live THEN {"drive", "stop"} ELSE {None} :
                feed' = [feed EXCEPT !.at = IF feed.changed THEN "record" ELSE "drive",
                                     !.command = command]
           /\ UNCHANGED reg
  /\ UNCHANGED <<hardware, store, motion, events, terminal, port, stage>>

\* A request of the input page.
Request(ok) ==
  /\ At("idle") /\ port # <<>>
  /\ port' = Tail(port)
  /\ LET r == Head(port)
         c == IF r.kind = "select" THEN Select(reg, r.id) ELSE SetEnabled(reg, r.on)
     IN IF r.kind = "rescan"
        THEN /\ ok
             /\ feed' = [feed EXCEPT !.at = "rescan", !.todo = plugged]
             /\ UNCHANGED <<reg, stops, published, count>>
        ELSE /\ reg' = c.reg
             /\ StopIf(c.zero, ok)
             /\ feed' = [feed EXCEPT !.at = "record", !.command = None]
  /\ UNCHANGED <<hardware, store, motion, events, terminal, stage>>

\* publish_joypad records the sample, then waits for room to announce it.
Record ==
  /\ At("record")
  /\ store' = Sample(reg)
  /\ feed' = [feed EXCEPT !.at = "send"]
  /\ UNCHANGED <<hardware, reg, stops, published, motion, events, terminal, port, stage, count>>

Announce ==
  /\ At("send")
  /\ \/ /\ stage = "open" /\ Len(events) < EventRoom
        /\ events' = Append(events, Sample(reg))
        /\ feed' = [feed EXCEPT !.at = "drive"]
     \/ /\ stage = "closing"
        /\ feed' = [feed EXCEPT !.at = "failed"]
        /\ UNCHANGED events
  /\ UNCHANGED <<hardware, reg, stops, published, store, motion, terminal, port, stage, count>>

Drive(ok) ==
  /\ At("drive")
  /\ IF feed.command = None THEN ok /\ UNCHANGED <<published, count>>
     ELSE Publishes(feed.command, ok)
  /\ feed' = [feed EXCEPT !.at = "idle", !.command = None]
  /\ UNCHANGED <<hardware, reg, stops, store, motion, events, terminal, port, stage>>

(***************************************************************************)
(* The motion feed reads the device sample and announces it with the new   *)
(* motion, which is left out here, whenever the robot reports one.         *)
(***************************************************************************)
MotionObserves ==
  /\ Alive /\ motion = None
  /\ motion' = store
  /\ UNCHANGED <<hardware, driver, store, events, terminal, port, stage, count>>

MotionAnnounces ==
  /\ stage = "open" /\ motion # None
  /\ Len(events) < EventRoom
  /\ events' = Append(events, motion)
  /\ motion' = None
  /\ UNCHANGED <<hardware, driver, store, terminal, port, stage, count>>

(***************************************************************************)
(* The dashboard's input page and the way of its requests to the feed.     *)
(***************************************************************************)
\* reconcile_authoritative; the marks of pending requests are left out.
Observed ==
  /\ stage = "open" /\ events # <<>>
  /\ page' = [page EXCEPT !.shown = Head(events)]
  /\ events' = Tail(events)
  /\ UNCHANGED <<hardware, driver, store, motion, commands, tasks, port, stage, count>>

\* A key that asks for something.  The command channel drops what it has no room
\* for, and says so.
Key(request) ==
  /\ stage = "open" /\ count.keys < MaxKeys
  /\ request.kind # "rescan" => page.fresh
  /\ request.kind = "select" => request.id \in page.shown
  /\ commands' = IF Len(commands) < EffectRoom THEN Append(commands, request) ELSE commands
  /\ count' = [count EXCEPT !.keys = @ + 1]
  /\ UNCHANGED <<hardware, driver, store, motion, events, page, tasks, port, stage>>

\* spawn_effect: a task for each command, or a diagnostic when all slots are taken.
Route ==
  /\ stage = "open" /\ commands # <<>>
  /\ commands' = Tail(commands)
  /\ tasks' = IF Cardinality(tasks) < EffectRoom
              THEN tasks \cup {[n |-> CHOOSE n \in 1..EffectRoom : \A t \in tasks : t.n # n,
                                request |-> Head(commands)]}
              ELSE tasks
  /\ UNCHANGED <<hardware, driver, store, motion, events, page, port, stage, count>>

\* The tasks reach the port in any order; a feed that is gone refuses them.
Submit(t) ==
  /\ tasks' = tasks \ {t}
  /\ IF feed.at = "failed" THEN UNCHANGED port
     ELSE Len(port) < InputRoom /\ port' = Append(port, t.request)
  /\ UNCHANGED <<hardware, driver, store, motion, events, page, commands, stage, count>>

(***************************************************************************)
(* The end of the attachment.  The terminal leaves: the event stream is    *)
(* closed and the effect tasks are aborted.  Then the feeds are cancelled, *)
(* wherever they wait.  The attachment holds its own end of the input port *)
(* until it has cancelled them, so the feed never sees that port close.    *)
(***************************************************************************)
Leave ==
  /\ stage = "open"
  /\ stage' = "closing"
  /\ tasks' = {} /\ commands' = <<>> /\ events' = <<>>
  /\ UNCHANGED <<hardware, driver, store, motion, page, port, count>>

Awaiting == feed.at \in {"start", "idle", "send", "record", "failed"}

Close ==
  /\ stage = "closing" /\ Awaiting
  /\ stage' = "closed"
  /\ feed' = [feed EXCEPT !.at = IF @ = "failed" THEN @ ELSE "ended"]
  /\ motion' = None
  /\ UNCHANGED <<hardware, reg, stops, published, store, events, terminal, port, count>>

FeedSteps(ok) ==
  \/ RescanEnds(ok) \/ Tick(ok) \/ TickEnds(ok) \/ Request(ok) \/ Drive(ok)

Next ==
  \/ \E p \in Pads : Plug(p)
  \/ Open \/ RescanPad \/ PollEvent \/ Record \/ Announce
  \/ \E ok \in BOOLEAN : FeedSteps(ok)
  \/ MotionObserves \/ MotionAnnounces \/ Observed
  \/ \E request \in Requests : Key(request)
  \/ Route \/ \E t \in tasks : Submit(t)
  \/ Leave \/ Close

Spec == Init /\ [][Next]_vars

\* The feed and the terminal are scheduled, the channel's waiters are served in
\* turn, and the bus accepts what it is sent once its failures are used up.  The
\* operator, the hardware and the robot owe nothing.
FairSpec ==
  /\ Spec
  /\ WF_<<feed, backend>>(RescanPad \/ PollEvent \/ Record \/ FeedSteps(TRUE))
  /\ SF_feed(Announce)
  /\ WF_events(Observed)

-----------------------------------------------------------------------------
(* Properties.                                                             *)

\* Authority is only ever given to the selected pad, connected and mapped, and
\* the selection is a pad the registry knows: no disconnection, enumeration,
\* eviction or request leaves it with another one (registry.rs, prune and
\* invalidate_selection).  Between the pads of an enumeration it need not hold.
AuthorityHasAPad ==
  feed.at # "rescan" /\ reg.selected # None => Ready(reg, reg.selected)

\* A robot that was last told to drive is under authority or is owed a stop, as
\* long as the feed runs: however authority ended, a stop was queued, and the
\* countdown outlives the publications that fail (input.rs, pending_stops).
MotionIsCovered ==
  (/\ published = "drive"
   /\ feed.at \notin {"ended", "failed"}
   /\ ~ (feed.at = "poll" /\ feed.zero)) => reg.enabled \/ stops > 0

\* Authority never passes from one pad to another: whatever changes the selection
\* ends with authority off (registry.rs, select, connected, reconcile_selection).
AuthorityIsNotInherited ==
  [][(reg'.selected # reg.selected) => ~ reg'.enabled]_vars

\* Whenever authority was revoked under a moving robot, the robot is stopped, or
\* the operator takes authority again, or the attachment ends.
RevokedRobotStops ==
  (published = "drive" /\ ~ reg.enabled)
    ~> (published = "stop" \/ reg.enabled \/ stage # "open")

=============================================================================
