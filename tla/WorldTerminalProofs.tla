------------------------- MODULE WorldTerminalProofs -------------------------
(***************************************************************************)
(* Proofs about the terminal of a world, for any room in its channel and   *)
(* any number of keys, of changes by other clients and of failures: what   *)
(* it shows, what it waits for, and what it says when it ends.             *)
(***************************************************************************)
EXTENDS WorldTerminal, TLAPS

Items == [kind : {"state"}, revision : Nat] \cup [kind : {"control-failed"}, request : Controls]
           \cup {Disconnected, DiagnosticsUnavailable}

Models == [revision : Nat, diagnostics : BOOLEAN, pending : Controls \cup {None},
           confirming_stop : BOOLEAN, stop_acknowledged : BOOLEAN,
           exit : {None, "detached", "stopped", "ended"}]

Feed == [at : {"recv", "send", "reconnect", "last", "ended"}, seen : Nat,
         item : Items \cup {None}]

Router == [at : {"idle", "asked", "send"}, request : Controls \cup {None},
           item : Items \cup {None}]

Used == [keys : Nat, others : Nat, states : Nat, diagnostics : Nat, controls : Nat]

Typed ==
  /\ history \in Seq(Lifecycles) /\ history # <<>>
  /\ served \in BOOLEAN
  /\ model \in Models
  /\ loop \in {"drain", "poll", "returned", "over"}
  /\ ingress \in Seq(Items)
  /\ controls \in Seq(Controls)
  /\ feed \in Feed
  /\ telling \in {"recv", "last", "ended"}
  /\ router \in Router
  /\ used \in Used

-----------------------------------------------------------------------------
(* The inductive invariant. *)

IsState(x) == x.kind = "state"

\* A control that is answered has its request, and no state is told that the
\* world was not in.
Answering ==
  /\ router.at = "idle" => router.request = None
  /\ router.at # "idle" => router.request \in Controls
  /\ router.at = "send" =>
       \/ router.item = ControlFailed(router.request)
       \/ \E r \in 1..Revision : router.item = State(r)

Told ==
  /\ model.revision \in 1..Revision
  /\ feed.seen \in 1..Revision
  /\ feed.at = "send" => feed.item = State(feed.seen)
  /\ \A x \in ToSet(ingress) : IsState(x) => x.revision \in 1..Revision

\* The last state the subscription has seen is shown, or on its way, or older
\* than one that is.
SeenIsTold ==
  Received =>
    \/ feed.at = "send"
    \/ feed.seen <= model.revision
    \/ \E x \in ToSet(ingress) : IsState(x) /\ x.revision >= feed.seen

\* The state shown never is the one that a pending pause or resume asks for.
Unfulfilled ==
  model.pending \in {"pause", "resume"} => ~Completed(model.pending, history[model.revision])

\* The world is where the request led it, if nobody else changed it.
Fulfilled(request) == used.others > 0 \/ Completed(request, Last(history))

\* The router holds a request until the interface takes its answer.
AnswerIsTrue ==
  router.at = "send" =>
    router.item = ControlFailed(router.request) \/ Fulfilled(router.request)

\* The pending request is the last that was asked: it waits, or is asked, or is
\* answered.
PendingIsLast ==
  model.pending # None =>
    \/ controls # <<>> /\ Last(controls) = model.pending
    \/ controls = <<>> /\ router.request = model.pending
    \/ /\ controls = <<>> /\ router.request = None
       /\ ControlFailed(model.pending) \in ToSet(ingress) \/ Fulfilled(model.pending)

\* The state stream is given up only after a second failure, or for a world
\* that is gone.
Lost == ~served \/ used.states >= 2

GivenUp ==
  /\ feed.at = "reconnect" => ~served \/ used.states >= 1
  /\ feed.at = "last" => feed.item = Disconnected /\ Lost
  /\ Disconnected \in ToSet(ingress) => Lost

IInv ==
  /\ Typed /\ Answering /\ Told /\ SeenIsTold
  /\ Unfulfilled /\ AnswerIsTrue /\ PendingIsLast
  /\ GivenUp /\ OutcomeIsTrue

-----------------------------------------------------------------------------
(* Sequences. *)

\* What an item at the end of a queue makes of it.
LEMMA Joined ==
  ASSUME NEW S, NEW s \in Seq(S), NEW x \in S
  PROVE  /\ Append(s, x) \in Seq(S) /\ Append(s, x) # <<>>
         /\ ToSet(Append(s, x)) = ToSet(s) \cup {x}
         /\ Last(Append(s, x)) = x
         /\ Len(Append(s, x)) = Len(s) + 1
         /\ \A i \in 1..Len(s) : Append(s, x)[i] = s[i]
<1>. DEFINE t == Append(s, x)
<1>1. /\ t \in Seq(S) /\ Len(t) = Len(s) + 1 /\ t[Len(s) + 1] = x
      /\ \A i \in 1..Len(s) : t[i] = s[i]
  OBVIOUS
<1>2. DOMAIN t = 1..(Len(s) + 1) /\ DOMAIN s = 1..Len(s) /\ Len(s) \in Nat  BY <1>1
<1>. HIDE DEF t
<1>3. t # <<>>  BY <1>1, <1>2
<1>4. ToSet(t) = ToSet(s) \cup {x}  BY <1>1, <1>2 DEF ToSet
<1>. QED  BY <1>1, <1>2, <1>3, <1>4 DEF Last, t

\* What taking the first item of a queue leaves.
LEMMA Taken ==
  ASSUME NEW S, NEW s \in Seq(S), s # <<>>
  PROVE  /\ Head(s) \in S /\ Tail(s) \in Seq(S)
         /\ Head(s) \in ToSet(s) /\ ToSet(s) = {Head(s)} \cup ToSet(Tail(s))
         /\ Tail(s) # <<>> => Last(Tail(s)) = Last(s)
         /\ Tail(s) = <<>> => Last(s) = Head(s)
<1>. DEFINE t == Tail(s)
<1>1. /\ t \in Seq(S) /\ Len(t) = Len(s) - 1 /\ Len(s) \in Nat /\ Len(s) >= 1
      /\ \A i \in 1..Len(t) : t[i] = s[i + 1]
      /\ Head(s) = s[1] /\ Head(s) \in S
  OBVIOUS
<1>2. DOMAIN t = 1..Len(t) /\ DOMAIN s = 1..Len(s)  BY <1>1
<1>3. Len(t) = 0 <=> t = <<>>  BY <1>1
<1>. HIDE DEF t
<1>4. ToSet(s) = {Head(s)} \cup ToSet(t)
  <2>1. \A i \in DOMAIN s : s[i] = Head(s) \/ (i - 1 \in DOMAIN t /\ t[i - 1] = s[i])  BY <1>1, <1>2
  <2>2. \A i \in DOMAIN t : i + 1 \in DOMAIN s /\ t[i] = s[i + 1]  BY <1>1, <1>2
  <2>3. 1 \in DOMAIN s  BY <1>1, <1>2
  <2>. QED  BY <1>1, <2>1, <2>2, <2>3 DEF ToSet
<1>5. t # <<>> => Last(t) = Last(s)
  <2>. SUFFICES ASSUME t # <<>> PROVE Last(t) = Last(s)  OBVIOUS
  <2>1. Len(t) \in 1..Len(t) /\ Len(t) + 1 = Len(s)  BY <1>1, <1>3
  <2>. QED  BY <1>1, <2>1 DEF Last
<1>6. t = <<>> => Last(s) = Head(s)
  <2>. SUFFICES ASSUME t = <<>> PROVE Last(s) = Head(s)  OBVIOUS
  <2>1. Len(s) = 1  BY <1>1, <1>3
  <2>. QED  BY <1>1, <2>1 DEF Last
<1>. QED  BY <1>1, <1>4, <1>5, <1>6 DEF t

-----------------------------------------------------------------------------
(* What the interface makes of its model. *)

\* An observation: a newer state is shown, an older one changes nothing, and
\* the world is said to be over only when it says so or is out of reach.
LEMMA Applies ==
  ASSUME NEW m \in Models, NEW x \in Items, history \in Seq(Lifecycles),
         m.revision \in 1..Revision, IsState(x) => x.revision \in 1..Revision
  PROVE  LET n == Apply(m, x) IN
         /\ n \in Models
         /\ n.revision = IF IsState(x) /\ x.revision > m.revision THEN x.revision ELSE m.revision
         /\ n.pending \in {m.pending, None}
         /\ x = ControlFailed(m.pending) => n.pending = None
         /\ n.revision # m.revision /\ Completed(m.pending, history[n.revision]) => n.pending = None
         /\ n.exit \in {"stopped", "ended"} =>
              \/ m.exit \in {"stopped", "ended"}
              \/ x = Disconnected
              \/ "failed" \in ToSet(history)
<1>1. CASE x.kind = "state"
  <2>0. x \in [kind : {"state"}, revision : Nat]
    BY <1>1 DEF Items, Disconnected, DiagnosticsUnavailable
  <2>. DEFINE l == history[x.revision]
              p == IF Completed(m.pending, l) THEN None ELSE m.pending
              e == IF l = "failed" THEN "ended" ELSE m.exit
              a == m.stop_acknowledged \/ l = "stopping"
              n == [m EXCEPT !.pending = p, !.exit = e, !.stop_acknowledged = a,
                             !.revision = x.revision]
  <2>1. CASE x.revision <= m.revision
    <3>1. Apply(m, x) = m  BY <1>1, <2>1 DEF Apply, ApplyState
    <3>. QED  BY <1>1, <2>0, <2>1, <3>1 DEF IsState, ControlFailed, Disconnected, Models
  <2>2. CASE x.revision > m.revision
    <3>1. Apply(m, x) = n
      <4>1. ~ (x.revision <= m.revision)  BY <2>0, <2>2 DEF Models
      <4>. QED  BY <1>1, <4>1 DEF Apply, ApplyState
    <3>2. p \in {m.pending, None} /\ e \in {m.exit, "ended"} /\ a \in BOOLEAN  BY DEF Models
    <3>3. e \in {"stopped", "ended"} => m.exit \in {"stopped", "ended"} \/ l = "failed"
      OBVIOUS
    <3>4. l = "failed" => "failed" \in ToSet(history)
      <4>1. x.revision \in DOMAIN history  BY <1>1 DEF IsState, Revision
      <4>. QED  BY <4>1 DEF ToSet
    <3>5. Completed(m.pending, l) => p = None  OBVIOUS
    <3>. HIDE DEF p, e, a
    <3>7. n \in Models /\ n.revision = x.revision /\ n.pending = p /\ n.exit = e
      BY <2>0, <3>2 DEF Models
    <3>. HIDE DEF n
    <3>. QED
      BY <1>1, <2>0, <2>2, <3>1, <3>2, <3>3, <3>4, <3>5, <3>7
      DEF IsState, ControlFailed
  <2>. QED  BY <2>0, <2>1, <2>2 DEF Models
<1>2. CASE x.kind = "diagnostics-unavailable"
  <2>. DEFINE n == [m EXCEPT !.diagnostics = FALSE]
  <2>1. Apply(m, x) = n  BY <1>2 DEF Apply
  <2>2. n \in Models /\ n.revision = m.revision /\ n.pending = m.pending /\ n.exit = m.exit
    BY DEF Models
  <2>. HIDE DEF n
  <2>. QED  BY <1>2, <2>1, <2>2 DEF IsState, ControlFailed
<1>3. CASE x.kind = "control-failed"
  <2>. DEFINE p == IF m.pending = x.request THEN None ELSE m.pending
              n == [m EXCEPT !.pending = p]
  <2>1. Apply(m, x) = n  BY <1>3 DEF Apply
  <2>2. p \in {m.pending, None} /\ (x.request = m.pending => p = None)  OBVIOUS
  <2>. HIDE DEF p
  <2>3. n \in Models /\ n.revision = m.revision /\ n.pending = p /\ n.exit = m.exit
    BY <2>2 DEF Models
  <2>. HIDE DEF n
  <2>. QED  BY <1>3, <2>1, <2>2, <2>3 DEF IsState, ControlFailed
<1>4. CASE x.kind = "disconnected"
  <2>1. Apply(m, x) = [m EXCEPT !.exit = IF m.stop_acknowledged THEN "stopped" ELSE "ended"]
    BY <1>4 DEF Apply
  <2>2. x = Disconnected  BY <1>4 DEF Items, Disconnected, DiagnosticsUnavailable
  <2>. QED  BY <1>4, <2>1, <2>2 DEF Models, IsState, ControlFailed, Disconnected
<1>. QED  BY <1>1, <1>2, <1>3, <1>4 DEF Items, Disconnected, DiagnosticsUnavailable

\* A key: only a terminal that waits for nothing asks for something, and never
\* for the pause or the resume that it shows.
LEMMA Presses ==
  ASSUME NEW m \in Models, NEW key \in Keys
  PROVE  LET e == KeyEffect(m, key) IN
         /\ e.model \in Models /\ e.model.revision = m.revision
         /\ e.model.exit \in {m.exit, "detached"}
         /\ \/ e.model.pending = m.pending /\ e.emits = <<>>
            \/ /\ m.pending = None
               /\ \E c \in Controls :
                    /\ e.model.pending = c /\ e.emits = <<c>>
                    /\ c \in {"pause", "resume"} => ~Completed(c, history[m.revision])
<1>. DEFINE Good(e) ==
         /\ e.model \in Models /\ e.model.revision = m.revision
         /\ e.model.exit \in {m.exit, "detached"}
         /\ \/ e.model.pending = m.pending /\ e.emits = <<>>
            \/ /\ m.pending = None
               /\ \E c \in Controls :
                    /\ e.model.pending = c /\ e.emits = <<c>>
                    /\ c \in {"pause", "resume"} => ~Completed(c, history[m.revision])
<1>1. ASSUME NEW n \in Models, n.revision = m.revision, n.exit \in {m.exit, "detached"},
             n.pending = m.pending
      PROVE  Good([model |-> n, emits |-> <<>>])
  BY <1>1
<1>2. ASSUME NEW n \in Models, NEW c \in Controls, n.revision = m.revision, n.exit = m.exit,
             m.pending = None, c \in {"pause", "resume"} => ~Completed(c, history[m.revision])
      PROVE  \A k : k = [n EXCEPT !.pending = c] => Good([model |-> k, emits |-> <<c>>])
  <2>. DEFINE k == [n EXCEPT !.pending = c]
  <2>1. k = [revision |-> n.revision, diagnostics |-> n.diagnostics, pending |-> c,
             confirming_stop |-> n.confirming_stop, stop_acknowledged |-> n.stop_acknowledged,
             exit |-> n.exit]
    BY DEF Models
  <2>2. k \in Models  BY <2>1 DEF Models
  <2>3. k.revision = m.revision /\ k.exit = m.exit /\ k.pending = c  BY <1>2, <2>1
  <2>. HIDE DEF k
  <2>4. Good([model |-> k, emits |-> <<c>>])  BY <1>2, <2>2, <2>3
  <2>. QED  BY <2>4 DEF k
<1>3. \A b \in BOOLEAN :
        LET n == [m EXCEPT !.confirming_stop = b] IN
        n \in Models /\ n.revision = m.revision /\ n.exit = m.exit /\ n.pending = m.pending
  BY DEF Models
<1>4. LET n == [m EXCEPT !.exit = "detached"] IN
      n \in Models /\ n.revision = m.revision /\ n.exit = "detached" /\ n.pending = m.pending
  BY DEF Models
<1>. SUFFICES Good(KeyEffect(m, key))  OBVIOUS
<1>. HIDE DEF Good
<1>5. Good([model |-> m, emits |-> <<>>])  BY <1>1
<1>6. CASE key = "q"
  <2>. DEFINE n == [m EXCEPT !.exit = "detached"]
  <2>1. KeyEffect(m, key) = [model |-> n, emits |-> <<>>]  BY <1>6 DEF KeyEffect
  <2>2. n \in Models /\ n.revision = m.revision /\ n.exit = "detached" /\ n.pending = m.pending
    BY <1>4
  <2>. HIDE DEF n
  <2>. QED  BY <1>1, <2>1, <2>2
<1>7. CASE key # "q" /\ m.confirming_stop
  <2>. DEFINE n == [m EXCEPT !.confirming_stop = FALSE]
  <2>0. n \in Models /\ n.revision = m.revision /\ n.exit = m.exit /\ n.pending = m.pending
    BY <1>3
  <2>1. CASE key = "esc"
    <3>1. KeyEffect(m, key) = [model |-> n, emits |-> <<>>]  BY <1>7, <2>1 DEF KeyEffect
    <3>. HIDE DEF n
    <3>. QED  BY <1>1, <2>0, <3>1
  <2>2. CASE key = "enter" /\ m.pending = None
    <3>. DEFINE k == [n EXCEPT !.pending = "stop"]
    <3>1. KeyEffect(m, key) = [model |-> k, emits |-> <<"stop">>]
      BY <1>7, <2>2 DEF KeyEffect
    <3>2. "stop" \in Controls  BY DEF Controls
    <3>. HIDE DEF n
    <3>3. Good([model |-> k, emits |-> <<"stop">>])  BY <1>2, <2>0, <2>2, <3>2
    <3>. HIDE DEF k
    <3>. QED  BY <3>1, <3>3
  <2>3. CASE key # "esc" /\ ~(key = "enter" /\ m.pending = None)
    <3>1. KeyEffect(m, key) = [model |-> m, emits |-> <<>>]  BY <1>7, <2>3 DEF KeyEffect
    <3>. QED  BY <1>5, <3>1
  <2>. QED  BY <2>1, <2>2, <2>3
<1>8. CASE key # "q" /\ ~m.confirming_stop
  <2>1. CASE key = "S"
    <3>. DEFINE n == [m EXCEPT !.confirming_stop = TRUE]
    <3>1. KeyEffect(m, key) = [model |-> n, emits |-> <<>>]  BY <1>8, <2>1 DEF KeyEffect
    <3>2. n \in Models /\ n.revision = m.revision /\ n.exit = m.exit /\ n.pending = m.pending
      BY <1>3
    <3>. HIDE DEF n
    <3>. QED  BY <1>1, <3>1, <3>2
  <2>2. CASE key = "p" /\ m.pending = None /\ history[m.revision] \in Ready
    <3>. DEFINE c == IF history[m.revision] = "running" THEN "pause" ELSE "resume"
    <3>. DEFINE k == [m EXCEPT !.pending = c]
    <3>1. KeyEffect(m, key) = [model |-> k, emits |-> <<c>>]
      BY <1>8, <2>2 DEF KeyEffect
    <3>2. c \in Controls /\ ~Completed(c, history[m.revision])
      BY <2>2 DEF Controls, Completed, Ready
    <3>. HIDE DEF c
    <3>3. Good([model |-> k, emits |-> <<c>>])  BY <1>2, <2>2, <3>2
    <3>. HIDE DEF k
    <3>. QED  BY <3>1, <3>3
  <2>3. CASE key # "S" /\ ~(key = "p" /\ m.pending = None /\ history[m.revision] \in Ready)
    <3>1. KeyEffect(m, key) = [model |-> m, emits |-> <<>>]  BY <1>8, <2>3 DEF KeyEffect
    <3>. QED  BY <1>5, <3>1
  <2>. QED  BY <2>1, <2>2, <2>3
<1>9. m.confirming_stop \in BOOLEAN  BY DEF Models
<1>. QED  BY <1>6, <1>7, <1>8, <1>9

-----------------------------------------------------------------------------
(* Each part of the invariant is preserved. *)

\* What a task sends is an item.
LEMMA Sendable ==
  ASSUME Typed, Answering, Told, GivenUp
  PROVE  /\ feed.at \in {"send", "last"} => feed.item \in Items
         /\ router.at = "send" => router.item \in Items
         /\ DiagnosticsUnavailable \in Items
<1>1. \A r \in 1..Revision : State(r) \in Items
  BY DEF Typed, Revision, State, Items
<1>2. router.request \in Controls => ControlFailed(router.request) \in Items
  BY DEF ControlFailed, Items
<1>3. Disconnected \in Items /\ DiagnosticsUnavailable \in Items  BY DEF Items
<1>. QED  BY <1>1, <1>2, <1>3 DEF Answering, Told, GivenUp

\* What the world makes of a control is a lifecycle.
LEMMA ObeyTypes ==
  ASSUME NEW c \in Controls, NEW l \in Lifecycles
  PROVE  LET then == Obey(c, l) IN
         then # None => then \in Lifecycles /\ Completed(c, then)
  BY DEF Obey, Controls, Lifecycles, Ready, Completed

\* Counting keeps the counters.
LEMMA Counts ==
  ASSUME NEW u \in Used
  PROVE  /\ [u EXCEPT !.keys = u.keys + 1] \in Used
         /\ [u EXCEPT !.others = u.others + 1] \in Used
         /\ [u EXCEPT !.controls = u.controls + 1] \in Used
  BY DEF Used

\* Every step keeps the types.
LEMMA TypedStep ==
  ASSUME Typed, Answering, Told, GivenUp, Next
  PROVE  Typed'
<1>. USE DEF Typed
<1>0. Revision \in Nat /\ Revision >= 1 /\ Last(history) \in Lifecycles
  BY DEF Revision, Last
<1>1. CASE WorldChanges
  <2>1. PICK l \in Lifecycles : history' = Append(history, l)
    BY <1>1 DEF WorldChanges, Lifecycles
  <2>2. history' \in Seq(Lifecycles) /\ history' # <<>>  BY <2>1, Joined
  <2>4. [used EXCEPT !.others = used.others + 1] \in Used  BY Counts
  <2>3. used' \in Used  BY <1>1, <2>4 DEF WorldChanges
  <2>. QED  BY <1>1, <2>2, <2>3 DEF WorldChanges, tasks
<1>2. CASE HostGone  BY <1>2 DEF HostGone, tasks
<1>3. ASSUME NEW connection \in {"states", "diagnostics", "controls"}, Fault(connection)
      PROVE  used' \in Used
  BY <1>3 DEF Fault, Spend, Used
<1>4. CASE FeedReceive
  <2>1. \A r \in feed.seen + 1 .. Revision : r \in Nat /\ State(r) \in Items
    BY <1>0 DEF Feed, State, Items
  <2>2. feed' \in Feed  BY <1>4, <2>1 DEF FeedReceive, Feed
  <2>. QED  BY <1>4, <2>2 DEF FeedReceive
<1>5. CASE FeedError
  <2>1. feed' \in Feed  BY <1>5 DEF FeedError, Feed
  <2>. QED  BY <1>3, <1>5, <2>1 DEF FeedError
<1>6. CASE Reconnect
  <2>1. State(Revision) \in Items /\ Disconnected \in Items  BY <1>0 DEF State, Items
  <2>2. feed' \in Feed
    <3>1. [at |-> "send", seen |-> Revision, item |-> State(Revision)] \in Feed
      BY <1>0, <2>1 DEF Feed
    <3>2. [feed EXCEPT !.at = "last", !.item = Disconnected] \in Feed  BY <2>1 DEF Feed
    <3>. QED  BY <1>6, <3>1, <3>2 DEF Reconnect
  <2>3. used' \in Used  BY <1>3, <1>6 DEF Reconnect
  <2>. QED  BY <1>6, <2>2, <2>3 DEF Reconnect
<1>7. CASE FeedSend
  <2>1. feed' \in Feed  BY <1>7 DEF FeedSend, Feed
  <2>3. feed.item \in Items  BY <1>7, Sendable DEF FeedSend
  <2>4. Append(ingress, feed.item) \in Seq(Items)  BY <2>3, Joined
  <2>2. ingress' \in Seq(Items)  BY <1>7, <2>4 DEF FeedSend
  <2>. QED  BY <1>7, <2>1, <2>2 DEF FeedSend
<1>8. CASE DiagnosticsLost  BY <1>3, <1>8 DEF DiagnosticsLost
<1>9. CASE DiagnosticsSend
  <2>1. ingress' \in Seq(Items)  BY <1>9, Sendable, Joined DEF DiagnosticsSend
  <2>. QED  BY <1>9, <2>1 DEF DiagnosticsSend
<1>10. CASE Route
  <2>1. Head(controls) \in Controls /\ Tail(controls) \in Seq(Controls)
    BY <1>10, Taken DEF Route
  <2>2. router' \in Router  BY <1>10, <2>1 DEF Route, Router
  <2>. QED  BY <1>10, <2>1, <2>2 DEF Route
<1>11. CASE Answer
  <2>. DEFINE then == Obey(router.request, Last(history))
  <2>1. router.request \in Controls  BY <1>11 DEF Answering, Answer
  <2>2. then \in Lifecycles  BY <1>0, <1>11, <2>1, ObeyTypes DEF Answer
  <2>3. history' \in Seq(Lifecycles) /\ history' # <<>>  BY <1>11, <2>2, Joined DEF Answer
  <2>4. State(Len(history')) \in Items /\ ControlFailed(router.request) \in Items
    BY <2>1, <2>3 DEF State, ControlFailed, Items
  <2>5. router' \in Router  BY <1>11, <2>4 DEF Answer, Router
  <2>7. [used EXCEPT !.controls = used.controls + 1] \in Used  BY Counts
  <2>6. used' \in Used  BY <1>11, <2>7 DEF Answer, Spend
  <2>. QED  BY <1>11, <2>3, <2>5, <2>6 DEF Answer
<1>12. CASE Refuse
  <2>1. ControlFailed(router.request) \in Items
    BY <1>12 DEF Answering, Refuse, ControlFailed, Items
  <2>2. router' \in Router  BY <1>12, <2>1 DEF Refuse, Router
  <2>3. used' \in Used  BY <1>3, <1>12 DEF Refuse
  <2>. QED  BY <1>12, <2>2, <2>3 DEF Refuse
<1>13. CASE RouterSend
  <2>1. router' \in Router  BY <1>13 DEF RouterSend, Router
  <2>2. ingress' \in Seq(Items)  BY <1>13, Sendable, Joined DEF RouterSend
  <2>. QED  BY <1>13, <2>1, <2>2 DEF RouterSend
<1>14. CASE Drain
  <2>1. Head(ingress) \in Items /\ Head(ingress) \in ToSet(ingress) /\ Tail(ingress) \in Seq(Items)
    BY <1>14, Taken DEF Drain
  <2>2. model' \in Models  BY <1>14, <2>1, Applies DEF Drain, Told
  <2>. QED  BY <1>14, <2>1, <2>2 DEF Drain, tasks
<1>15. CASE Drained \/ NoKey \/ Shutdown
  BY <1>15 DEF Drained, NoKey, Shutdown, tasks
<1>16. CASE Key
  <2>1. PICK key \in Keys : /\ model' = KeyEffect(model, key).model
                            /\ controls' = controls \o KeyEffect(model, key).emits
    BY <1>16 DEF Key
  <2>2. model' \in Models  BY <2>1, Presses
  <2>5. \/ KeyEffect(model, key).emits = <<>>
        \/ \E c \in Controls : KeyEffect(model, key).emits = <<c>>
    BY <2>1, Presses
  <2>7. <<>> \in Seq(Controls) /\ \A c \in Controls : <<c>> \in Seq(Controls)  OBVIOUS
  <2>6. KeyEffect(model, key).emits \in Seq(Controls)  BY <2>5, <2>7
  <2>3. controls' \in Seq(Controls)  BY <2>1, <2>6
  <2>4. used' \in Used  BY <1>16 DEF Key, Used
  <2>. QED  BY <1>16, <2>2, <2>3, <2>4 DEF Key, tasks
<1>17. CASE Over  BY <1>17 DEF Over, vars, tasks
<1>. QED
  BY <1>1, <1>2, <1>4, <1>5, <1>6, <1>7, <1>8, <1>9, <1>10, <1>11, <1>12, <1>13, <1>14, <1>15,
     <1>16, <1>17
  DEF Next, Feeds, Routing, Interface

\* The history of the world only grows.
LEMMA HistoryGrows ==
  ASSUME Typed, Answering, Next
  PROVE  /\ Revision \in Nat /\ Revision' \in Nat /\ Revision <= Revision'
         /\ \A r \in 1..Revision : history'[r] = history[r]
         /\ ToSet(history) \subseteq ToSet(history')
<1>1. history' = history \/ \E l \in Lifecycles : history' = Append(history, l)
  <2>0. Last(history) \in Lifecycles  BY DEF Typed, Last
  <2>1. CASE WorldChanges  BY <2>1 DEF WorldChanges, Lifecycles
  <2>2. CASE Answer
    <3>1. router.request \in Controls  BY <2>2 DEF Answering, Answer, Typed
    <3>. QED  BY <2>0, <2>2, <3>1, ObeyTypes DEF Answer
  <2>3. CASE HostGone \/ Feeds \/ Route \/ Refuse \/ RouterSend \/ Interface \/ Key \/ Over
    BY <2>3 DEF HostGone, Feeds, FeedReceive, FeedError, Reconnect, FeedSend, DiagnosticsLost,
                DiagnosticsSend, Route, Refuse, RouterSend, Interface, Drain, Drained, NoKey,
                Shutdown, Key, Over, vars
  <2>. QED  BY <2>1, <2>2, <2>3 DEF Next, Routing
<1>2. Revision \in Nat /\ DOMAIN history = 1..Revision  BY DEF Typed, Revision
<1>3. CASE history' = history  BY <1>2, <1>3 DEF Revision
<1>4. ASSUME NEW l \in Lifecycles, history' = Append(history, l)
      PROVE  /\ Revision' = Revision + 1
             /\ \A r \in 1..Revision : history'[r] = history[r]
             /\ ToSet(history) \subseteq ToSet(history')
  <2>1. /\ ToSet(Append(history, l)) = ToSet(history) \cup {l}
        /\ Len(Append(history, l)) = Len(history) + 1
        /\ \A i \in 1..Len(history) : Append(history, l)[i] = history[i]
    BY Joined DEF Typed
  <2>. QED  BY <1>4, <2>1 DEF Revision
<1>. QED  BY <1>1, <1>2, <1>3, <1>4

\* What is told of the world has happened.
LEMMA ToldStep ==
  ASSUME Typed, Answering, Told, GivenUp, Next, Typed'
  PROVE  Told'
<1>1. /\ Revision \in Nat /\ Revision' \in Nat /\ Revision <= Revision'
  BY HistoryGrows
<1>. DEFINE Whole(q) == \A x \in ToSet(q) : IsState(x) => x.revision \in 1..Revision'
<1>2. Whole(ingress)  BY <1>1 DEF Told
<1>3. model.revision \in 1..Revision' /\ feed.seen \in 1..Revision'  BY <1>1 DEF Told
<1>4. ASSUME NEW x \in Items, IsState(x) => x.revision \in 1..Revision
      PROVE  Whole(Append(ingress, x))
  <2>1. ToSet(Append(ingress, x)) = ToSet(ingress) \cup {x}  BY Joined DEF Typed
  <2>. QED  BY <1>1, <1>2, <1>4, <2>1
<1>. HIDE DEF Whole
<1>5. CASE WorldChanges \/ HostGone \/ FeedError \/ DiagnosticsLost \/ Route \/ Answer \/ Refuse
             \/ Drained \/ NoKey \/ Shutdown \/ Over
  <2>1. ingress' = ingress /\ model' = model
    BY <1>5 DEF WorldChanges, HostGone, FeedError, DiagnosticsLost, Route, Answer, Refuse, Drained,
                NoKey, Shutdown, Over, vars
  <2>2. feed'.seen = feed.seen /\ (feed' = feed \/ feed'.at = "reconnect")
    BY <1>5 DEF WorldChanges, HostGone, FeedError, DiagnosticsLost, Route, Answer, Refuse, Drained,
                NoKey, Shutdown, Over, vars, tasks, Typed, Feed
  <2>. QED  BY <1>2, <1>3, <2>1, <2>2 DEF Told, Whole
<1>6. CASE FeedReceive
  <2>1. PICK r \in feed.seen + 1 .. Revision :
          feed' = [at |-> "send", seen |-> r, item |-> State(r)]
    BY <1>6 DEF FeedReceive
  <2>2. r \in 1..Revision'  BY <1>1, <1>3
  <2>3. feed'.seen = r /\ feed'.item = State(r)  BY <2>1
  <2>4. ingress' = ingress /\ model' = model  BY <1>6 DEF FeedReceive
  <2>. QED  BY <1>2, <1>3, <2>2, <2>3, <2>4 DEF Told, Whole
<1>7. CASE Reconnect
  <2>1. \/ feed'.at = "send" /\ feed'.seen = Revision /\ feed'.item = State(Revision)
        \/ feed'.at = "last" /\ feed'.seen = feed.seen
    <3>1. CASE feed' = [at |-> "send", seen |-> Revision, item |-> State(Revision)]  BY <3>1
    <3>2. CASE feed' = [feed EXCEPT !.at = "last", !.item = Disconnected]
      BY <3>2 DEF Typed, Feed
    <3>. QED  BY <1>7, <3>1, <3>2 DEF Reconnect
  <2>2. ingress' = ingress /\ model' = model /\ Revision' = Revision
    BY <1>7 DEF Reconnect, Revision
  <2>3. Revision \in 1..Revision'  BY <1>1 DEF Told
  <2>4. feed'.seen \in 1..Revision' /\ (feed'.at = "send" => feed'.item = State(feed'.seen))
    BY <1>3, <2>1, <2>3
  <2>. QED  BY <1>2, <1>3, <2>2, <2>4 DEF Told, Whole
<1>8. CASE FeedSend
  <2>1. feed'.seen = feed.seen /\ feed'.at # "send"  BY <1>8 DEF FeedSend, Typed, Feed
  <2>2. model' = model /\ (ingress' = ingress \/ ingress' = Append(ingress, feed.item))
    BY <1>8 DEF FeedSend
  <2>3. feed.item \in Items  BY <1>8, Sendable DEF FeedSend
  <2>4. feed.item = State(feed.seen) \/ feed.item = Disconnected
    BY <1>8 DEF FeedSend, Told, GivenUp
  <2>5. IsState(feed.item) => feed.item.revision \in 1..Revision
    BY <2>4 DEF IsState, State, Disconnected, Told
  <2>. QED  BY <1>2, <1>3, <1>4, <2>1, <2>2, <2>3, <2>5 DEF Told, Whole
<1>9. CASE DiagnosticsSend
  <2>1. /\ feed' = feed /\ model' = model
        /\ ingress' = ingress \/ ingress' = Append(ingress, DiagnosticsUnavailable)
    BY <1>9 DEF DiagnosticsSend
  <2>2. ~IsState(DiagnosticsUnavailable)  BY DEF IsState, DiagnosticsUnavailable
  <2>. QED  BY <1>2, <1>3, <1>4, <2>1, <2>2, Sendable DEF Told, Whole
<1>10. CASE RouterSend
  <2>1. feed' = feed /\ model' = model /\ ingress' = Append(ingress, router.item)
    BY <1>10 DEF RouterSend
  <2>2. router.item \in Items  BY <1>10, Sendable DEF RouterSend
  <2>3. IsState(router.item) => router.item.revision \in 1..Revision
    <3>1. CASE router.item = ControlFailed(router.request)  BY <3>1 DEF IsState, ControlFailed
    <3>2. CASE \E r \in 1..Revision : router.item = State(r)  BY <3>2 DEF State
    <3>. QED  BY <1>10, <3>1, <3>2 DEF RouterSend, Answering
  <2>. QED  BY <1>2, <1>3, <1>4, <2>1, <2>2, <2>3 DEF Told, Whole
<1>11. CASE Drain
  <2>1. feed' = feed /\ model' = Apply(model, Head(ingress)) /\ ingress' = Tail(ingress)
    BY <1>11 DEF Drain, tasks
  <2>2. /\ Head(ingress) \in Items /\ Head(ingress) \in ToSet(ingress)
        /\ ToSet(Tail(ingress)) \subseteq ToSet(ingress)
    BY <1>11, Taken DEF Drain, Typed
  <2>3. model'.revision \in {model.revision} \cup 1..Revision
    BY <2>1, <2>2, Applies DEF Told, Typed
  <2>4. model'.revision \in 1..Revision'  BY <1>1, <1>3, <2>3
  <2>. QED  BY <1>2, <1>3, <2>1, <2>2, <2>4 DEF Told, Whole
<1>12. CASE Key
  <2>1. feed' = feed /\ ingress' = ingress  BY <1>12 DEF Key, tasks
  <2>2. model'.revision = model.revision  BY <1>12, Presses DEF Key, Typed
  <2>. QED  BY <1>2, <1>3, <2>1, <2>2 DEF Told, Whole
<1>. QED
  BY <1>5, <1>6, <1>7, <1>8, <1>9, <1>10, <1>11, <1>12 DEF Next, Feeds, Routing, Interface

\* A request that is asked gets an answer of its own.
LEMMA AnsweringStep ==
  ASSUME Typed, Answering, Next, Typed'
  PROVE  Answering'
<1>1. Revision \in Nat /\ Revision' \in Nat /\ Revision <= Revision'  BY HistoryGrows
<1>2. CASE router' = router
  <2>1. \A r \in 1..Revision : r \in 1..Revision'  BY <1>1
  <2>. QED  BY <1>2, <2>1 DEF Answering
<1>3. CASE Route
  <2>1. Head(controls) \in Controls  BY <1>3, Taken DEF Route, Typed
  <2>. QED  BY <1>3, <2>1 DEF Route, Answering
<1>4. CASE Answer
  <2>1. router.request \in Controls  BY <1>4 DEF Answering, Answer
  <2>2. router'.at = "send" /\ router'.request = router.request
    BY <1>4 DEF Answer, Typed, Router
  <2>3. \/ router'.item = State(Revision')
        \/ router'.item = ControlFailed(router.request)
    BY <1>4 DEF Answer, Typed, Router, Revision
  <2>4. Revision' \in 1..Revision'  BY <1>1 DEF Typed, Revision
  <2>. QED  BY <2>1, <2>2, <2>3, <2>4 DEF Answering
<1>5. CASE Refuse
  <2>1. /\ router'.at = "send" /\ router'.request = router.request
        /\ router'.item = ControlFailed(router.request)
    BY <1>5 DEF Refuse, Typed, Router
  <2>. QED  BY <1>5, <2>1 DEF Answering, Refuse
<1>6. CASE RouterSend  BY <1>6 DEF RouterSend, Answering
<1>7. CASE WorldChanges \/ HostGone \/ Feeds \/ Interface \/ Key \/ Over
  <2>1. router' = router
    BY <1>7 DEF WorldChanges, HostGone, Feeds, FeedReceive, FeedError, Reconnect, FeedSend,
                DiagnosticsLost, DiagnosticsSend, Interface, Drain, Drained, NoKey, Shutdown,
                Key, Over, vars, tasks
  <2>. QED  BY <1>2, <2>1
<1>. QED  BY <1>3, <1>4, <1>5, <1>6, <1>7 DEF Next, Routing

\* The interface never comes back.
LEMMA GoneForGood == ASSUME Typed, Next, Received' PROVE Received
  BY DEF Typed, Next, Received, WorldChanges, HostGone, Feeds, FeedReceive, FeedError, Reconnect,
         FeedSend, DiagnosticsLost, DiagnosticsSend, Routing, Route, Answer, Refuse, RouterSend,
         Interface, Drain, Drained, NoKey, Shutdown, Key, Over, vars

\* What the subscription has seen reaches the terminal.
LEMMA SeenStep ==
  ASSUME Typed, Answering, Told, GivenUp, SeenIsTold, Next, Typed'
  PROVE  SeenIsTold'
<1>. SUFFICES ASSUME Received' PROVE SeenIsTold'  BY DEF SeenIsTold
<1>0. Received  BY GoneForGood
<1>. DEFINE Covers(q, m, n) ==
              n <= m.revision \/ \E x \in ToSet(q) : IsState(x) /\ x.revision >= n
<1>1. feed.at = "send" \/ Covers(ingress, model, feed.seen)  BY <1>0 DEF SeenIsTold
<1>2. ASSUME feed'.at = "send" \/ Covers(ingress', model', feed'.seen) PROVE SeenIsTold'
  BY <1>2 DEF SeenIsTold
<1>3. ASSUME NEW x \in Items, Covers(ingress, model, feed.seen)
      PROVE  Covers(Append(ingress, x), model, feed.seen)
  <2>1. ToSet(Append(ingress, x)) = ToSet(ingress) \cup {x}  BY Joined DEF Typed
  <2>. QED  BY <1>3, <2>1
<1>4. CASE model' = model /\ ingress' = ingress /\ feed' = feed  BY <1>1, <1>2, <1>4
<1>5. CASE WorldChanges \/ HostGone \/ DiagnosticsLost \/ Route \/ Answer \/ Refuse
             \/ Drained \/ NoKey \/ Shutdown \/ Over
  BY <1>4, <1>5 DEF WorldChanges, HostGone, DiagnosticsLost, Route, Answer, Refuse, Drained,
                    NoKey, Shutdown, Over, vars, tasks
<1>6. CASE FeedReceive
  <2>1. feed'.at = "send"  BY <1>6 DEF FeedReceive
  <2>. QED  BY <1>2, <2>1
<1>7. CASE FeedError \/ Reconnect
  <2>1. feed.at # "send" /\ model' = model /\ ingress' = ingress
    BY <1>7 DEF FeedError, Reconnect
  <2>2. feed'.at = "send" \/ feed'.seen = feed.seen
    <3>1. CASE FeedError  BY <3>1 DEF FeedError, Typed, Feed
    <3>2. CASE Reconnect
      <4>1. [feed EXCEPT !.at = "last", !.item = Disconnected].seen = feed.seen
        BY DEF Typed, Feed
      <4>2. [at |-> "send", seen |-> Revision, item |-> State(Revision)].at = "send"  OBVIOUS
      <4>3. \/ feed' = [at |-> "send", seen |-> Revision, item |-> State(Revision)]
            \/ feed' = [feed EXCEPT !.at = "last", !.item = Disconnected]
        BY <3>2 DEF Reconnect
      <4>. QED  BY <4>1, <4>2, <4>3
    <3>. QED  BY <1>7, <3>1, <3>2
  <2>. QED  BY <1>1, <1>2, <2>1, <2>2
<1>8. CASE FeedSend
  <2>1. feed'.seen = feed.seen /\ model' = model  BY <1>8 DEF FeedSend, Typed, Feed
  <2>2. ingress' = Append(ingress, feed.item) /\ feed.at \in {"send", "last"}
    BY <1>0, <1>8 DEF FeedSend
  <2>3. feed.item \in Items  BY <1>8, Sendable DEF FeedSend
  <2>4. CASE feed.at = "last"
    <3>1. Covers(Append(ingress, feed.item), model, feed.seen)  BY <1>1, <1>3, <2>3, <2>4
    <3>. QED  BY <1>2, <2>1, <2>2, <3>1
  <2>5. CASE feed.at = "send"
    <3>1. IsState(feed.item) /\ feed.item.revision = feed.seen  BY <2>5 DEF Told, State, IsState
    <3>2. feed.item \in ToSet(Append(ingress, feed.item))  BY <2>3, Joined DEF Typed
    <3>3. feed.seen \in Nat  BY DEF Typed, Feed
    <3>4. Covers(Append(ingress, feed.item), model, feed.seen)  BY <3>1, <3>2, <3>3
    <3>. QED  BY <1>2, <2>1, <2>2, <3>4
  <2>. QED  BY <2>2, <2>4, <2>5
<1>9. CASE DiagnosticsSend
  <2>1. feed' = feed /\ model' = model /\ ingress' = Append(ingress, DiagnosticsUnavailable)
    BY <1>0, <1>9 DEF DiagnosticsSend
  <2>. QED  BY <1>1, <1>2, <1>3, <2>1, Sendable
<1>10. CASE RouterSend
  <2>1. feed' = feed /\ model' = model /\ ingress' = Append(ingress, router.item)
    BY <1>10 DEF RouterSend
  <2>2. router.item \in Items  BY <1>10, Sendable DEF RouterSend
  <2>. QED  BY <1>1, <1>2, <1>3, <2>1, <2>2
<1>11. CASE Drain
  <2>1. feed' = feed /\ model' = Apply(model, Head(ingress)) /\ ingress' = Tail(ingress)
    BY <1>11 DEF Drain, tasks
  <2>2. /\ Head(ingress) \in Items /\ Head(ingress) \in ToSet(ingress)
        /\ ToSet(ingress) = {Head(ingress)} \cup ToSet(Tail(ingress))
    BY <1>11, Taken DEF Drain, Typed
  <2>3. model'.revision = IF IsState(Head(ingress)) /\ Head(ingress).revision > model.revision
                          THEN Head(ingress).revision ELSE model.revision
    BY <2>1, <2>2, Applies DEF Told, Typed
  <2>4. /\ model.revision \in Nat /\ feed.seen \in Nat
        /\ IsState(Head(ingress)) => Head(ingress).revision \in Nat
    BY <2>2 DEF Typed, Models, Feed, Told
  <2>5. ASSUME Covers(ingress, model, feed.seen)
        PROVE  Covers(Tail(ingress), model', feed.seen)
    <3>1. CASE feed.seen <= model.revision  BY <2>3, <2>4, <3>1
    <3>2. ASSUME NEW x \in ToSet(ingress), IsState(x), x.revision >= feed.seen
          PROVE  Covers(Tail(ingress), model', feed.seen)
      <4>1. CASE x = Head(ingress)  BY <2>3, <2>4, <3>2, <4>1
      <4>2. CASE x \in ToSet(Tail(ingress))  BY <3>2, <4>2
      <4>. QED  BY <2>2, <4>1, <4>2
    <3>. QED  BY <2>5, <3>1, <3>2
  <2>. QED  BY <1>1, <1>2, <2>1, <2>5
<1>12. CASE Key
  <2>1. feed' = feed /\ ingress' = ingress  BY <1>12 DEF Key, tasks
  <2>2. model'.revision = model.revision  BY <1>12, Presses DEF Key, Typed
  <2>. QED  BY <1>1, <1>2, <2>1, <2>2
<1>. QED
  BY <1>5, <1>6, <1>7, <1>8, <1>9, <1>10, <1>11, <1>12 DEF Next, Feeds, Routing, Interface

\* The terminal forgets a request as soon as it shows what it asked for.
LEMMA UnfulfilledStep ==
  ASSUME Typed, Answering, Told, Unfulfilled, Next, Typed'
  PROVE  Unfulfilled'
<1>1. \A r \in 1..Revision : history'[r] = history[r]  BY HistoryGrows
<1>2. CASE Drain
  <2>1. model' = Apply(model, Head(ingress)) /\ history' = history  BY <1>2 DEF Drain
  <2>2. Head(ingress) \in Items /\ Head(ingress) \in ToSet(ingress)
    BY <1>2, Taken DEF Drain, Typed
  <2>3. /\ model'.pending \in {model.pending, None}
        /\ model'.revision # model.revision /\ Completed(model.pending, history[model'.revision])
             => model'.pending = None
    BY <2>1, <2>2, Applies DEF Told, Typed
  <2>4. model'.pending \in {"pause", "resume"} =>
          /\ model'.pending = model.pending
          /\ model'.revision # model.revision => ~Completed(model.pending, history[model'.revision])
    BY <2>3, NoneAssumption DEF Controls
  <2>. QED  BY <2>1, <2>4 DEF Unfulfilled
<1>3. CASE Key
  <2>1. PICK key \in Keys : model' = KeyEffect(model, key).model  BY <1>3 DEF Key
  <2>2. history' = history  BY <1>3 DEF Key
  <2>3. /\ model'.revision = model.revision
        /\ \/ model'.pending = model.pending
           \/ \E c \in Controls :
                /\ model'.pending = c
                /\ c \in {"pause", "resume"} => ~Completed(c, history[model.revision])
    BY <2>1, Presses DEF Typed
  <2>. QED  BY <2>2, <2>3 DEF Unfulfilled
<1>4. CASE WorldChanges \/ HostGone \/ Feeds \/ Routing \/ Drained \/ NoKey \/ Shutdown \/ Over
  <2>1. model' = model
    BY <1>4 DEF WorldChanges, HostGone, Feeds, FeedReceive, FeedError, Reconnect, FeedSend,
                DiagnosticsLost, DiagnosticsSend, Routing, Route, Answer, Refuse, RouterSend,
                Drained, NoKey, Shutdown, Over, vars
  <2>2. history'[model.revision] = history[model.revision]  BY <1>1 DEF Told
  <2>. QED  BY <2>1, <2>2 DEF Unfulfilled
<1>. QED  BY <1>2, <1>3, <1>4 DEF Next, Interface

\* What only the router and other clients change.
LEMMA HistoryFrame ==
  ASSUME Typed, HostGone \/ Feeds \/ Route \/ Refuse \/ RouterSend \/ Interface \/ Key \/ Over
  PROVE  history' = history /\ used'.others = used.others
<1>1. history' = history
  BY DEF HostGone, Feeds, FeedReceive, FeedError, Reconnect, FeedSend, DiagnosticsLost,
         DiagnosticsSend, Route, Refuse, RouterSend, Interface, Drain, Drained, NoKey,
         Shutdown, Key, Over, vars
<1>2. ASSUME NEW connection \in {"states", "diagnostics", "controls"}, Fault(connection)
      PROVE  used'.others = used.others
  BY <1>2 DEF Fault, Spend, Typed, Used
<1>3. CASE FeedError \/ Reconnect \/ DiagnosticsLost \/ Refuse
  BY <1>2, <1>3 DEF FeedError, Reconnect, DiagnosticsLost, Refuse
<1>4. CASE Key  BY <1>4 DEF Key, Typed, Used
<1>5. CASE HostGone \/ FeedReceive \/ FeedSend \/ DiagnosticsSend \/ Route \/ RouterSend
             \/ Interface \/ Over
  BY <1>5 DEF HostGone, FeedReceive, FeedSend, DiagnosticsSend, Route, RouterSend, Interface, Drain,
              Drained, NoKey, Shutdown, Over, vars
<1>. QED  BY <1>1, <1>3, <1>4, <1>5 DEF Feeds

\* An answer of the router stays true until the interface has it.
LEMMA AnswerStep ==
  ASSUME Typed, Answering, AnswerIsTrue, Next, Typed'
  PROVE  AnswerIsTrue'
<1>1. CASE WorldChanges
  <2>1. router' = router /\ used'.others = used.others + 1 /\ used.others \in Nat
    BY <1>1 DEF WorldChanges, tasks, Typed, Used
  <2>. QED  BY <2>1 DEF AnswerIsTrue, Fulfilled
<1>2. CASE Answer
  <2>. DEFINE then == Obey(router.request, Last(history))
  <2>1. router.request \in Controls /\ Last(history) \in Lifecycles
    BY <1>2 DEF Answering, Answer, Typed, Last
  <2>2. then \in Lifecycles /\ Completed(router.request, then)
    BY <1>2, <2>1, ObeyTypes DEF Answer
  <2>3. Last(history') = then
    <3>1. CASE then = Last(history)  BY <1>2, <3>1 DEF Answer
    <3>2. CASE then # Last(history)
      <4>1. history' = Append(history, then)  BY <1>2, <3>2 DEF Answer
      <4>. QED  BY <2>2, <4>1, Joined DEF Typed
    <3>. QED  BY <3>1, <3>2
  <2>4. router'.request = router.request  BY <1>2 DEF Answer, Typed, Router
  <2>. HIDE DEF then
  <2>5. Last(history)' = then  BY <2>3 DEF Last
  <2>. QED  BY <2>2, <2>4, <2>5 DEF AnswerIsTrue, Fulfilled
<1>3. CASE Refuse
  <2>1. router'.request = router.request /\ router'.item = ControlFailed(router.request)
    BY <1>3 DEF Refuse, Typed, Router
  <2>. QED  BY <2>1 DEF AnswerIsTrue
<1>4. CASE Route \/ RouterSend
  <2>1. router'.at # "send"  BY <1>4 DEF Route, RouterSend
  <2>. QED  BY <2>1 DEF AnswerIsTrue
<1>5. CASE HostGone \/ Feeds \/ Interface \/ Key \/ Over
  <2>1. router' = router
    BY <1>5 DEF HostGone, Feeds, FeedReceive, FeedError, Reconnect, FeedSend, DiagnosticsLost,
                DiagnosticsSend, Interface, Drain, Drained, NoKey, Shutdown, Key, Over, vars, tasks
  <2>2. history' = history /\ used'.others = used.others  BY <1>5, HistoryFrame
  <2>. QED  BY <2>1, <2>2 DEF AnswerIsTrue, Fulfilled, Last
<1>. QED  BY <1>1, <1>2, <1>3, <1>4, <1>5 DEF Next, Routing

\* The pending request is not lost.
LEMMA PendingStep ==
  ASSUME Typed, Answering, Told, GivenUp, AnswerIsTrue, PendingIsLast, Next, Typed'
  PROVE  PendingIsLast'
<1>. DEFINE p == model.pending
<1>1. ASSUME NEW x \in Items
      PROVE  ToSet(Append(ingress, x)) = ToSet(ingress) \cup {x}
  BY <1>1, Joined DEF Typed
<1>2. CASE WorldChanges
  <2>1. /\ model' = model /\ controls' = controls /\ router' = router /\ ingress' = ingress
        /\ used'.others = used.others + 1 /\ used.others \in Nat
    BY <1>2 DEF WorldChanges, tasks, Typed, Used
  <2>. QED  BY <2>1 DEF PendingIsLast, Fulfilled
<1>3. CASE HostGone \/ FeedReceive \/ FeedError \/ Reconnect \/ DiagnosticsLost \/ Drained \/ NoKey
             \/ Shutdown \/ Over
  <2>1. model' = model /\ controls' = controls /\ router' = router /\ ingress' = ingress
    BY <1>3 DEF HostGone, FeedReceive, FeedError, Reconnect, DiagnosticsLost, Drained, NoKey,
                Shutdown, Over, vars, tasks
  <2>2. history' = history /\ used'.others = used.others
    BY <1>3, HistoryFrame DEF Feeds, Interface
  <2>. QED  BY <2>1, <2>2 DEF PendingIsLast, Fulfilled, Last
<1>4. CASE FeedSend \/ DiagnosticsSend
  <2>1. model' = model /\ controls' = controls /\ router' = router
    BY <1>4 DEF FeedSend, DiagnosticsSend
  <2>2. history' = history /\ used'.others = used.others
    BY <1>4, HistoryFrame DEF Feeds
  <2>3. ingress' = ingress \/ \E x \in Items : ingress' = Append(ingress, x)
    BY <1>4, Sendable DEF FeedSend, DiagnosticsSend
  <2>4. ToSet(ingress) \subseteq ToSet(ingress')  BY <1>1, <2>3
  <2>. QED  BY <2>1, <2>2, <2>4 DEF PendingIsLast, Fulfilled, Last
<1>5. CASE Route
  <2>1. /\ model' = model /\ ingress' = ingress /\ controls # <<>>
        /\ router.at = "idle" /\ controls' = Tail(controls) /\ router'.request = Head(controls)
    BY <1>5 DEF Route
  <2>2. /\ Tail(controls) # <<>> => Last(Tail(controls)) = Last(controls)
        /\ Tail(controls) = <<>> => Last(controls) = Head(controls)
    BY <2>1, Taken DEF Typed
  <2>. QED  BY <2>1, <2>2 DEF PendingIsLast
<1>6. CASE Answer \/ Refuse
  <2>1. /\ model' = model /\ controls' = controls /\ ingress' = ingress
        /\ router.at = "asked" /\ router'.request = router.request
    BY <1>6 DEF Answer, Refuse, Typed, Router
  <2>2. p # None => p \in Controls /\ router.request \in Controls /\ router.request # None
    BY <2>1, NoneAssumption DEF Typed, Models, Answering
  <2>. QED  BY <2>1, <2>2 DEF PendingIsLast
<1>7. CASE RouterSend
  <2>1. /\ model' = model /\ controls' = controls /\ router.at = "send"
        /\ ingress' = Append(ingress, router.item) /\ router'.request = None
    BY <1>7 DEF RouterSend
  <2>2. history' = history /\ used'.others = used.others  BY <1>7, HistoryFrame
  <2>3. router.item \in Items  BY <2>1, Sendable
  <2>4. ToSet(ingress') = ToSet(ingress) \cup {router.item}  BY <1>1, <2>1, <2>3
  <2>5. router.item = ControlFailed(router.request) \/ Fulfilled(router.request)
    BY <2>1 DEF AnswerIsTrue
  <2>6. Fulfilled(p)' <=> Fulfilled(p)  BY <2>1, <2>2 DEF Fulfilled, Last
  <2>7. CASE controls = <<>> /\ router.request = p
    <3>1. ControlFailed(p) \in ToSet(ingress') \/ Fulfilled(p)'  BY <2>4, <2>5, <2>6, <2>7
    <3>. QED  BY <2>1, <2>7, <3>1 DEF PendingIsLast
  <2>8. router.request # None  BY <2>1, NoneAssumption DEF Answering
  <2>. QED  BY <2>1, <2>7, <2>8 DEF PendingIsLast
<1>8. CASE Drain
  <2>1. /\ model' = Apply(model, Head(ingress)) /\ ingress' = Tail(ingress)
        /\ controls' = controls /\ router' = router
    BY <1>8 DEF Drain, tasks
  <2>2. history' = history /\ used'.others = used.others  BY <1>8, HistoryFrame DEF Interface
  <2>3. /\ Head(ingress) \in Items /\ Head(ingress) \in ToSet(ingress)
        /\ ToSet(ingress) = {Head(ingress)} \cup ToSet(Tail(ingress))
    BY <1>8, Taken DEF Drain, Typed
  <2>4. /\ model'.pending \in {p, None}
        /\ Head(ingress) = ControlFailed(p) => model'.pending = None
    BY <2>1, <2>3, Applies DEF Told, Typed
  <2>. SUFFICES ASSUME model'.pending # None PROVE PendingIsLast'  BY DEF PendingIsLast
  <2>5. model'.pending = p /\ (ControlFailed(p) \in ToSet(ingress) =>
                                 ControlFailed(p) \in ToSet(ingress'))
    BY <2>1, <2>3, <2>4
  <2>. QED  BY <2>1, <2>2, <2>5 DEF PendingIsLast, Fulfilled, Last
<1>9. CASE Key
  <2>1. PICK key \in Keys : /\ model' = KeyEffect(model, key).model
                            /\ controls' = controls \o KeyEffect(model, key).emits
    BY <1>9 DEF Key
  <2>2. history' = history /\ used'.others = used.others  BY <1>9, HistoryFrame
  <2>3. ingress' = ingress /\ router' = router  BY <1>9 DEF Key, tasks
  <2>4. CASE model'.pending = p /\ KeyEffect(model, key).emits = <<>>
    <3>1. controls' = controls  BY <2>1, <2>4 DEF Typed
    <3>. QED  BY <2>2, <2>3, <2>4, <3>1 DEF PendingIsLast, Fulfilled, Last
  <2>5. ASSUME NEW c \in Controls, model'.pending = c, KeyEffect(model, key).emits = <<c>>
        PROVE  PendingIsLast'
    <3>1. controls' = Append(controls, c)  BY <2>1, <2>5 DEF Typed
    <3>2. Append(controls, c) # <<>> /\ Last(Append(controls, c)) = c  BY Joined DEF Typed
    <3>3. controls' # <<>> /\ Last(controls)' = model'.pending  BY <2>5, <3>1, <3>2 DEF Last
    <3>. QED  BY <3>3 DEF PendingIsLast
  <2>. QED  BY <2>1, <2>4, <2>5, Presses DEF Typed
<1>. QED
  BY <1>2, <1>3, <1>4, <1>5, <1>6, <1>7, <1>8, <1>9 DEF Next, Feeds, Routing, Interface

\* A world that is gone stays gone, and failures are not forgotten.
LEMMA LostForGood ==
  ASSUME Typed, Next
  PROVE  /\ ~served => ~served'
         /\ used'.states \in Nat /\ used'.states >= used.states
         /\ Lost => Lost'
<1>1. ~served => ~served'
  BY DEF Next, WorldChanges, HostGone, Feeds, FeedReceive, FeedError, Reconnect, FeedSend,
         DiagnosticsLost, DiagnosticsSend, Routing, Route, Answer, Refuse, RouterSend, Interface,
         Drain, Drained, NoKey, Shutdown, Key, Over, vars
<1>. DEFINE Counted == used'.states = used.states \/ used'.states = used.states + 1
<1>2. used.states \in Nat  BY DEF Typed, Used
<1>3. Counted
  <2>1. ASSUME NEW connection \in {"states", "diagnostics", "controls"},
               Fault(connection) \/ Spend(connection)
        PROVE  Counted
    BY <2>1 DEF Fault, Spend, Typed, Used
  <2>2. CASE WorldChanges  BY <2>2 DEF WorldChanges, Typed, Used
  <2>3. CASE Key  BY <2>3 DEF Key, Typed, Used
  <2>4. CASE FeedError \/ Reconnect \/ DiagnosticsLost \/ Refuse \/ Answer
    BY <2>1, <2>4 DEF FeedError, Reconnect, DiagnosticsLost, Refuse, Answer
  <2>5. CASE HostGone \/ FeedReceive \/ FeedSend \/ DiagnosticsSend \/ Route \/ RouterSend
               \/ Interface \/ Over
    BY <2>5 DEF HostGone, FeedReceive, FeedSend, DiagnosticsSend, Route, RouterSend, Interface,
                Drain, Drained, NoKey, Shutdown, Over, vars
  <2>. QED  BY <2>2, <2>3, <2>4, <2>5 DEF Next, Feeds, Routing
<1>. QED  BY <1>1, <1>2, <1>3 DEF Lost

\* A failure of the state stream is counted, unless the world is gone.
LEMMA StateFault ==
  ASSUME Typed, Fault("states"), served' = served
  PROVE  ~served' \/ (used'.states = used.states + 1 /\ used.states \in Nat)
  BY DEF Fault, Spend, Typed, Used

\* The state stream is given up for a reason.
LEMMA GivenUpStep ==
  ASSUME Typed, Answering, Told, GivenUp, Next, Typed'
  PROVE  GivenUp'
<1>1. /\ ~served => ~served'
      /\ used'.states \in Nat /\ used.states \in Nat /\ used'.states >= used.states
      /\ Lost => Lost'
  BY LostForGood DEF Typed, Used
<1>2. ASSUME NEW x \in Items
      PROVE  Disconnected \in ToSet(Append(ingress, x)) =>
               Disconnected \in ToSet(ingress) \/ x = Disconnected
  BY <1>2, Joined DEF Typed
<1>3. \A r : State(r) # Disconnected  BY DEF State, Disconnected
<1>4. DiagnosticsUnavailable # Disconnected /\ \A c : ControlFailed(c) # Disconnected
  BY DEF DiagnosticsUnavailable, ControlFailed, Disconnected
<1>5. Disconnected \in ToSet(ingress') => Lost'
  <2>1. CASE FeedSend
    <3>1. feed.item \in Items  BY <2>1, Sendable DEF FeedSend
    <3>2. feed.item = Disconnected => Lost
      <4>1. feed.at = "send" => feed.item # Disconnected  BY <1>3 DEF Told
      <4>. QED  BY <2>1, <4>1 DEF FeedSend, GivenUp
    <3>3. ingress' = ingress \/ ingress' = Append(ingress, feed.item)  BY <2>1 DEF FeedSend
    <3>. QED  BY <1>1, <1>2, <3>1, <3>2, <3>3 DEF GivenUp
  <2>2. CASE DiagnosticsSend
    <3>1. ingress' = ingress \/ ingress' = Append(ingress, DiagnosticsUnavailable)
      BY <2>2 DEF DiagnosticsSend
    <3>. QED  BY <1>1, <1>2, <1>4, <3>1, Sendable DEF GivenUp
  <2>3. CASE RouterSend
    <3>1. ingress' = Append(ingress, router.item) /\ router.item \in Items
      BY <2>3, Sendable DEF RouterSend
    <3>2. router.item # Disconnected  BY <1>3, <1>4, <2>3 DEF RouterSend, Answering
    <3>. QED  BY <1>1, <1>2, <3>1, <3>2 DEF GivenUp
  <2>4. CASE Drain
    <3>1. ToSet(ingress') \subseteq ToSet(ingress)  BY <2>4, Taken DEF Drain, Typed
    <3>. QED  BY <1>1, <3>1 DEF GivenUp
  <2>5. CASE WorldChanges \/ HostGone \/ FeedReceive \/ FeedError \/ Reconnect \/ DiagnosticsLost
               \/ Route \/ Answer \/ Refuse \/ Drained \/ NoKey \/ Shutdown \/ Key \/ Over
    <3>1. ingress' = ingress
      BY <2>5 DEF WorldChanges, HostGone, FeedReceive, FeedError, Reconnect, DiagnosticsLost,
                  Route, Answer, Refuse, Drained, NoKey, Shutdown, Key, Over, vars
    <3>. QED  BY <1>1, <3>1 DEF GivenUp
  <2>. QED  BY <2>1, <2>2, <2>3, <2>4, <2>5 DEF Next, Feeds, Routing, Interface
<1>6. CASE FeedReceive \/ FeedSend
  <2>1. feed'.at \notin {"reconnect", "last"}
    <3>1. CASE FeedReceive  BY <3>1 DEF FeedReceive
    <3>2. CASE FeedSend  BY <3>2 DEF FeedSend, Typed, Feed
    <3>. QED  BY <1>6, <3>1, <3>2
  <2>. QED  BY <1>5, <2>1 DEF GivenUp
<1>7. CASE FeedError
  <2>1. served' = served /\ feed'.at = "reconnect"  BY <1>7 DEF FeedError, Typed, Feed
  <2>2. ~served' \/ used'.states >= 1  BY <1>7, <2>1, StateFault DEF FeedError
  <2>. QED  BY <1>5, <2>1, <2>2 DEF GivenUp
<1>8. CASE Reconnect
  <2>1. CASE feed' = [at |-> "send", seen |-> Revision, item |-> State(Revision)]
    BY <1>5, <2>1 DEF GivenUp
  <2>2. CASE Fault("states") /\ feed' = [feed EXCEPT !.at = "last", !.item = Disconnected]
    <3>1. feed'.at = "last" /\ feed'.item = Disconnected  BY <2>2 DEF Typed, Feed
    <3>2. served' = served /\ (~served \/ used.states >= 1)  BY <1>8 DEF Reconnect, GivenUp
    <3>3. Lost'  BY <1>1, <2>2, <3>2, StateFault DEF Lost
    <3>. QED  BY <1>5, <3>1, <3>3 DEF GivenUp
  <2>. QED  BY <1>8, <2>1, <2>2 DEF Reconnect
<1>9. CASE WorldChanges \/ HostGone \/ DiagnosticsLost \/ DiagnosticsSend \/ Routing \/ Interface
              \/ Key \/ Over
  <2>1. feed' = feed
    BY <1>9 DEF WorldChanges, HostGone, DiagnosticsLost, DiagnosticsSend, Routing, Route, Answer,
                 Refuse, RouterSend, Interface, Drain, Drained, NoKey, Shutdown, Key, Over, vars,
                 tasks
  <2>. QED  BY <1>1, <1>5, <2>1 DEF GivenUp
<1>. QED  BY <1>6, <1>7, <1>8, <1>9 DEF Next, Feeds

\* The terminal gives a reason only when there is one.
LEMMA OutcomeStep ==
  ASSUME Typed, Answering, Told, GivenUp, OutcomeIsTrue, Next
  PROVE  OutcomeIsTrue'
<1>1. /\ ToSet(history) \subseteq ToSet(history') /\ (~served => ~served') /\ (Lost => Lost')
  BY HistoryGrows, LostForGood
<1>. DEFINE Over_ == model.exit \in {"stopped", "ended"}
            True_ == Lost \/ "failed" \in ToSet(history)
<1>2. (Over_ => True_) /\ (True_ => True_') /\ ((Over_' => True_') => OutcomeIsTrue')
  BY <1>1 DEF OutcomeIsTrue, Lost
<1>3. CASE Drain
  <2>1. model' = Apply(model, Head(ingress))  BY <1>3 DEF Drain
  <2>2. Head(ingress) \in Items /\ Head(ingress) \in ToSet(ingress)
    BY <1>3, Taken DEF Drain, Typed
  <2>3. Over_' => Over_ \/ Head(ingress) = Disconnected \/ "failed" \in ToSet(history)
    BY <2>1, <2>2, Applies DEF Told, Typed
  <2>4. Head(ingress) = Disconnected => True_  BY <2>2 DEF GivenUp
  <2>. QED  BY <1>2, <2>3, <2>4
<1>4. CASE Key
  <2>1. model'.exit \in {model.exit, "detached"}  BY <1>4, Presses DEF Key, Typed
  <2>. QED  BY <1>2, <2>1
<1>5. CASE WorldChanges \/ HostGone \/ Feeds \/ Routing \/ Drained \/ NoKey \/ Shutdown \/ Over
  <2>1. model' = model
    BY <1>5 DEF WorldChanges, HostGone, Feeds, FeedReceive, FeedError, Reconnect, FeedSend,
                DiagnosticsLost, DiagnosticsSend, Routing, Route, Answer, Refuse, RouterSend,
                Drained, NoKey, Shutdown, Over, vars
  <2>. QED  BY <1>2, <2>1
<1>. QED  BY <1>3, <1>4, <1>5 DEF Next, Interface

-----------------------------------------------------------------------------
(* The theorems. *)

\* Each fact of the invariant holds in every state that is reached.
THEOREM Invariant == Spec => []IInv
<1>1. Init => IInv
  <2>. SUFFICES ASSUME Init PROVE IInv  OBVIOUS
  <2>1. PICK l \in {"running", "paused"} : history = <<l>>
    BY BoundsAssumption DEF Init
  <2>2. history \in Seq(Lifecycles) /\ history # <<>> /\ Len(history) = 1
    BY <2>1 DEF Lifecycles, Ready
  <2>3. ToSet(ingress) = {}  BY DEF Init, ToSet
  <2>4. model \in Models  BY DEF Init, NewModel, Models
  <2>5. feed \in Feed /\ router \in Router /\ used \in Used
    BY DEF Init, Feed, Router, Used
  <2>6. Typed  BY <2>2, <2>4, <2>5 DEF Init, Typed
  <2>7. Answering /\ Told  BY <2>2, <2>3 DEF Init, Answering, Told, NewModel, Revision
  <2>8. SeenIsTold  BY DEF Init, SeenIsTold, NewModel
  <2>9. Unfulfilled /\ PendingIsLast
    BY NoneAssumption DEF Init, Unfulfilled, PendingIsLast, NewModel, Controls
  <2>10. AnswerIsTrue /\ GivenUp  BY <2>3 DEF Init, AnswerIsTrue, GivenUp
  <2>11. OutcomeIsTrue  BY NoneAssumption DEF Init, OutcomeIsTrue, NewModel
  <2>. QED  BY <2>6, <2>7, <2>8, <2>9, <2>10, <2>11 DEF IInv
<1>2. IInv /\ [Next]_vars => IInv'
  <2>1. ASSUME IInv, Next PROVE IInv'
    <3>1. Typed'  BY <2>1, TypedStep DEF IInv
    <3>2. Answering' /\ Told' /\ SeenIsTold'
      BY <2>1, <3>1, AnsweringStep, ToldStep, SeenStep DEF IInv
    <3>3. Unfulfilled' /\ AnswerIsTrue' /\ PendingIsLast'
      BY <2>1, <3>1, UnfulfilledStep, AnswerStep, PendingStep DEF IInv
    <3>4. GivenUp' /\ OutcomeIsTrue'  BY <2>1, <3>1, GivenUpStep, OutcomeStep DEF IInv
    <3>. QED  BY <3>1, <3>2, <3>3, <3>4 DEF IInv
  <2>2. ASSUME IInv, UNCHANGED vars PROVE IInv'
    BY <2>2 DEF IInv, vars, tasks, Typed, Answering, Told, SeenIsTold, Received, Unfulfilled,
                AnswerIsTrue, PendingIsLast, Fulfilled, GivenUp, Lost, OutcomeIsTrue, Revision,
                Last, ToSet, IsState, Completed
  <2>. QED  BY <2>1, <2>2
<1>. QED  BY <1>1, <1>2, PTL DEF Spec

\* The state shown is the last one, whenever nothing is on its way.
THEOREM ShowsTheLastState == Spec => []ViewIsCurrent
<1>1. IInv => ViewIsCurrent
  <2>. SUFFICES ASSUME IInv, Received, feed.at = "recv", feed.seen = Revision, InFlight = {}
                PROVE  model.revision = Revision
    BY DEF ViewIsCurrent
  <2>1. ToSet(ingress) = {}  BY DEF InFlight
  <2>2. feed.seen <= model.revision  BY <2>1 DEF IInv, SeenIsTold
  <2>3. model.revision \in 1..Revision /\ Revision \in Nat  BY DEF IInv, Told, Typed, Revision
  <2>. QED  BY <2>2, <2>3
<1>. QED  BY <1>1, Invariant, PTL

\* A terminal that waits is not waiting for nothing.
THEOREM NeverWaitsInVain == Spec => []PendingIsAnsweredOrUndone
<1>1. IInv => PendingIsAnsweredOrUndone
  <2>. SUFFICES ASSUME IInv, model.pending # None, ~(model.revision < Revision),
                       Last(history) \in Ready, ControlFailed(model.pending) \notin ToSet(ingress),
                       model.pending \notin ToSet(controls) \cup {router.request}
                PROVE  used.others > 0 /\ ~Completed(model.pending, Last(history))
    BY DEF PendingIsAnsweredOrUndone, InFlight
  <2>1. model.revision = Revision  BY DEF IInv, Told, Typed, Revision
  <2>2. history[model.revision] = Last(history)  BY <2>1 DEF Revision, Last
  <2>3. ~Completed(model.pending, Last(history))
    <3>1. CASE model.pending \in {"pause", "resume"}  BY <2>2, <3>1 DEF IInv, Unfulfilled
    <3>2. CASE model.pending = "stop"  BY <3>2 DEF Completed, Ready
    <3>. QED  BY <3>1, <3>2 DEF IInv, Typed, Models, Controls
  <2>4. controls # <<>> => Last(controls) \in ToSet(controls)
    <3>. SUFFICES ASSUME controls # <<>> PROVE Last(controls) \in ToSet(controls)  OBVIOUS
    <3>1. controls \in Seq(Controls)  BY DEF IInv, Typed
    <3>2. Len(controls) \in DOMAIN controls  BY <3>1
    <3>. QED  BY <3>2 DEF Last, ToSet
  <2>5. Fulfilled(model.pending)  BY <2>4 DEF IInv, PendingIsLast
  <2>. QED  BY <2>3, <2>5 DEF Fulfilled
<1>. QED  BY <1>1, Invariant, PTL

\* A terminal says that its world ended only when it did, or was lost twice.
THEOREM EndsForAReason == Spec => []OutcomeIsTrue
<1>1. IInv => OutcomeIsTrue  BY DEF IInv
<1>. QED  BY <1>1, Invariant, PTL
=============================================================================
