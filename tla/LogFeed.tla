------------------------------ MODULE LogFeed ------------------------------
(***************************************************************************)
(* The logs of an execution on their way to the terminal: the supervisor's *)
(* retained history and its live feed (external), the feed task that       *)
(* reconciles the two (cli/src/attach/feeds/logs.rs, reconcile.rs), the    *)
(* bounded store it fills (attach/state/logs.rs), and the dashboard that   *)
(* reads the store when it is told that it changed (application/session.rs,*)
(* crates/ui/src/app/update.rs, subscriptions.rs).                         *)
(*                                                                         *)
(* The three run concurrently: the feed and every store read are tasks,    *)
(* the dashboard is a thread of its own.  They share the store, under its  *)
(* lock, and the channels between them.                                    *)
(*                                                                         *)
(* Abstractions: a log record is its sequence number, which also stands    *)
(* for its event time.  There is one attachment, hence one epoch.  The     *)
(* telemetry feed and its store have the same shape and are not modelled   *)
(* twice.                                                                  *)
(***************************************************************************)
EXTENDS Reconciler, Integers, FiniteSets

CONSTANTS
  Retained,     \* the records the supervisor retains at the attachment
  MaxRecord,    \* bound: the last record it collects
  MaxTaps,      \* bound: keys the operator presses
  Page,         \* PAGE, the records of one snapshot
  LogCapacity,  \* LOG_CAPACITY, the rows of the store
  EventRoom,    \* EVENT_CAPACITY, the announcements in flight
  InitialDelay, \* the backoff's first delay
  MaximumDelay, \* and its largest
  Lossy         \* whether the bus may lose a follow record

ASSUME FeedAssumption ==
  /\ Retained \in Nat /\ MaxRecord \in Nat /\ MaxTaps \in Nat
  /\ Retained <= MaxRecord
  /\ {Page, LogCapacity, EventRoom} \subseteq Nat \ {0}
  /\ Page <= LogCapacity
  /\ {InitialDelay, MaximumDelay} \subseteq Nat \ {0}
  /\ InitialDelay <= MaximumDelay
  /\ Lossy \in BOOLEAN

VARIABLES
  collected,    \* the newest record the supervisor retains
  transit,      \* follow records published and not received yet
  queue,        \* follow records the subscriber holds
  lost,         \* follow records that never arrive
  feed,         \* where the feed task is
  page,         \* the snapshot it was answered
  rec,          \* its Reconciler
  delay,        \* its RetryBackoff
  unsent,       \* the revision it is about to announce
  store,        \* the LogStore
  events,       \* announcements on their way to the dashboard
  reads,        \* store reads the dashboard has asked for
  replies,      \* their answers on the way back
  mailbox,      \* PendingInputs: one slot for each kind of input
  view,         \* the dashboard's log page
  taps          \* keys pressed so far

bus      == <<collected, transit, queue, lost>>
task     == <<feed, page, rec, delay, unsent>>
channels == <<events, reads, replies>>
terminal == <<mailbox, view, taps>>
logVars  == <<bus, task, store, channels, terminal>>

Filters == {"all", "odd"}
Matches(f, n) == f = "all" \/ n % 2 = 1

NewestOf(rows) == IF rows = <<>> THEN 0 ELSE rows[Len(rows)]

\* The last m elements of a sequence.
Newest(rows, m) ==
  IF Len(rows) <= m THEN rows ELSE SubSeq(rows, Len(rows) - m + 1, Len(rows))

Counting(from, to) == [i \in 1..(to - from + 1) |-> from + i - 1]

LogInit ==
  /\ collected = Retained
  /\ transit = <<>> /\ queue = <<>> /\ lost = {}
  /\ feed = "query"
  /\ page = [cursor |-> 0, records |-> <<>>]
  /\ rec = NewReconciler
  /\ delay = InitialDelay
  /\ unsent = 0
  /\ store = [rows |-> <<>>, revision |-> 0, pending |-> FALSE]
  /\ events = <<>> /\ reads = {} /\ replies = <<>>
  /\ mailbox = [changed |-> None, reply |-> None]
  /\ view = [rows |-> <<>>, known |-> 0, dirty |-> None, inFlight |-> None,
             token |-> 0, filter |-> "all", follow |-> TRUE, anchor |-> None]
  /\ taps = 0

(***************************************************************************)
(* The supervisor and the bus.                                             *)
(***************************************************************************)
Collect ==
  /\ collected < MaxRecord
  /\ collected' = collected + 1
  /\ transit' = Append(transit, collected + 1)
  /\ UNCHANGED <<queue, lost, task, store, channels, terminal>>

Deliver ==
  /\ transit # <<>>
  /\ transit' = Tail(transit)
  /\ queue' = Append(queue, Head(transit))
  /\ UNCHANGED <<collected, lost, task, store, channels, terminal>>

Lose ==
  /\ Lossy
  /\ transit # <<>>
  /\ transit' = Tail(transit)
  /\ lost' = lost \cup {Head(transit)}
  /\ UNCHANGED <<collected, queue, task, store, channels, terminal>>

\* A page is the newest records, and its cursor the newest of them.
Answer ==
  /\ feed = "asked"
  /\ feed' = "answered"
  /\ page' = [cursor |-> collected, records |-> Newest(Counting(1, collected), Page)]
  /\ UNCHANGED <<bus, rec, delay, unsent, store, channels, terminal>>

(***************************************************************************)
(* LogStore.  An announcement is due only when none is unread.             *)
(***************************************************************************)
Record(s, n) ==
  [rows |-> Newest(Append(s.rows, n), LogCapacity),
   revision |-> s.revision + 1, pending |-> TRUE]

\* A page that changes nothing is not a change; another one replaces the
\* rows one record at a time and counts once more for itself.
InstallSnapshot(s, rows) ==
  IF rows = s.rows THEN s
  ELSE [rows |-> Newest(rows, LogCapacity),
        revision |-> s.revision + Len(rows) + 1, pending |-> TRUE]

\* The feed's next step after the store went from store to s.
Announce(s) ==
  /\ store' = s
  /\ IF s # store /\ ~store.pending
     THEN feed' = "send" /\ unsent' = s.revision
     ELSE feed' = "follow" /\ unsent' = 0

(***************************************************************************)
(* The feed task.                                                          *)
(***************************************************************************)
Ask ==
  /\ feed = "query"
  /\ feed' = "asked"
  /\ rec' = BeginQuery(rec)
  /\ UNCHANGED <<bus, page, delay, unsent, store, channels, terminal>>

\* What is queued is dropped before the delay, and the delay doubles.
Requery ==
  /\ feed' = "backoff"
  /\ queue' = <<>>
  /\ delay' = IF 2 * delay < MaximumDelay THEN 2 * delay ELSE MaximumDelay
  /\ UNCHANGED <<unsent, store>>

InstallPage ==
  /\ feed = "answered"
  /\ LET o == Install(rec, page.cursor)
     IN  /\ rec' = o.r
         /\ IF o.outcome = "requery" THEN Requery
            ELSE /\ Announce(InstallSnapshot(store, page.records \o o.replay))
                 /\ delay' = InitialDelay
                 /\ UNCHANGED queue
  /\ UNCHANGED <<collected, transit, lost, page, channels, terminal>>

FollowRecord ==
  /\ feed = "follow"
  /\ queue # <<>>
  /\ LET o == Follow(rec, Head(queue))
     IN  /\ rec' = o.r
         /\ IF o.outcome = "requery" THEN Requery
            ELSE /\ Announce(IF o.outcome = "append" THEN Record(store, Head(queue))
                             ELSE store)
                 /\ queue' = Tail(queue)
                 /\ UNCHANGED delay
  /\ UNCHANGED <<collected, transit, lost, page, channels, terminal>>

Send ==
  /\ feed = "send"
  /\ Len(events) < EventRoom
  /\ events' = Append(events, unsent)
  /\ feed' = "follow"
  /\ unsent' = 0
  /\ UNCHANGED <<bus, page, rec, delay, store, reads, replies, terminal>>

Retry ==
  /\ feed = "backoff"
  /\ feed' = "query"
  /\ UNCHANGED <<bus, page, rec, delay, unsent, store, channels, terminal>>

\* A query or a subscription that fails ends the feed; the attachment stays.
FeedFails ==
  /\ feed \in {"asked", "follow"}
  /\ feed' = "failed"
  /\ UNCHANGED <<bus, page, rec, delay, unsent, store, channels, terminal>>

(***************************************************************************)
(* Store reads, and the way of inputs into the mailbox.                    *)
(***************************************************************************)
ReadStore(q) ==
  /\ q \in reads
  /\ reads' = reads \ {q}
  /\ store' = [store EXCEPT !.pending = FALSE]
  /\ replies' = Append(replies, [token |-> q.token, revision |-> store.revision,
       rows |-> SelectSeq(store.rows, LAMBDA n : Matches(q.filter, n)
                                                  /\ (q.anchor = None \/ n <= q.anchor))])
  /\ UNCHANGED <<bus, task, events, terminal>>

\* A slot keeps only the newest input of its kind.
PushChanged ==
  /\ events # <<>>
  /\ events' = Tail(events)
  /\ mailbox' = [mailbox EXCEPT !.changed = Head(events)]
  /\ UNCHANGED <<bus, task, store, reads, replies, view, taps>>

PushReply ==
  /\ replies # <<>>
  /\ replies' = Tail(replies)
  /\ mailbox' = [mailbox EXCEPT !.reply = Head(replies)]
  /\ UNCHANGED <<bus, task, store, events, reads, view, taps>>

(***************************************************************************)
(* The dashboard: one read at a time, for the newest revision it heard of. *)
(***************************************************************************)
NewestRevision(dirty, r) == IF dirty = None \/ dirty < r THEN r ELSE dirty

\* issue_logs_if_idle
Issue(v) ==
  IF v.inFlight # None \/ v.dirty = None THEN v
  ELSE [v EXCEPT !.dirty = None, !.token = @ + 1,
                 !.inFlight = [token |-> v.token + 1, observed |-> v.dirty,
                               filter |-> v.filter, anchor |-> v.anchor]]

\* Mutant: an announcement that arrives during a read is taken for that read.
InvalidateIdle(v, r) ==
  IF r = None \/ v.inFlight # None THEN v
  ELSE Issue([v EXCEPT !.dirty = NewestRevision(@, r)])

\* invalidate_logs
Invalidate(v, r) ==
  IF r = None THEN v ELSE Issue([v EXCEPT !.dirty = NewestRevision(@, r)])

\* accept_logs
Accept(v, w) ==
  IF w = None \/ v.inFlight = None THEN v
  ELSE IF w.token # v.inFlight.token \/ w.revision < v.inFlight.observed
    THEN Issue([v EXCEPT !.inFlight = None,
                         !.dirty = NewestRevision(@, v.inFlight.observed)])
  ELSE Issue([v EXCEPT !.rows = w.rows, !.known = w.revision, !.inFlight = None])

\* refresh_logs
Refresh(v) == Issue([v EXCEPT !.dirty = v.known])

\* The dashboard goes from view to v, and a read it issued is spawned.
Show(v) ==
  /\ view' = v
  /\ reads' = IF v.inFlight # None /\ v.inFlight # view.inFlight
              THEN reads \cup {v.inFlight} ELSE reads

\* One turn of the loop takes every slot, in the order of the slots.
Drain ==
  /\ mailbox # [changed |-> None, reply |-> None]
  /\ mailbox' = [changed |-> None, reply |-> None]
  /\ Show(Accept(Invalidate(view, mailbox.changed), mailbox.reply))
  /\ UNCHANGED <<bus, task, store, events, replies, taps>>

Tap(v) ==
  /\ taps < MaxTaps
  /\ taps' = taps + 1
  /\ Show(v)
  /\ UNCHANGED <<bus, task, store, events, replies, mailbox>>

ChangeFilter == \E f \in Filters : Tap(Refresh([view EXCEPT !.filter = f]))

\* Space while it follows, or Up at any time: the page holds still at the
\* newest row it shows, or at this moment when it shows none.
Pause ==
  Tap([view EXCEPT !.follow = FALSE,
                   !.anchor = IF view.rows = <<>> THEN collected
                              ELSE NewestOf(view.rows)])

\* Space or End.
Resume ==
  /\ ~view.follow
  /\ Tap([view EXCEPT !.follow = TRUE, !.anchor = None])

\* `l` on a runtime opens its logs afresh.
Jump == Tap(Refresh([view EXCEPT !.filter = "odd", !.follow = TRUE, !.anchor = None]))

FeedStep == Ask \/ InstallPage \/ FollowRecord \/ Send \/ Retry
Dashboard == PushChanged \/ PushReply \/ Drain
Operator == ChangeFilter \/ Pause \/ Resume \/ Jump

LogNext == \/ Collect \/ Deliver \/ Lose \/ Answer
           \/ FeedStep \/ FeedFails
           \/ \E q \in reads : ReadStore(q)
           \/ Dashboard \/ Operator

LogSpec == LogInit /\ [][LogNext]_logVars

\* The runtime polls every task that can make progress, the terminal loop
\* turns every 50 ms, and a supervisor that is there answers and delivers.
\* Nothing is assumed of the operator, or of failures.
Fairness == /\ WF_logVars(FeedStep)
            /\ WF_logVars(Answer)
            /\ WF_logVars(Deliver)
            /\ WF_logVars(\E q \in reads : ReadStore(q))
            /\ WF_logVars(PushChanged) /\ WF_logVars(PushReply) /\ WF_logVars(Drain)

FairSpec == LogSpec /\ Fairness

(***************************************************************************)
(* Safety.                                                                 *)
(***************************************************************************)
\* What the store holds is an unbroken stretch of the supervisor's history
\* that ends at the installed cursor, whatever the bus lost or delivered late
\* (Reconciler::follow, install).
StoreHasNoHole ==
  IF rec.cursor = None THEN store.rows = <<>>
  ELSE store.rows = Counting(rec.cursor - Len(store.rows) + 1, rec.cursor)

(***************************************************************************)
(* Liveness.  The records and the keys of a behaviour are finitely many.   *)
(***************************************************************************)
\* The page ends up at the store's last revision.
PageCatchesUp == <>[](view.known = store.revision)

\* The store ends up at the supervisor's last record, unless its feed failed
\* or the bus lost that very record: a tail that is lost leaves no hole.
StoreCatchesUp ==
  <>[](feed = "failed" \/ collected \in lost \/ rec.cursor = collected)

=============================================================================
