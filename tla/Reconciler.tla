----------------------------- MODULE Reconciler -----------------------------
(***************************************************************************)
(* The snapshot-plus-follow reconciliation of cli/src/reconcile.rs, as pure *)
(* operators.  An item is its cursor's sequence number: nothing in the     *)
(* reconciler looks at anything else of it.                                *)
(*                                                                         *)
(* A reconciler is a record: the cursor installed last (None before the    *)
(* first), the follow items held back while a query is out, and whether    *)
(* one is.                                                                 *)
(***************************************************************************)
EXTENDS Naturals, Sequences, SequencesExt

CONSTANTS None, BufferCapacity

ASSUME BufferAssumption == BufferCapacity \in Nat \ {0} /\ None \notin Nat

NewReconciler == [cursor |-> None, buffer |-> <<>>, querying |-> TRUE]

BeginQuery(r) == [r EXCEPT !.querying = TRUE]

\* A full buffer loses its oldest item.
Hold(r, n) ==
  [r EXCEPT !.buffer =
     Append(IF Len(@) = BufferCapacity THEN Tail(@) ELSE @, n)]

\* Mutant: whatever comes after an installed cursor is appended.
FollowAnything(r, n) ==
  IF r.querying THEN [outcome |-> "buffered", r |-> Hold(r, n)]
  ELSE [outcome |-> "append", r |-> [r EXCEPT !.cursor = n]]

\* Mutant: an item that is not the next one is passed over.
FollowSkipsHole(r, n) ==
  IF r.querying \/ r.cursor = None \/ n # r.cursor + 1
  THEN [outcome |-> "buffered", r |-> r]
  ELSE [outcome |-> "append", r |-> [r EXCEPT !.cursor = n]]

\* One item of the live feed: held back, appended, or the proof of a hole.
Follow(r, n) ==
  IF r.querying THEN [outcome |-> "buffered", r |-> Hold(r, n)]
  ELSE IF r.cursor # None /\ n = r.cursor + 1
    THEN [outcome |-> "append", r |-> [r EXCEPT !.cursor = n]]
  ELSE [outcome |-> "requery",
        r |-> [BeginQuery(r) EXCEPT !.buffer = IF r.cursor = None THEN @ ELSE <<>>]]

\* What is held back is replayed onto the snapshot's cursor in its order: an
\* item the cursor covers is skipped, a hole ends the replay.
ReplayOne(acc, n) ==
  IF acc.hole \/ n <= acc.cursor THEN acc
  ELSE IF n = acc.cursor + 1 THEN [acc EXCEPT !.cursor = n, !.items = Append(@, n)]
  ELSE [acc EXCEPT !.hole = TRUE]

Replay(cursor, buffer) ==
  LET after[k \in 0..Len(buffer)] ==
        IF k = 0 THEN [cursor |-> cursor, items |-> <<>>, hole |-> FALSE]
        ELSE ReplayOne(after[k - 1], buffer[k])
  IN  after[Len(buffer)]

Install(r, cursor) ==
  LET replay == Replay(cursor, r.buffer)
  IN  IF replay.hole
      THEN [outcome |-> "requery", replay |-> <<>>,
            r |-> [BeginQuery(r) EXCEPT !.buffer = <<>>]]
      ELSE [outcome |-> "installed", replay |-> replay.items,
            r |-> [cursor |-> replay.cursor, buffer |-> <<>>, querying |-> FALSE]]
=============================================================================
