---------------------------- MODULE PadRegistry ----------------------------
(***************************************************************************)
(* The controller inventory of a client (cli/src/joypad/registry.rs): the  *)
(* pads it knows under stable ids, the one that is selected, and whether   *)
(* that one has manual authority.  Every operation is an operator from a   *)
(* registry to a registry; ManualInput drives them.                        *)
(*                                                                         *)
(* Abstractions: a stable id is the pad's base id (uuid or name) with its  *)
(* disambiguating number.  An entry is connected exactly when it has a     *)
(* handle: the code always sets the two together.  Names and the text of   *)
(* the last rejection are left out.                                        *)
(***************************************************************************)
EXTENDS Naturals, FiniteSets, Sequences

CONSTANTS
  None,
  Pads,        \* the physical pads, each with its backend handle
  Base,        \* pad -> uuid: identical pads share one
  Compatible,  \* the pads whose controls have a mapping
  MaxDevices   \* MAX_DEVICE_REGISTRY

ASSUME RegistryAssumption ==
  /\ None \notin Pads
  /\ Compatible \subseteq Pads
  /\ MaxDevices \in Nat \ {0}
  /\ IsFiniteSet(Pads)

Ids == {<<Base[p], n>> : p \in Pads, n \in 1..(Cardinality(Pads) + 1)}

EmptyRegistry == [entries |-> [i \in {} |-> None], order |-> <<>>, selected |-> None,
                  enabled |-> FALSE]

Known(r) == DOMAIN r.entries
Connected(r, i) == i \in Known(r) /\ r.entries[i].handle # None
Ready(r, i) == Connected(r, i) /\ r.entries[i].mapped
HandleOf(r, i) == IF i \in Known(r) THEN r.entries[i].handle ELSE None
ByHandle(r, p) == {i \in Known(r) : r.entries[i].handle = p}

\* Of what the terminal is told, what it acts on: the pads it lists.
Sample(r) == Known(r)

Keep(r, ids) == [r EXCEPT !.entries = [i \in ids |-> r.entries[i]],
                          !.order = SelectSeq(r.order, LAMBDA i : i \in ids)]

Before(seq, x, y) == \E m, n \in DOMAIN seq : m < n /\ seq[m] = x /\ seq[n] = y

\* The member of S that a sequence of its members names first, if any.
First(seq, S) == {x \in S : \A y \in S : ~ Before(seq, y, x)}

\* The entry to evict: the longest untouched one that is gone, else the longest
\* untouched one, and never the selection.
Evictable(r) ==
  LET others == Known(r) \ {r.selected}
      gone   == {i \in others : ~ Connected(r, i)}
  IN First(r.order, IF gone # {} THEN gone ELSE others)

\* One entry is added at a time, so the loop of the code evicts at most one.
Prune(r) ==
  IF Cardinality(Known(r)) <= MaxDevices THEN r ELSE Keep(r, Known(r) \ Evictable(r))

Touch(r, i) == Prune([r EXCEPT !.order = Append(SelectSeq(@, LAMBDA k : k # i), i)])

\* assign_stable_id: the first number that is free.
FreshId(r, base) ==
  <<base, CHOOSE n \in 1..(Cardinality(Known(r)) + 1) :
            /\ <<base, n>> \notin Known(r)
            /\ \A m \in 1..(n - 1) : <<base, m>> \in Known(r)>>

\* The ids a pad may be given: the one that holds its handle, else any free one
\* of its base (a hash map's order decides), else a new one.
ObservedAs(r, p) ==
  LET held == ByHandle(r, p)
      free == {i \in Known(r) : r.entries[i].base = Base[p] /\ r.entries[i].handle = None}
  IN IF held # {} THEN held ELSE IF free # {} THEN free ELSE {FreshId(r, Base[p])}

Observe(r, p, i) ==
  LET entry == [base |-> Base[p], handle |-> p, mapped |-> p \in Compatible]
  IN Touch([r EXCEPT !.entries = [k \in Known(r) \cup {i} |-> IF k = i THEN entry ELSE @[k]]], i)

\* The transitions that may revoke authority return the registry and whether a
\* stop is owed: RegistryChange.zero_required, or the bool of the code.
InvalidateSelection(r) ==
  [reg |-> [r EXCEPT !.selected = None, !.enabled = FALSE],
   zero |-> r.selected # None /\ r.enabled]

InvalidateUnready(r) ==
  IF r.selected # None /\ ~ Ready(r, r.selected) THEN InvalidateSelection(r)
  ELSE [reg |-> r, zero |-> FALSE]

Adopt(r, i) == [r EXCEPT !.selected = i, !.enabled = FALSE]

\* connected: adopt the pad if nothing usable is selected.
ConnectedPad(r, i) ==
  LET u == InvalidateUnready(r)
  IN IF u.reg.selected = None /\ i \in Known(u.reg) /\ u.reg.entries[i].mapped
     THEN [u EXCEPT !.reg = Adopt(u.reg, i)]
     ELSE u

\* Mutant: a pad that is unplugged stays selected.
DisconnectKeeping(r, i) == [reg |-> Touch([r EXCEPT !.entries[i].handle = None], i), zero |-> FALSE]

Disconnect(r, i) ==
  LET gone == Touch([r EXCEPT !.entries[i].handle = None], i)
  IN IF r.selected = i THEN InvalidateSelection(gone) ELSE [reg |-> gone, zero |-> FALSE]

\* Mutant: another pad inherits the authority of the one it replaces.
SelectKeepsAuthority(r, i) ==
  IF Ready(r, i) THEN [reg |-> [r EXCEPT !.selected = i], zero |-> FALSE]
  ELSE IF r.selected = i THEN InvalidateSelection(r)
  ELSE [reg |-> r, zero |-> FALSE]

Select(r, i) ==
  IF Ready(r, i)
  THEN [reg |-> [r EXCEPT !.selected = i, !.enabled = @ /\ r.selected = i],
        zero |-> r.enabled /\ r.selected # i]
  ELSE IF r.selected = i THEN InvalidateSelection(r)
  ELSE [reg |-> r, zero |-> FALSE]

\* Mutant: disabling forgets the stop.
SetEnabledSilently(r, on) ==
  [reg |-> [r EXCEPT !.enabled = on /\ r.selected # None /\ Ready(r, r.selected)],
   zero |-> FALSE]

SetEnabled(r, on) ==
  [reg |-> [r EXCEPT !.enabled = on /\ r.selected # None /\ Ready(r, r.selected)],
   zero |-> ~ on /\ r.enabled]

\* retain_seen: what the enumeration did not find is gone, and kept.
RetainSeen(r, seen) ==
  LET left == [r EXCEPT !.entries = [i \in Known(r) |->
                 IF i \in seen THEN @[i] ELSE [@[i] EXCEPT !.handle = None]]]
      lost == r.selected \in Known(r) /\ ~ Connected(left, r.selected)
      kept == IF lost THEN InvalidateSelection(left) ELSE [reg |-> left, zero |-> FALSE]
  IN [kept EXCEPT !.reg = Prune(kept.reg)]

\* reconcile_selection: drop an unusable selection, else adopt the first
\* compatible pad of the enumeration, if any, with authority off.
ReconcileSelection(r, fallback) ==
  LET u == InvalidateUnready(r)
      held == {i \in Known(u.reg) : u.reg.entries[i].handle \in fallback}
  IN IF u.reg.selected = None /\ held # {}
     THEN [u EXCEPT !.reg = Adopt(u.reg, CHOOSE i \in held : TRUE)]
     ELSE u
=============================================================================
