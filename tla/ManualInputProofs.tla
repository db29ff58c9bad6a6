------------------------- MODULE ManualInputProofs -------------------------
(***************************************************************************)
(* Proofs about manual driving: authority, the selection of a pad and the  *)
(* stops owed to a moving robot, for any pads, any room in the queues and  *)
(* any number of plugs, keys and refused publications.                     *)
(*                                                                         *)
(* The first part is about the operators of PadRegistry: what each of them *)
(* makes of a registry is a sound change (Change), whatever the order in   *)
(* which its entries were touched.  The second is the inductive invariant. *)
(***************************************************************************)
EXTENDS ManualInput, TLAPS

(***************************************************************************)
(* Registries.                                                             *)
(***************************************************************************)
Entry == [base : {Base[p] : p \in Pads}, handle : Pads \cup {None}, mapped : BOOLEAN]

\* A registry is well formed, and a connected pad is mapped if it can be.
Shaped(r) ==
  /\ r = [entries |-> r.entries, order |-> r.order, selected |-> r.selected, enabled |-> r.enabled]
  /\ r.entries \in [Known(r) -> Entry]
  /\ r.enabled \in BOOLEAN
  /\ \A i \in Known(r) :
       r.entries[i].handle # None => r.entries[i].mapped = (r.entries[i].handle \in Compatible)

Held(r) == r.enabled => r.selected # None

Settled(r) == Held(r) /\ (r.selected # None => Ready(r, r.selected))

\* A sound change: authority that ends owes a stop, and none is inherited.
Change(r, reg_, zero_) ==
  /\ Shaped(reg_) /\ Settled(reg_) /\ zero_ \in BOOLEAN
  /\ r.enabled /\ ~ reg_.enabled => zero_
  /\ reg_.selected # r.selected => ~ reg_.enabled

\* What an eviction leaves alone.
Kept(r, q) ==
  /\ Shaped(q)
  /\ q.selected = r.selected /\ q.enabled = r.enabled
  /\ Known(q) \subseteq Known(r)
  /\ r.selected \in Known(r) => r.selected \in Known(q)
  /\ \A i \in Known(q) : q.entries[i] = r.entries[i]

\* An eviction never takes the selection.
LEMMA PruneKeeps == ASSUME NEW r, Shaped(r) PROVE Kept(r, Prune(r))
<1>1. CASE Prune(r) = r  BY <1>1 DEF Kept
<1>2. CASE Prune(r) = Keep(r, Known(r) \ Evictable(r))
  <2>. DEFINE ids == Known(r) \ Evictable(r)
              q == Keep(r, ids)
  <2>1. Evictable(r) \subseteq Known(r) \ {r.selected}  BY DEF Evictable, First
  <2>2. /\ q.entries = [i \in ids |-> r.entries[i]]
        /\ q.selected = r.selected /\ q.enabled = r.enabled
        /\ q = [entries |-> q.entries, order |-> q.order, selected |-> q.selected,
                enabled |-> q.enabled]
    <3>. DEFINE es == [i \in ids |-> r.entries[i]]
                os == SelectSeq(r.order, LAMBDA i : i \in ids)
    <3>1. q = [r EXCEPT !.entries = es, !.order = os]  BY DEF Keep
    <3>. HIDE DEF es, os, q, ids
    <3>2. q = [entries |-> es, order |-> os, selected |-> r.selected, enabled |-> r.enabled]
      BY <3>1 DEF Shaped
    <3>3. q.entries = es /\ q.order = os /\ q.selected = r.selected /\ q.enabled = r.enabled
      BY <3>2
    <3>. QED  BY <3>2, <3>3 DEF es
  <2>. HIDE DEF q
  <2>3. Known(q) = ids /\ ids \subseteq Known(r)  BY <2>2 DEF Known
  <2>4. \A i \in ids : q.entries[i] = r.entries[i]  BY <2>2
  <2>. HIDE DEF ids
  <2>5. Shaped(q)  BY <2>2, <2>3, <2>4 DEF Shaped
  <2>6. r.selected \in Known(r) => r.selected \in ids  BY <2>1 DEF ids
  <2>. QED  BY <1>2, <2>2, <2>3, <2>4, <2>5, <2>6 DEF Kept, q, ids
<1>. QED  BY <1>1, <1>2 DEF Prune

\* Nor does a touch.
LEMMA TouchKeeps == ASSUME NEW r, NEW i, Shaped(r) PROVE Kept(r, Touch(r, i))
<1>. DEFINE t == [r EXCEPT !.order = Append(SelectSeq(@, LAMBDA k : k # i), i)]
<1>. DEFINE os == Append(SelectSeq(r.order, LAMBDA k : k # i), i)
<1>0. t = [r EXCEPT !.order = os]  OBVIOUS
<1>. HIDE DEF t, os
<1>1. /\ t = [entries |-> r.entries, order |-> os, selected |-> r.selected, enabled |-> r.enabled]
      /\ t.entries = r.entries /\ t.selected = r.selected /\ t.enabled = r.enabled
      /\ Shaped(t)
  BY <1>0 DEF Shaped, Known
<1>2. Kept(t, Prune(t))  BY <1>1, PruneKeeps
<1>3. Kept(r, Prune(t))  BY <1>1, <1>2 DEF Kept, Known
<1>. QED  BY <1>3 DEF Touch, t

\* A pad that is observed is connected, if its entry is not evicted again.
LEMMA ObserveKeeps ==
  ASSUME NEW r, NEW p \in Pads, NEW i, Shaped(r)
  PROVE  LET q == Observe(r, p, i) IN
         /\ Shaped(q) /\ q.selected = r.selected /\ q.enabled = r.enabled
         /\ i \in Known(q) => q.entries[i].handle = p
<1>. DEFINE entry == [base |-> Base[p], handle |-> p, mapped |-> p \in Compatible]
            entries_ == [k \in Known(r) \cup {i} |-> IF k = i THEN entry ELSE r.entries[k]]
            o == [r EXCEPT !.entries = entries_]
<1>1. o.entries = entries_ /\ o.selected = r.selected /\ o.enabled = r.enabled
        /\ o = [entries |-> o.entries, order |-> o.order, selected |-> o.selected,
                enabled |-> o.enabled]
  <2>1. o = [entries |-> entries_, order |-> r.order, selected |-> r.selected,
             enabled |-> r.enabled]
    BY DEF Shaped
  <2>. QED  BY <2>1
<1>2. Known(o) = Known(r) \cup {i}  BY <1>1 DEF Known
<1>3. \A k \in Known(o) : o.entries[k] = IF k = i THEN entry ELSE r.entries[k]
  BY <1>1, <1>2
<1>. HIDE DEF o
<1>4. Shaped(o)  BY <1>1, <1>2, <1>3 DEF Shaped, Entry
<1>5. Observe(r, p, i) = Touch(o, i)  BY DEF Observe, o
<1>6. i \in Known(o) /\ o.entries[i].handle = p  BY <1>2, <1>3
<1>. QED  BY <1>1, <1>4, <1>5, <1>6, TouchKeeps DEF Kept

\* A selection that is not usable is dropped, and its authority with it.
LEMMA InvalidateUnreadySettles ==
  ASSUME NEW r, Shaped(r), Held(r)
  PROVE  LET u == InvalidateUnready(r) IN
         /\ u = [reg |-> u.reg, zero |-> u.zero]
         /\ Change(r, u.reg, u.zero)
         /\ u.reg.entries = r.entries
         /\ u.reg.selected = None => ~ u.reg.enabled
  BY DEF InvalidateUnready, InvalidateSelection, Change, Shaped, Held, Settled, Ready, Connected,
         Known

\* What an invalidation makes of a registry.
LEMMA InvalidateShapes ==
  ASSUME NEW r, Shaped(r)
  PROVE  LET c == InvalidateSelection(r) IN
         /\ c = [reg |-> c.reg, zero |-> c.zero]
         /\ Shaped(c.reg) /\ c.reg.selected = None /\ ~ c.reg.enabled
         /\ c.reg.entries = r.entries
         /\ c.zero = (r.selected # None /\ r.enabled)
<1>1. InvalidateSelection(r).reg =
        [entries |-> r.entries, order |-> r.order, selected |-> None, enabled |-> FALSE]
  BY DEF InvalidateSelection, Shaped
<1>. QED  BY <1>1 DEF InvalidateSelection, Shaped, Known

\* What an adoption makes of a registry.
LEMMA AdoptShapes ==
  ASSUME NEW r, NEW i, Shaped(r)
  PROVE  /\ Shaped(Adopt(r, i)) /\ Adopt(r, i).entries = r.entries
         /\ Adopt(r, i).selected = i /\ Adopt(r, i).enabled = FALSE
<1>1. PICK e, o, s, n : r = [entries |-> e, order |-> o, selected |-> s, enabled |-> n]
  BY DEF Shaped
<1>2. Adopt(r, i) = [entries |-> e, order |-> o, selected |-> i, enabled |-> FALSE]
  <2>1. [r EXCEPT !.selected = i] = [entries |-> e, order |-> o, selected |-> i, enabled |-> n]
    BY <1>1
  <2>2. Adopt(r, i) = [[r EXCEPT !.selected = i] EXCEPT !.enabled = FALSE]
    BY DEF Adopt
  <2>. QED  BY <2>1, <2>2
<1>3. r.entries = e  BY <1>1
<1>. QED  BY <1>2, <1>3 DEF Shaped, Known

\* A pad that appears is adopted when there is no usable selection.
LEMMA ConnectedPadChange ==
  ASSUME NEW r, NEW p \in Pads, NEW i, Shaped(r), Held(r)
  PROVE  LET c == ConnectedPad(Observe(r, p, i), i) IN Change(r, c.reg, c.zero)
<1>. DEFINE q == Observe(r, p, i)
            u == InvalidateUnready(q)
            c == ConnectedPad(q, i)
<1>. SUFFICES Change(r, c.reg, c.zero)
  OBVIOUS
<1>1. Shaped(q) /\ q.selected = r.selected /\ q.enabled = r.enabled
        /\ (i \in Known(q) => q.entries[i].handle = p)
  BY ObserveKeeps
<1>. HIDE DEF q
<1>2. /\ u = [reg |-> u.reg, zero |-> u.zero]
      /\ Change(q, u.reg, u.zero) /\ u.reg.entries = q.entries
      /\ u.reg.selected = None => ~ u.reg.enabled
  BY <1>1, InvalidateUnreadySettles DEF Held
<1>. HIDE DEF u, c
<1>3. CASE u.reg.selected = None /\ i \in Known(u.reg) /\ u.reg.entries[i].mapped
  <2>1. c = [u EXCEPT !.reg = Adopt(u.reg, i)]  BY <1>3 DEF ConnectedPad, u, c
  <2>2. c.reg = Adopt(u.reg, i) /\ c.zero = u.zero  BY <1>2, <2>1
  <2>3. p # None  BY RegistryAssumption
  <2>4. Ready(Adopt(u.reg, i), i)
    BY <1>1, <1>2, <1>3, <2>3 DEF Adopt, Ready, Connected, Known, Change, Shaped
  <2>5. Shaped(Adopt(u.reg, i)) /\ Settled(Adopt(u.reg, i)) /\ ~ Adopt(u.reg, i).enabled
    BY <1>2, <2>4, AdoptShapes DEF Change, Settled, Held
  <2>7. r.enabled => u.zero  BY <1>1, <1>2, <1>3 DEF Change, Shaped
  <2>. QED  BY <1>2, <2>2, <2>5, <2>7 DEF Change
<1>4. CASE ~ (u.reg.selected = None /\ i \in Known(u.reg) /\ u.reg.entries[i].mapped)
  <2>1. c = u  BY <1>4 DEF ConnectedPad, u, c
  <2>. QED  BY <1>1, <1>2, <2>1 DEF Change
<1>. QED  BY <1>3, <1>4

\* A pad that goes takes its authority with it.
LEMMA DisconnectChange ==
  ASSUME NEW r, NEW i \in Known(r), Shaped(r), Settled(r)
  PROVE  LET c == Disconnect(r, i) IN Change(r, c.reg, c.zero)
<1>. DEFINE d == [r EXCEPT !.entries[i].handle = None]
            g == Touch(d, i)
<1>1. /\ d.selected = r.selected /\ d.enabled = r.enabled /\ Known(d) = Known(r)
      /\ \A k \in Known(r) : k # i => d.entries[k] = r.entries[k]
      /\ d.entries[i] = [r.entries[i] EXCEPT !.handle = None]
      /\ d = [entries |-> d.entries, order |-> d.order, selected |-> d.selected,
              enabled |-> d.enabled]
      /\ d.entries = [k \in Known(r) |-> d.entries[k]]
  BY DEF Shaped, Known
<1>. HIDE DEF d
<1>2. d.entries[i].handle = None /\ d.entries[i] \in Entry
  BY <1>1 DEF Shaped, Entry
<1>3. Shaped(d)  BY <1>1, <1>2 DEF Shaped
<1>4. Kept(d, g)  BY <1>3, TouchKeeps
<1>5. Disconnect(r, i) = IF r.selected = i THEN InvalidateSelection(g)
                         ELSE [reg |-> g, zero |-> FALSE]
  BY DEF Disconnect, d
<1>. HIDE DEF g
<1>6. CASE r.selected = i
  <2>1. Shaped(InvalidateSelection(g).reg) /\ InvalidateSelection(g).reg.selected = None
          /\ ~ InvalidateSelection(g).reg.enabled
          /\ InvalidateSelection(g).zero = (g.selected # None /\ g.enabled)
    BY <1>4, InvalidateShapes DEF Kept
  <2>2. Settled(InvalidateSelection(g).reg)  BY <2>1 DEF Settled, Held
  <2>3. r.enabled => g.selected # None /\ g.enabled  BY <1>1, <1>4 DEF Kept, Settled, Held
  <2>. QED  BY <1>5, <1>6, <2>1, <2>2, <2>3 DEF Change
<1>7. CASE r.selected # i
  <2>1. g.selected # None => Ready(g, g.selected)
    BY <1>1, <1>4, <1>7 DEF Kept, Settled, Ready, Connected
  <2>. QED  BY <1>1, <1>4, <1>5, <1>7, <2>1 DEF Change, Kept, Settled, Held, Shaped
<1>. QED  BY <1>6, <1>7

\* Selecting and enabling.
LEMMA SelectChange ==
  ASSUME NEW r, NEW i, Shaped(r), Settled(r)
  PROVE  LET c == Select(r, i) IN Change(r, c.reg, c.zero)
  BY DEF Select, InvalidateSelection, Change, Shaped, Settled, Held, Ready, Connected, Known

\* What switching the input on or off changes.
LEMMA SetEnabledChange ==
  ASSUME NEW r, NEW on, Shaped(r), Settled(r)
  PROVE  LET c == SetEnabled(r, on) IN Change(r, c.reg, c.zero)
  BY DEF SetEnabled, Change, Shaped, Settled, Held, Ready, Connected, Known

\* An enumeration settles whatever it found.
LEMMA RescanChange ==
  ASSUME NEW r, NEW seen, NEW fallback, fallback \subseteq Compatible, Shaped(r), Held(r)
  PROVE  LET m == RetainSeen(r, seen)
             s == ReconcileSelection(m.reg, fallback)
         IN Change(r, s.reg, m.zero \/ s.zero)
<1>. DEFINE left == [r EXCEPT !.entries = [k \in Known(r) |->
                       IF k \in seen THEN r.entries[k] ELSE [r.entries[k] EXCEPT !.handle = None]]]
            lost == r.selected \in Known(r) /\ ~ Connected(left, r.selected)
            kept == IF lost THEN InvalidateSelection(left) ELSE [reg |-> left, zero |-> FALSE]
            m == RetainSeen(r, seen)
<1>1. Shaped(left) /\ left.selected = r.selected /\ left.enabled = r.enabled
  <2>1. /\ left.selected = r.selected /\ left.enabled = r.enabled /\ Known(left) = Known(r)
        /\ \A k \in Known(r) : left.entries[k] =
              IF k \in seen THEN r.entries[k] ELSE [r.entries[k] EXCEPT !.handle = None]
        /\ left = [entries |-> left.entries, order |-> left.order, selected |-> left.selected,
                enabled |-> left.enabled]
        /\ left.entries = [k \in Known(r) |-> left.entries[k]]
    BY DEF Shaped, Known
  <2>. HIDE DEF left
  <2>2. \A k \in Known(left) : left.entries[k] \in Entry /\ (left.entries[k].handle # None =>
           left.entries[k].mapped = (left.entries[k].handle \in Compatible))
    <3>. TAKE k \in Known(left)
    <3>1. r.entries[k] \in Entry /\ (r.entries[k].handle # None =>
            r.entries[k].mapped = (r.entries[k].handle \in Compatible))
      BY <2>1 DEF Shaped
    <3>2. CASE k \in seen  BY <2>1, <3>1, <3>2
    <3>3. CASE k \notin seen
      <4>1. left.entries[k] = [r.entries[k] EXCEPT !.handle = None]  BY <2>1, <3>3
      <4>. QED  BY <3>1, <4>1 DEF Entry
    <3>. QED  BY <3>2, <3>3
  <2>. QED  BY <2>1, <2>2 DEF Shaped
<1>2. m = [kept EXCEPT !.reg = Prune(kept.reg)]  BY DEF RetainSeen
<1>. HIDE DEF left, m
<1>3. /\ kept = [reg |-> kept.reg, zero |-> kept.zero] /\ kept.zero \in BOOLEAN
      /\ Shaped(kept.reg) /\ Held(kept.reg)
      /\ r.enabled /\ ~ kept.reg.enabled => kept.zero
      /\ kept.reg.selected # r.selected => ~ kept.reg.enabled
  BY <1>1 DEF InvalidateSelection, Shaped, Held, Known
<1>. HIDE DEF kept
<1>4. m.reg = Prune(kept.reg) /\ m.zero = kept.zero  BY <1>2, <1>3
<1>5. Kept(kept.reg, m.reg)  BY <1>3, <1>4, PruneKeeps
<1>. DEFINE u == InvalidateUnready(m.reg)
            held == {i \in Known(u.reg) : u.reg.entries[i].handle \in fallback}
            s == ReconcileSelection(m.reg, fallback)
<1>. SUFFICES Change(r, s.reg, m.zero \/ s.zero)
  BY DEF m
<1>6. /\ u = [reg |-> u.reg, zero |-> u.zero]
      /\ Change(m.reg, u.reg, u.zero) /\ (u.reg.selected = None => ~ u.reg.enabled)
  BY <1>3, <1>5, InvalidateUnreadySettles DEF Kept, Held
<1>7. s = IF u.reg.selected = None /\ held # {}
          THEN [u EXCEPT !.reg = Adopt(u.reg, CHOOSE i \in held : TRUE)] ELSE u
  BY DEF ReconcileSelection
<1>. HIDE DEF u, s
<1>8. CASE u.reg.selected = None /\ held # {}
  <2>1. PICK i \in held : s = [u EXCEPT !.reg = Adopt(u.reg, i)]  BY <1>7, <1>8
  <2>2. s.reg = Adopt(u.reg, i) /\ s.zero = u.zero  BY <1>6, <2>1
  <2>3. Ready(Adopt(u.reg, i), i)
    BY <1>6, RegistryAssumption DEF Adopt, Ready, Connected, Known, Change, Shaped
  <2>4. Shaped(Adopt(u.reg, i)) /\ Settled(Adopt(u.reg, i)) /\ ~ Adopt(u.reg, i).enabled
    <3>1. Shaped(u.reg)  BY <1>6 DEF Change
    <3>2. Shaped(Adopt(u.reg, i)) /\ Adopt(u.reg, i).selected = i
            /\ Adopt(u.reg, i).enabled = FALSE
      BY <3>1, AdoptShapes
    <3>. QED  BY <2>3, <3>2 DEF Settled, Held
  <2>5. r.enabled => m.zero \/ u.zero
    BY <1>3, <1>4, <1>5, <1>6, <1>8 DEF Change, Kept, Shaped
  <2>6. u.zero \in BOOLEAN /\ m.zero \in BOOLEAN  BY <1>3, <1>4, <1>6 DEF Change
  <2>. QED  BY <2>2, <2>4, <2>5, <2>6 DEF Change
<1>9. CASE ~ (u.reg.selected = None /\ held # {})
  <2>1. s = u  BY <1>7, <1>9
  <2>2. Shaped(s.reg) /\ Settled(s.reg) /\ s.zero \in BOOLEAN /\ m.zero \in BOOLEAN
    BY <1>3, <1>4, <1>6, <2>1 DEF Change
  <2>3. r.enabled /\ ~ s.reg.enabled => m.zero \/ s.zero
    BY <1>3, <1>4, <1>5, <1>6, <2>1 DEF Change, Kept
  <2>4. s.reg.selected # r.selected => ~ s.reg.enabled
    <3>1. m.reg.selected # r.selected => ~ m.reg.enabled  BY <1>3, <1>4, <1>5 DEF Kept
    <3>2. s.reg.selected # m.reg.selected => ~ s.reg.enabled  BY <1>6, <2>1 DEF Change
    <3>3. s.reg.enabled => m.reg.enabled
      BY <1>6, <2>1 DEF InvalidateUnready, InvalidateSelection, u, Change, Shaped
    <3>. QED  BY <3>1, <3>2, <3>3
  <2>. QED  BY <2>2, <2>3, <2>4 DEF Change
<1>. QED  BY <1>8, <1>9

(***************************************************************************)
(* The inductive invariant.                                                *)
(***************************************************************************)
Places ==
  {"start", "rescan", "idle", "poll", "record", "send", "drive", "failed", "ended"}

Told == {"drive", "stop", None}

FeedTypes ==
  /\ DOMAIN feed = {"at", "todo", "seen", "changed", "zero", "command"}
  /\ feed.at \in Places /\ feed.todo \subseteq Pads
  /\ feed.changed \in BOOLEAN /\ feed.zero \in BOOLEAN /\ feed.command \in Told

TypeOK ==
  /\ plugged \subseteq Pads /\ backend \in Seq({"on", "off"} \X Pads)
  /\ Shaped(reg) /\ FeedTypes
  /\ stops \in Nat /\ published \in Told

\* A command that moves the robot is on its way only under authority.
CommandIsCovered ==
  feed.command = "drive" =>
    \/ feed.at \in {"record", "send", "drive"} /\ reg.enabled
    \/ feed.at \in {"failed", "ended"}

IInv ==
  TypeOK /\ Held(reg) /\ AuthorityHasAPad /\ MotionIsCovered /\ CommandIsCovered

\* It holds at the start.
LEMMA InitOK == Init => IInv
<1>. SUFFICES ASSUME Init PROVE IInv
  OBVIOUS
<1>. USE InputAssumption, RegistryAssumption DEF Init
<1>1. reg.selected = None /\ reg.enabled = FALSE /\ Known(reg) = {}
  BY DEF EmptyRegistry, Known
<1>2. Shaped(reg)
  BY <1>1 DEF Shaped, EmptyRegistry, Known
<1>3. FeedTypes
  BY DEF FeedTypes, Places, Told
<1>4. TypeOK
  BY <1>2, <1>3 DEF TypeOK, Told
<1>. QED
  BY <1>1, <1>4 DEF IInv, Held, AuthorityHasAPad, MotionIsCovered, CommandIsCovered

\* A step that leaves the driver alone keeps it.
LEMMA DriverUntouched ==
  ASSUME IInv, UNCHANGED driver, plugged' \subseteq Pads,
         backend' \in Seq({"on", "off"} \X Pads)
  PROVE  IInv'
  BY DEF driver, IInv, TypeOK, FeedTypes, Held, AuthorityHasAPad, MotionIsCovered,
         CommandIsCovered, Ready, Connected, Known, Shaped

\* A publication of stops keeps their count, and a stop that was owed is owed
\* still or was the last thing said.
LEMMA PublishStopKeeps ==
  ASSUME stops \in Nat, published \in Told, NEW owed \in Nat, NEW ok \in BOOLEAN,
         PublishStop(owed, ok)
  PROVE  /\ stops' \in Nat /\ published' \in Told
         /\ published' \in {published, "stop"}
         /\ published' = "drive" /\ owed > 0 => stops' > 0
  BY InputAssumption DEF PublishStop, Publishes, Told

\* The stop that a change of the registry may ask for.
LEMMA StopIfKeeps ==
  ASSUME stops \in Nat, published \in Told, NEW zero \in BOOLEAN, NEW ok \in BOOLEAN,
         StopIf(zero, ok)
  PROVE  /\ stops' \in Nat /\ published' \in Told
         /\ published' \in {published, "stop"}
         /\ published' = "drive" => (IF zero THEN stops' > 0 ELSE stops' = stops)
<1>1. CASE zero
  BY <1>1, InputAssumption, PublishStopKeeps DEF StopIf
<1>2. CASE ~ zero
  BY <1>2 DEF StopIf
<1>. QED  BY <1>1, <1>2

\* A sound change of the registry, with the stop it owes, keeps the invariant,
\* wherever the feed goes next without a command.
LEMMA ChangeKeeps ==
  ASSUME IInv, NEW zero \in BOOLEAN, NEW ok \in BOOLEAN,
         Change(reg, reg', zero), StopIf(zero, ok),
         feed.at # "poll" \/ ~ feed.zero, feed.at \notin {"failed", "ended"},
         FeedTypes', feed'.command = None, UNCHANGED hardware
  PROVE  IInv'
<1>1. stops \in Nat /\ published \in Told  BY DEF IInv, TypeOK
<1>2. /\ stops' \in Nat /\ published' \in Told /\ published' \in {published, "stop"}
      /\ published' = "drive" => (IF zero THEN stops' > 0 ELSE stops' = stops)
  BY <1>1, StopIfKeeps
<1>3. Shaped(reg') /\ Settled(reg')  BY DEF Change
<1>4. TypeOK'  BY <1>2, <1>3 DEF IInv, TypeOK, hardware
<1>5. Held(reg') /\ AuthorityHasAPad'  BY <1>3 DEF Settled, AuthorityHasAPad
<1>6. MotionIsCovered'
  BY <1>1, <1>2, InputAssumption DEF MotionIsCovered, IInv, Change, TypeOK, Shaped
<1>7. CommandIsCovered'  BY InputAssumption DEF CommandIsCovered
<1>. QED  BY <1>4, <1>5, <1>6, <1>7 DEF IInv

(***************************************************************************)
(* The actions of the feed.                                                *)
(***************************************************************************)
LEMMA OpenKeeps == ASSUME IInv, Open PROVE IInv'
<1>. USE DEF Open, At, IInv
<1>1. FeedTypes'  BY DEF TypeOK, FeedTypes, Places
<1>2. TypeOK'  BY <1>1 DEF TypeOK, hardware
<1>3. feed'.at # "poll" /\ feed'.command = feed.command /\ UNCHANGED <<reg, stops, published>>
  BY DEF TypeOK, FeedTypes
<1>. QED
  BY <1>2, <1>3 DEF TypeOK, FeedTypes, Held, AuthorityHasAPad, MotionIsCovered, CommandIsCovered,
                    Ready, Connected, Known

\* A pad of a rescan.
LEMMA RescanPadKeeps == ASSUME IInv, RescanPad PROVE IInv'
<1>1. PICK p \in First(PadOrder, feed.todo) : \E i \in ObservedAs(reg, p) :
        /\ reg' = Observe(reg, p, i)
        /\ feed' = [feed EXCEPT !.todo = @ \ {p}, !.seen = @ \cup {i}]
  BY DEF RescanPad
<1>2. PICK i \in ObservedAs(reg, p) :
        /\ reg' = Observe(reg, p, i)
        /\ feed' = [feed EXCEPT !.todo = @ \ {p}, !.seen = @ \cup {i}]
  BY <1>1
<1>3. p \in Pads  BY DEF First, IInv, TypeOK, FeedTypes
<1>4. Shaped(reg') /\ reg'.selected = reg.selected /\ reg'.enabled = reg.enabled
  BY <1>2, <1>3, ObserveKeeps DEF IInv, TypeOK
<1>5. feed.at = "rescan" /\ UNCHANGED <<hardware, stops, published>>
  BY DEF RescanPad, At
<1>6. FeedTypes' /\ feed'.at = "rescan" /\ feed'.command = feed.command
  BY <1>2, <1>5 DEF IInv, TypeOK, FeedTypes
<1>7. TypeOK'  BY <1>4, <1>5, <1>6 DEF IInv, TypeOK, hardware
<1>. QED
  BY <1>4, <1>5, <1>6, <1>7 DEF IInv, Held, AuthorityHasAPad, MotionIsCovered, CommandIsCovered

\* What the end of a rescan changes.
LEMMA RescanEndsChange ==
  ASSUME IInv, NEW ok \in BOOLEAN, RescanEnds(ok)
  PROVE  \E zero \in BOOLEAN : Change(reg, reg', zero) /\ StopIf(zero, ok)
<1>. DEFINE m == RetainSeen(reg, feed.seen)
            s == ReconcileSelection(m.reg, FirstCompatible)
<1>1. FirstCompatible \subseteq Compatible  BY DEF FirstCompatible, First
<1>2. Change(reg, s.reg, m.zero \/ s.zero)
  BY <1>1, RescanChange DEF IInv, TypeOK
<1>3. reg' = s.reg /\ StopIf(m.zero \/ s.zero, ok)  BY DEF RescanEnds
<1>4. (m.zero \/ s.zero) \in BOOLEAN  OBVIOUS
<1>. HIDE DEF m, s
<1>. QED  BY <1>2, <1>3, <1>4

\* The end of a rescan.
LEMMA RescanEndsKeeps == ASSUME IInv, NEW ok \in BOOLEAN, RescanEnds(ok) PROVE IInv'
<1>1. PICK zero \in BOOLEAN : Change(reg, reg', zero) /\ StopIf(zero, ok)
  BY RescanEndsChange
<1>2. feed.at = "rescan" /\ UNCHANGED hardware
        /\ feed' = [feed EXCEPT !.at = "record", !.seen = {}, !.command = None]
  BY DEF RescanEnds, At
<1>3. FeedTypes' /\ feed'.command = None
  BY <1>2 DEF IInv, TypeOK, FeedTypes, Places, Told
<1>. QED  BY <1>1, <1>2, <1>3, ChangeKeeps

\* A tick of the poll.
LEMMA TickKeeps == ASSUME IInv, NEW ok \in BOOLEAN, Tick(ok) PROVE IInv'
<1>1. /\ feed.at = "idle" /\ PublishStop(stops, ok) /\ UNCHANGED <<hardware, reg>>
      /\ feed' = [feed EXCEPT !.at = "poll", !.changed = FALSE, !.zero = FALSE]
  BY DEF Tick, At
<1>2. FeedTypes' /\ feed'.at = "poll" /\ feed'.command = feed.command
  BY <1>1 DEF IInv, TypeOK, FeedTypes, Places
<1>3. /\ stops' \in Nat /\ published' \in Told /\ published' \in {published, "stop"}
      /\ published' = "drive" /\ stops > 0 => stops' > 0
  BY <1>1, PublishStopKeeps DEF IInv, TypeOK
<1>4. TypeOK'  BY <1>1, <1>2, <1>3 DEF IInv, TypeOK, hardware
<1>. QED
  BY <1>1, <1>2, <1>3, <1>4 DEF IInv, Held, AuthorityHasAPad, MotionIsCovered, CommandIsCovered,
                                Ready, Connected, Known

\* What an event of the backend makes of the registry.
LEMMA PollEventChange ==
  ASSUME IInv, PollEvent
  PROVE  \E zero \in BOOLEAN :
           /\ Change(reg, reg', zero)
           /\ feed' = [feed EXCEPT !.zero = @ \/ zero,
                         !.changed = @ \/ Head(backend)[1] = "on"
                                      \/ ByHandle(reg, Head(backend)[2]) # {}]
<1>. DEFINE kind == Head(backend)[1]
            p == Head(backend)[2]
<1>1. feed.at = "poll" /\ backend # <<>>  BY DEF PollEvent, At
<1>2. p \in Pads  BY <1>1 DEF IInv, TypeOK
<1>3. PICK c \in Handled(kind, p) :
        /\ reg' = c.reg
        /\ feed' = [feed EXCEPT !.zero = @ \/ c.zero,
                      !.changed = @ \/ kind = "on" \/ ByHandle(reg, p) # {}]
  BY DEF PollEvent
<1>4. Shaped(reg) /\ Settled(reg)  BY <1>1 DEF IInv, TypeOK, AuthorityHasAPad, Settled
<1>5. Change(reg, c.reg, c.zero)
  <2>1. CASE kind = "on"
    <3>1. PICK i \in ObservedAs(reg, p) : c = ConnectedPad(Observe(reg, p, i), i)
      BY <1>3, <2>1 DEF Handled
    <3>. QED  BY <1>2, <1>4, <3>1, ConnectedPadChange DEF Settled
  <2>2. CASE kind # "on" /\ ByHandle(reg, p) = {}
    <3>1. c = [reg |-> reg, zero |-> FALSE]  BY <1>3, <2>2 DEF Handled
    <3>2. c.reg = reg /\ c.zero = FALSE  BY <3>1
    <3>. QED  BY <1>4, <3>2 DEF Change
  <2>3. CASE kind # "on" /\ ByHandle(reg, p) # {}
    <3>1. PICK i \in ByHandle(reg, p) : c = Disconnect(reg, i)  BY <1>3, <2>3 DEF Handled
    <3>. QED  BY <1>4, <3>1, DisconnectChange DEF ByHandle
  <2>. QED  BY <2>1, <2>2, <2>3
<1>6. c.zero \in BOOLEAN  BY <1>5 DEF Change
<1>. QED  BY <1>3, <1>5, <1>6

\* An event a pad reports.
LEMMA PollEventKeeps == ASSUME IInv, PollEvent PROVE IInv'
<1>1. PICK zero \in BOOLEAN :
        /\ Change(reg, reg', zero)
        /\ feed' = [feed EXCEPT !.zero = @ \/ zero,
                      !.changed = @ \/ Head(backend)[1] = "on"
                                   \/ ByHandle(reg, Head(backend)[2]) # {}]
  BY PollEventChange
<1>2. /\ feed.at = "poll" /\ backend # <<>> /\ backend' = Tail(backend)
      /\ UNCHANGED <<plugged, stops, published>>
  BY DEF PollEvent, At
<1>3. FeedTypes' /\ feed'.at = "poll" /\ feed'.zero = (feed.zero \/ zero)
        /\ feed'.command = feed.command
  BY <1>1, <1>2 DEF IInv, TypeOK, FeedTypes
<1>4. Shaped(reg') /\ Settled(reg') /\ (reg.enabled /\ ~ reg'.enabled => zero)
  BY <1>1 DEF Change
<1>5. backend' \in Seq({"on", "off"} \X Pads)  BY <1>2 DEF IInv, TypeOK
<1>6. TypeOK'  BY <1>2, <1>3, <1>4, <1>5 DEF IInv, TypeOK
<1>7. Held(reg') /\ AuthorityHasAPad'  BY <1>4 DEF Settled, AuthorityHasAPad
<1>8. MotionIsCovered' /\ CommandIsCovered'
  BY <1>2, <1>3, <1>4 DEF IInv, MotionIsCovered, CommandIsCovered, TypeOK, FeedTypes
<1>. QED  BY <1>6, <1>7, <1>8 DEF IInv

\* The end of a tick.
LEMMA TickEndsKeeps == ASSUME IInv, NEW ok \in BOOLEAN, TickEnds(ok) PROVE IInv'
<1>1. feed.at = "poll" /\ UNCHANGED hardware  BY DEF TickEnds, At
<1>2. Shaped(reg) /\ Settled(reg)  BY <1>1 DEF IInv, TypeOK, AuthorityHasAPad, Settled
<1>3. stops \in Nat /\ published \in Told /\ feed.zero \in BOOLEAN
  BY DEF IInv, TypeOK, FeedTypes
<1>. DEFINE live == reg.enabled /\ HandleOf(reg, reg.selected) # None
            c == Disconnect(reg, reg.selected)
<1>4. CASE /\ live /\ reg' = c.reg /\ StopIf(feed.zero \/ c.zero, ok)
           /\ feed' = [feed EXCEPT !.at = "record", !.command = None]
  <2>1. reg.selected \in Known(reg)  BY <1>2, <1>4 DEF Settled, Held, Ready, Connected
  <2>2. Change(reg, c.reg, c.zero)  BY <1>2, <2>1, DisconnectChange
  <2>. DEFINE zero == feed.zero \/ c.zero
  <2>3. zero \in BOOLEAN  OBVIOUS
  <2>. HIDE DEF c
  <2>4. FeedTypes' /\ feed'.command = None /\ feed'.at = "record"
    BY <1>1, <1>4 DEF IInv, TypeOK, FeedTypes, Places, Told
  <2>5. /\ stops' \in Nat /\ published' \in Told /\ published' \in {published, "stop"}
        /\ published' = "drive" => (IF zero THEN stops' > 0 ELSE stops' = stops)
    <3>. HIDE DEF zero
    <3>1. StopIf(zero, ok)  BY <1>4 DEF zero
    <3>. QED  BY <1>3, <2>3, <3>1, StopIfKeeps
  <2>6. Shaped(reg') /\ Settled(reg') /\ (reg.enabled /\ ~ reg'.enabled => zero)
    BY <1>4, <2>2 DEF Change
  <2>7. TypeOK'  BY <1>1, <2>4, <2>5, <2>6 DEF IInv, TypeOK, hardware
  <2>8. MotionIsCovered'
    BY <1>1, <1>3, <2>5, <2>6, InputAssumption DEF MotionIsCovered, IInv, TypeOK, Shaped
  <2>. QED
    BY <2>4, <2>6, <2>7, <2>8, InputAssumption
    DEF IInv, Settled, AuthorityHasAPad, CommandIsCovered
<1>5. CASE /\ StopIf(feed.zero, ok) /\ UNCHANGED reg
           /\ \E command \in IF live THEN {"drive", "stop"} ELSE {None} :
                feed' = [feed EXCEPT !.at = IF feed.changed THEN "record" ELSE "drive",
                                     !.command = command]
  <2>1. PICK command \in IF live THEN {"drive", "stop"} ELSE {None} :
          feed' = [feed EXCEPT !.at = IF feed.changed THEN "record" ELSE "drive",
                               !.command = command]
    BY <1>5
  <2>2. command = "drive" => reg.enabled  BY InputAssumption
  <2>3. FeedTypes' /\ feed'.command = command /\ feed'.at \in {"record", "drive"}
    BY <1>1, <2>1 DEF IInv, TypeOK, FeedTypes, Places, Told
  <2>4. /\ stops' \in Nat /\ published' \in Told /\ published' \in {published, "stop"}
        /\ published' = "drive" => (IF feed.zero THEN stops' > 0 ELSE stops' = stops)
    BY <1>3, <1>5, StopIfKeeps
  <2>5. TypeOK'  BY <1>1, <1>5, <2>3, <2>4 DEF IInv, TypeOK, hardware
  <2>6. MotionIsCovered'
    BY <1>1, <1>3, <1>5, <2>4, InputAssumption DEF MotionIsCovered, IInv
  <2>7. Held(reg') /\ AuthorityHasAPad'
    BY <1>2, <1>5 DEF Settled, Held, AuthorityHasAPad, Ready, Connected, Known
  <2>. QED  BY <1>5, <2>2, <2>3, <2>5, <2>6, <2>7 DEF IInv, CommandIsCovered
<1>. QED  BY <1>4, <1>5 DEF TickEnds

\* A request of the dashboard.
LEMMA RequestKeeps == ASSUME IInv, NEW ok \in BOOLEAN, Request(ok) PROVE IInv'
<1>1. feed.at = "idle" /\ UNCHANGED hardware  BY DEF Request, At
<1>2. Shaped(reg) /\ Settled(reg)  BY <1>1 DEF IInv, TypeOK, AuthorityHasAPad, Settled
<1>3. CASE Head(port).kind = "rescan"
  <2>1. feed' = [feed EXCEPT !.at = "rescan", !.todo = plugged]
          /\ UNCHANGED <<reg, stops, published>>
    BY <1>3 DEF Request
  <2>2. FeedTypes' /\ feed'.at = "rescan" /\ feed'.command = feed.command
    BY <2>1 DEF IInv, TypeOK, FeedTypes, Places
  <2>3. TypeOK'  BY <1>1, <2>1, <2>2 DEF IInv, TypeOK, hardware
  <2>. QED
    BY <1>1, <2>1, <2>2, <2>3
    DEF IInv, Held, AuthorityHasAPad, MotionIsCovered, CommandIsCovered
<1>4. CASE Head(port).kind # "rescan"
  <2>. DEFINE r == Head(port)
              c == IF r.kind = "select" THEN Select(reg, r.id) ELSE SetEnabled(reg, r.on)
  <2>1. /\ reg' = c.reg /\ StopIf(c.zero, ok)
        /\ feed' = [feed EXCEPT !.at = "record", !.command = None]
    BY <1>4 DEF Request
  <2>2. Change(reg, c.reg, c.zero)
    BY <1>2, SelectChange, SetEnabledChange
  <2>. HIDE DEF c
  <2>3. c.zero \in BOOLEAN  BY <2>2 DEF Change
  <2>4. FeedTypes' /\ feed'.command = None
    BY <1>1, <2>1 DEF IInv, TypeOK, FeedTypes, Places, Told
  <2>. QED  BY <1>1, <2>1, <2>2, <2>3, <2>4, ChangeKeeps
<1>. QED  BY <1>3, <1>4

\* The sample is recorded and announced.
LEMMA RecordKeeps == ASSUME IInv, Record \/ Announce PROVE IInv'
<1>1. /\ feed.at \in {"record", "send"}
      /\ \/ feed' = [feed EXCEPT !.at = "send"]
         \/ feed' = [feed EXCEPT !.at = "drive"]
         \/ feed' = [feed EXCEPT !.at = "failed"]
      /\ UNCHANGED <<hardware, reg, stops, published>>
  BY DEF Record, Announce, At
<1>2. FeedTypes' /\ feed'.at \in {"send", "drive", "failed"} /\ feed'.command = feed.command
  BY <1>1 DEF IInv, TypeOK, FeedTypes, Places
<1>3. TypeOK'  BY <1>1, <1>2 DEF IInv, TypeOK, hardware
<1>. QED
  BY <1>1, <1>2, <1>3 DEF IInv, Held, AuthorityHasAPad, MotionIsCovered, CommandIsCovered, Ready,
                          Connected, Known

\* A command sent to the robot.
LEMMA DriveKeeps == ASSUME IInv, NEW ok \in BOOLEAN, Drive(ok) PROVE IInv'
<1>1. /\ feed.at = "drive" /\ UNCHANGED <<hardware, reg, stops>>
      /\ feed' = [feed EXCEPT !.at = "idle", !.command = None]
      /\ published' \in {published, feed.command}
  BY DEF Drive, At, Publishes
<1>2. FeedTypes' /\ feed'.at = "idle" /\ feed'.command = None
  BY <1>1 DEF IInv, TypeOK, FeedTypes, Places, Told
<1>3. TypeOK'  BY <1>1, <1>2 DEF IInv, TypeOK, FeedTypes, hardware
<1>4. MotionIsCovered'
  BY <1>1 DEF IInv, MotionIsCovered, CommandIsCovered
<1>. QED
  BY <1>1, <1>2, <1>3, <1>4, InputAssumption
  DEF IInv, Held, AuthorityHasAPad, CommandIsCovered, Ready, Connected, Known

\* The close of the input.
LEMMA CloseKeeps == ASSUME IInv, Close PROVE IInv'
<1>1. /\ Awaiting /\ UNCHANGED <<hardware, reg, stops, published>>
      /\ feed' = [feed EXCEPT !.at = IF @ = "failed" THEN @ ELSE "ended"]
  BY DEF Close
<1>2. FeedTypes' /\ feed'.at \in {"failed", "ended"} /\ feed'.command = feed.command
  BY <1>1 DEF IInv, TypeOK, FeedTypes, Places
<1>3. TypeOK'  BY <1>1, <1>2 DEF IInv, TypeOK, hardware
<1>. QED
  BY <1>1, <1>2, <1>3 DEF IInv, Awaiting, Held, AuthorityHasAPad, MotionIsCovered,
                          CommandIsCovered, Ready, Connected, Known

\* A pad plugged in or out.
LEMMA PlugKeeps == ASSUME IInv, NEW p \in Pads, Plug(p) PROVE IInv'
<1>1. /\ plugged' \subseteq Pads /\ UNCHANGED driver
      /\ backend' = Append(backend, <<IF p \in plugged THEN "off" ELSE "on", p>>)
  BY DEF Plug, IInv, TypeOK
<1>2. backend' \in Seq({"on", "off"} \X Pads)  BY <1>1 DEF IInv, TypeOK
<1>. QED  BY <1>1, <1>2, DriverUntouched

\* Every step keeps the invariant.
LEMMA StepOK == IInv /\ [Next]_vars => IInv'
<1>. SUFFICES ASSUME IInv, [Next]_vars PROVE IInv'
  OBVIOUS
<1>1. CASE UNCHANGED <<driver, hardware>>
  BY <1>1, DriverUntouched DEF hardware, IInv, TypeOK
<1>2. ASSUME NEW p \in Pads, Plug(p) PROVE IInv'  BY <1>2, PlugKeeps
<1>3. CASE Open  BY <1>3, OpenKeeps
<1>4. CASE RescanPad  BY <1>4, RescanPadKeeps
<1>5. CASE PollEvent  BY <1>5, PollEventKeeps
<1>6. CASE Record \/ Announce  BY <1>6, RecordKeeps
<1>7. ASSUME NEW ok \in BOOLEAN, FeedSteps(ok) PROVE IInv'
  BY <1>7, RescanEndsKeeps, TickKeeps, TickEndsKeeps, RequestKeeps, DriveKeeps DEF FeedSteps
<1>8. CASE Close  BY <1>8, CloseKeeps
<1>9. CASE \/ MotionObserves \/ MotionAnnounces \/ Observed \/ Route \/ Leave
           \/ \E request \in Requests : Key(request)
           \/ \E t \in tasks : Submit(t)
  BY <1>1, <1>9 DEF MotionObserves, MotionAnnounces, Observed, Route, Leave, Key, Submit
<1>10. CASE UNCHANGED vars  BY <1>1, <1>10 DEF vars
<1>. QED  BY <1>2, <1>3, <1>4, <1>5, <1>6, <1>7, <1>8, <1>9, <1>10 DEF Next

(***************************************************************************)
(* The theorems.                                                           *)
(***************************************************************************)
\* The whole invariant.
THEOREM Invariant == Spec => []IInv
  BY InitOK, StepOK, PTL DEF Spec

\* Type correctness.
THEOREM TypeCorrect == Spec => []TypeOK
<1>1. IInv => TypeOK  BY DEF IInv
<1>. QED  BY Invariant, <1>1, PTL

\* Outside an enumeration, the selection is a pad that is connected and mapped
\* (registry.rs, prune and invalidate_selection).
THEOREM AuthorityAlwaysHasAPad == Spec => []AuthorityHasAPad
<1>1. IInv => AuthorityHasAPad  BY DEF IInv
<1>. QED  BY Invariant, <1>1, PTL

\* A robot last told to drive is under authority or owed a stop (input.rs,
\* pending_stops).
THEOREM MotionAlwaysCovered == Spec => []MotionIsCovered
<1>1. IInv => MotionIsCovered  BY DEF IInv
<1>. QED  BY Invariant, <1>1, PTL

\* No step that changes the selection leaves authority on.
LEMMA InheritanceStep ==
  IInv /\ [Next]_vars => ((reg'.selected # reg.selected) => ~ reg'.enabled)
<1>. SUFFICES ASSUME IInv, [Next]_vars, reg'.selected # reg.selected PROVE ~ reg'.enabled
  OBVIOUS
<1>1. CASE UNCHANGED reg  BY <1>1
<1>2. CASE RescanPad
  <2>1. PICK p \in First(PadOrder, feed.todo) : \E i \in ObservedAs(reg, p) :
          reg' = Observe(reg, p, i)
    BY <1>2 DEF RescanPad
  <2>2. p \in Pads  BY DEF First, IInv, TypeOK, FeedTypes
  <2>. QED  BY <2>1, <2>2, ObserveKeeps DEF IInv, TypeOK
<1>3. CASE PollEvent  BY <1>3, PollEventChange DEF Change
<1>4. ASSUME NEW ok \in BOOLEAN, RescanEnds(ok) PROVE ~ reg'.enabled
  BY <1>4, RescanEndsChange DEF Change
<1>5. ASSUME NEW ok \in BOOLEAN, TickEnds(ok) PROVE ~ reg'.enabled
  <2>1. feed.at = "poll" /\ reg' = Disconnect(reg, reg.selected).reg /\ reg.enabled
    BY <1>5 DEF TickEnds, At
  <2>2. Shaped(reg) /\ Settled(reg)  BY <2>1 DEF IInv, TypeOK, AuthorityHasAPad, Settled
  <2>3. reg.selected \in Known(reg)  BY <2>1, <2>2 DEF Settled, Held, Ready, Connected
  <2>. QED  BY <2>1, <2>2, <2>3, DisconnectChange DEF Change
<1>6. ASSUME NEW ok \in BOOLEAN, Request(ok) PROVE ~ reg'.enabled
  <2>. DEFINE r == Head(port)
  <2>1. feed.at = "idle" /\ reg' = (IF r.kind = "select" THEN Select(reg, r.id)
                                    ELSE SetEnabled(reg, r.on)).reg
    BY <1>6 DEF Request, At
  <2>2. Shaped(reg) /\ Settled(reg)  BY <2>1 DEF IInv, TypeOK, AuthorityHasAPad, Settled
  <2>. QED  BY <2>1, <2>2, SelectChange, SetEnabledChange DEF Change
<1>7. ASSUME NEW ok \in BOOLEAN, FeedSteps(ok) PROVE ~ reg'.enabled
  BY <1>1, <1>4, <1>5, <1>6, <1>7 DEF FeedSteps, Tick, Drive
<1>8. CASE \/ \E p \in Pads : Plug(p)
           \/ Open \/ Record \/ Announce \/ Close
           \/ MotionObserves \/ MotionAnnounces \/ Observed \/ Route \/ Leave
           \/ \E request \in Requests : Key(request)
           \/ \E t \in tasks : Submit(t)
           \/ UNCHANGED vars
  BY <1>1, <1>8 DEF Plug, Open, Record, Announce, Close, MotionObserves, MotionAnnounces,
                    Observed, Route, Leave, Key, Submit, driver, vars
<1>. QED  BY <1>2, <1>3, <1>7, <1>8 DEF Next

\* Authority never passes from one pad to another (registry.rs, select, connected,
\* reconcile_selection).
THEOREM AuthorityNeverInherited == Spec => AuthorityIsNotInherited
  BY Invariant, InheritanceStep, PTL DEF Spec, AuthorityIsNotInherited

=============================================================================
