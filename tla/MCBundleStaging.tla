--------------------------- MODULE MCBundleStaging ---------------------------
(* One official, one service of the project, one component type, and two        *)
(* instances of it, one of which may take the id of the service; two framework  *)
(* versions on one line and a third on the next.                                *)
EXTENDS BundleStaging

MCTypeOf == [i \in Instance |-> "wheel"]
MCLine == [t \in Train |-> IF t = "next" THEN 2 ELSE 1]

Sound(drive, wheel, owned, declared) ==
  [locked |-> TRUE, train |-> "old",
   tree |-> [s \in Source |-> CASE s = "drive" -> drive [] s = "wheel" -> wheel
                                [] s = "nav" /\ ~owned -> "absent" [] OTHER -> "crate"],
   declared |-> (IF owned THEN {"nav"} ELSE {}) \cup declared,
   mounted |-> {"left"}, driven |-> {"left"}, shared |-> {},
   says |-> [s \in Source |-> "itself"],
   fits |-> [o \in Service \cup Instance |-> Train]]

MCProjects ==
  {Sound(d, w, o, c) : d \in {"absent", "crate"}, w \in {"absent", "crate"},
                       o \in BOOLEAN, c \in SUBSET Official}

Toggle(set, x) == IF x \in set THEN set \ {x} ELSE set \cup {x}
MCEdits(p) ==
  {[p EXCEPT !.train = t] : t \in Train}
  \cup {[p EXCEPT !.locked = ~p.locked]}
  \cup {[p EXCEPT !.tree[s] = x] : s \in Service, x \in {"absent", "crate", "malformed"}}
  \cup {[p EXCEPT !.tree[t] = x] : t \in Type, x \in {"absent", "assets", "crate", "malformed"}}
  \cup {[p EXCEPT !.tree[Brain] = "malformed"]}
  \cup {[p EXCEPT !.declared = Toggle(p.declared, s)] : s \in Service}
  \cup {[p EXCEPT !.mounted = @ \cup {i}, !.driven = Toggle(p.driven, i)] : i \in Instance}
  \cup {[p EXCEPT !.shared = Toggle(p.shared, s)] : s \in Source}
  \cup {[p EXCEPT !.says[s] = x] : s \in Source, x \in {"another", "kind"}}
  \cup {[p EXCEPT !.says[Brain] = "config"]}
  \cup {[p EXCEPT !.fits[o] = x] : o \in Service \cup Instance, x \in {{}, {"old"}, {"new"}}}

==============================================================================
