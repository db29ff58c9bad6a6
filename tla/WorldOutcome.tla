---------------------------- MODULE WorldOutcome ----------------------------
(***************************************************************************)
(* What the evidence of simulation worlds promises its readers, whoever    *)
(* writes it: the outcome of a world is published at most once and never   *)
(* changes; it may only be forgotten, by retention, and a forgotten world  *)
(* does not come back.  WorldRegistry implements it.                       *)
(***************************************************************************)
CONSTANTS World, Outcome, None

VARIABLES
  phase,        \* "unborn", "open", "closed" or "forgotten"
  outcome       \* what a reader of the evidence is told

Init ==
  /\ phase \in [World -> {"unborn", "open", "closed"}]
  /\ outcome \in [World -> Outcome \cup {None}]
  /\ \A w \in World : outcome[w] # None <=> phase[w] = "closed"

Open(w) ==
  /\ phase[w] = "unborn"
  /\ phase' = [phase EXCEPT ![w] = "open"]
  /\ UNCHANGED outcome

Close(w, o) ==
  /\ phase[w] = "open"
  /\ phase' = [phase EXCEPT ![w] = "closed"]
  /\ outcome' = [outcome EXCEPT ![w] = o]

Forget(w) ==
  /\ phase[w] = "closed"
  /\ phase' = [phase EXCEPT ![w] = "forgotten"]
  /\ outcome' = [outcome EXCEPT ![w] = None]

Next ==
  \E w \in World :
    \/ Open(w)
    \/ Forget(w)
    \/ \E o \in Outcome : Close(w, o)

Spec == Init /\ [][Next]_<<phase, outcome>>
=============================================================================
