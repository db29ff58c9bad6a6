------------------------ MODULE MCSessionLifecycle ------------------------
(* Instances of SessionLifecycle for TLC. *)
EXTENDS SessionLifecycle, TLC

Symmetry == Permutations(Client) \cup Permutations(Session) \cup Permutations(Participant)
===========================================================================
