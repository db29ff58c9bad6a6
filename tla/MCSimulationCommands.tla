------------------------ MODULE MCSimulationCommands ------------------------
(* An instance of SimulationCommands for TLC: one client that launches and *)
(* lists, one that starts, looks and controls.                             *)
EXTENDS SimulationCommands

CONSTANTS c1, c2

Both == [c \in {c1, c2} |-> IF c = c1 THEN {"run", "connect", "list"}
                                     ELSE {"start", "status", "stop", "resume"}]
=============================================================================
