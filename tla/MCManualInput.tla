--------------------------- MODULE MCManualInput ---------------------------
(* An instance of ManualInput: two pads of one model and a third that has  *)
(* no mapping or another model, more than the registry has room for.       *)
EXTENDS ManualInput

CONSTANTS p1, p2, p3

Twins == [p \in {p1, p2, p3} |-> IF p = p3 THEN "other" ELSE "twin"]
Order == <<p1, p2, p3>>
=============================================================================
