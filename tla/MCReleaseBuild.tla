----------------------------- MODULE MCReleaseBuild -----------------------------
(* The instance for TLC: the commands are interchangeable.                      *)
EXTENDS ReleaseBuild, TLC

Commands == Permutations(Job)

=================================================================================
