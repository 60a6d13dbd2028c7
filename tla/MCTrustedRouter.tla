--------------------------- MODULE MCTrustedRouter ---------------------------
(* Small instances of the trusted router.                                  *)
EXTENDS TrustedRouter, TLC

CONSTANTS p1, p2, c1, c2

\* One call in each of two processes, or one call only.
OwnProcesses == (c1 :> p1) @@ (c2 :> p2)
OneCall      == c1 :> p1

Symmetry == Permutations(ActionIds) \cup Permutations(Targets)
=============================================================================
