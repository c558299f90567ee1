------------------------------ MODULE MCClient ------------------------------
(***************************************************************************)
(* Instances of Client for TLC.                                            *)
(***************************************************************************)
EXTENDS Client, TLC

CONSTANTS a1, a2

TwoTasks == {a1, a2}

\* The callers are interchangeable.
Symmetry == Permutations(Callers)

=============================================================================
