---------------------------- MODULE MCBroadcast ----------------------------
(* A small instance of Broadcast for TLC.                                   *)
EXTENDS Broadcast, TLC

CONSTANTS c1, c2, b1, r1, o1, o2, o3

TwoConns  == {c1, c2}
ThreeObjs == {o1, o2, o3}

\* Ids and objects are only ever compared for equality.
Symmetry == Permutations(TwoConns) \cup Permutations(ThreeObjs)
============================================================================
