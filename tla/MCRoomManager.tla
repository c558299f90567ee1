--------------------------- MODULE MCRoomManager ---------------------------
(* Small instances of RoomManager for TLC.                                  *)
EXTENDS RoomManager, TLC

CONSTANTS c1, c2, a1, r1, r2, o1, o2, o3, o4

TwoConns   == {c1, c2}
NoAdmin    == {}
OneAdmin   == {a1}
OneRoom    == {r1}
TwoRooms   == {r1, r2}
FourObjs   == {o1, o2, o3, o4}

\* Ids and objects are only ever compared for equality.
RoomSymmetry ==
    Permutations(TwoConns) \cup Permutations(TwoRooms) \cup Permutations(FourObjs)
============================================================================
