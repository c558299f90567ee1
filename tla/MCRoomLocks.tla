---------------------------- MODULE MCRoomLocks ----------------------------
(* Small instances of RoomLocks for TLC.                                    *)
EXTENDS RoomLocks, TLC

CONSTANTS t1, t2, t3, t4

FourTasks == {t1, t2, t3, t4}

CrateCalls == DOMAIN Script \ {"visit"}

\* The tasks are interchangeable.
Symmetry == Permutations(FourTasks)
============================================================================
