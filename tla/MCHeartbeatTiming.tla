------------------------- MODULE MCHeartbeatTiming -------------------------
(* Settings of HeartbeatTiming for TLC.                                     *)
EXTENDS HeartbeatTiming

Setting(i, t, r, c) == [interval |-> i, timeout |-> t, roundTrip |-> r, callback |-> c]

\* The heartbeat decides and a pong comes just before the verdict, or just
\* before the idle deadline; the deadline decides as with the defaults, or
\* after a callback almost as long; a pong comes after the verdict; a callback
\* takes longer than the deadline.
SixSettings ==
    {Setting(3, 24, 8, 0), Setting(2, 5, 2, 0), Setting(3, 6, 2, 1), Setting(2, 4, 1, 3),
     Setting(1, 6, 4, 0), Setting(2, 3, 1, 4)}
============================================================================
