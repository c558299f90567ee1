----------------------------- MODULE Membership -----------------------------
(***************************************************************************)
(* What the RoomManager promises of room membership (src/src/room.rs) when *)
(* each connection's own task makes its calls: the pairs <<connection,     *)
(* room>> a broadcast to the room would visit, each of which begins and    *)
(* ends in one step of a call of that connection's.                        *)
(*                                                                         *)
(* A connection becomes a member only while it is registered, stops being  *)
(* one only at the beginning of its own leave_room or in the course of its *)
(* own unregistration, and is nobody's member after that.  In particular   *)
(* no clean-up of empty rooms costs a member its membership.  What it may  *)
(* cost is a join under way, which then has no effect; but that only if    *)
(* the room has no member at the end of a leave or an unregistration of    *)
(* another connection.                                                     *)
(***************************************************************************)
CONSTANTS
    Conns,      \* connection ids, registered once
    Rooms,      \* room ids
    None        \* no room

VARIABLES
    registered, \* the connections between register and unregister
    member,     \* the pairs <<connection, room>>
    doing       \* the call each connection's task is in

Call(op, r) == [op |-> op, room |-> r]
Free        == Call("idle", None)

Init ==
    /\ registered = {} /\ member = {}
    /\ doing = [c \in Conns |-> Free]

Goes(c, from, to) ==
    /\ doing[c] = from
    /\ doing' = [doing EXCEPT ![c] = to]

Register(c) ==
    /\ c \notin registered /\ doing[c] = Free
    /\ registered' = registered \cup {c}
    /\ UNCHANGED <<member, doing>>

JoinBegin(c, r) ==
    /\ c \in registered
    /\ Goes(c, Free, Call("joining", r))
    /\ UNCHANGED <<registered, member>>

JoinTakes(c, r) ==
    /\ Goes(c, Call("joining", r), Call("joined", r))
    /\ member' = member \cup {<<c, r>>}
    /\ UNCHANGED registered

\* The room was cleaned up under the join, which reports success.
JoinLost(c, r) ==
    /\ Goes(c, Call("orphaned", r), Call("joined", r))
    /\ UNCHANGED <<registered, member>>

JoinEnd(c, r) ==
    /\ Goes(c, Call("joined", r), Free)
    /\ UNCHANGED <<registered, member>>

Leave(c, r) ==
    /\ c \in registered
    /\ Goes(c, Free, Call("leaving", r))
    /\ member' = member \ {<<c, r>>}
    /\ UNCHANGED registered

UnregisterBegin(c) ==
    /\ c \in registered
    /\ Goes(c, Free, Call("unregistering", None))
    /\ UNCHANGED <<registered, member>>

UnregisterLeave(c, r) ==
    /\ Goes(c, Call("unregistering", None), Call("unregistering", r))
    /\ member' = member \ {<<c, r>>}
    /\ UNCHANGED registered

\* Connection c has left room r, and sees to it that the room is not left
\* empty: this ends no membership, but joins under way may be lost.
CleanUp(c, r, from, to) ==
    /\ doing[c] = from
    /\ \E lost \in SUBSET {d \in Conns : doing[d] = Call("joining", r)} :
        /\ lost # {} => \A d \in Conns : <<d, r>> \notin member
        /\ doing' = [d \in Conns |-> IF d = c THEN to
                                     ELSE IF d \in lost THEN Call("orphaned", r)
                                     ELSE doing[d]]
    /\ UNCHANGED <<registered, member>>
LeaveEnd(c, r)       == CleanUp(c, r, Call("leaving", r), Free)
UnregisterNext(c, r) ==
    CleanUp(c, r, Call("unregistering", r), Call("unregistering", None))

\* By the time a connection is unregistered it has left every room.
UnregisterEnd(c) ==
    /\ \A r \in Rooms : <<c, r>> \notin member
    /\ Goes(c, Call("unregistering", None), Free)
    /\ registered' = registered \ {c}
    /\ UNCHANGED member

Next ==
    \/ \E c \in Conns : Register(c) \/ UnregisterBegin(c) \/ UnregisterEnd(c)
    \/ \E c \in Conns, r \in Rooms :
        \/ JoinBegin(c, r) \/ JoinTakes(c, r) \/ JoinLost(c, r) \/ JoinEnd(c, r)
        \/ Leave(c, r) \/ LeaveEnd(c, r)
        \/ UnregisterLeave(c, r) \/ UnregisterNext(c, r)

Spec == Init /\ [][Next]_<<registered, member, doing>>
=============================================================================
