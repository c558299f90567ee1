----------------------------- MODULE Broadcast -----------------------------
(***************************************************************************)
(* broadcast_to_room, broadcast_to_room_except and broadcast_all           *)
(* (src/src/room.rs) among the operations of module RoomManager: a         *)
(* broadcast visits the members one shard at a time while others join,     *)
(* leave, delete and unregister.  Through the visit it holds the guard of  *)
(* its room's entry, so whoever would write that entry waits.              *)
(***************************************************************************)
EXTENDS RoomManager

CONSTANTS Broadcasters  \* the tasks that broadcast, once each (a bound)

VARIABLES
    bpc,    \* where each broadcaster stands
    bcast   \* its operands and results

bvars == <<vars, bpc, bcast>>

\* room is None for broadcast_all, except is None for broadcast_to_room;
\* steady is history: the recipients who have been so from the start.
NoCast == [room |-> None, except |-> None, obj |-> None, todo |-> {},
           got |-> {}, refused |-> {}, count |-> 0, steady |-> {}]

BInit ==
    /\ Init
    /\ bpc = [b \in Broadcasters |-> "idle"]
    /\ bcast = [b \in Broadcasters |-> NoCast]

Busy == {b \in Broadcasters : bpc[b] = "busy"}

\* Whom a broadcast to r, or to all, is for.
Present == [r \in Rooms \cup {None} |->
              {c \in connections : r = None \/ Mapped(c, r)}]

\* The rooms whose entries are held.  Mutant: the guard is let go once the
\* Arc is cloned.
NoneGuarded == {}
Guarded == {bcast[b].room : b \in Busy} \ {None}

\* A step of the RoomManager: not one that writes an entry which is held.
Waits(t) ==
    /\ pc[t] \in {"join_create", "leave_prune", "unreg_prune"}
    /\ arg[t].room \in Guarded
Manager ==
    /\ Next
    /\ \A t \in Threads : Waits(t) => pc'[t] = pc[t]
    /\ \A r \in Guarded : rooms'[r] = rooms[r]
    /\ bcast' = [b \in Broadcasters |->
                    [bcast[b] EXCEPT !.steady = @ \cap Present'[bcast[b].room]]]
    /\ UNCHANGED bpc

\* rooms.get of the room, which must exist; or all of connections.
Start(b, r, x) ==
    /\ bpc[b] = "idle"
    /\ r # None => rooms[r] # None
    /\ bpc' = [bpc EXCEPT ![b] = "busy"]
    /\ bcast' = [bcast EXCEPT ![b] =
                    [NoCast EXCEPT !.room = r, !.except = x, !.todo = Conns,
                                   !.obj = IF r = None THEN None ELSE rooms[r],
                                   !.steady = Present[r] \ {x}]]
    /\ UNCHANGED vars
BcastBegin(b) ==
    \/ \E r \in Rooms, x \in Conns \cup {None} : Start(b, r, x)
    \/ Start(b, None, None)

\* Connection c is come to: it is no recipient, it takes a copy, or it
\* refuses one.  Mutant: a refusal ends the broadcast.
Recipient(b, c) ==
    /\ c \in connections /\ c # bcast[b].except
    /\ bcast[b].room # None => c \in members[bcast[b].obj]
Visit(b, c, after) ==
    /\ b \in Busy /\ c \in bcast[b].todo
    /\ bcast' = [bcast EXCEPT ![b] = after]
    /\ UNCHANGED <<vars, bpc>>
Passed(b, c) == [bcast[b] EXCEPT !.todo = @ \ {c}]
Copy(b, c) == [Passed(b, c) EXCEPT !.got = @ \cup {c}, !.count = @ + 1]
RefuseAll(b, c) == [bcast[b] EXCEPT !.todo = {}, !.refused = @ \cup {c}]
Refuse(b, c) == [Passed(b, c) EXCEPT !.refused = @ \cup {c}]
BcastVisit(b) == \E c \in Conns :
    \/ ~Recipient(b, c) /\ Visit(b, c, Passed(b, c))
    \/ Recipient(b, c) /\ (Visit(b, c, Copy(b, c)) \/ Visit(b, c, Refuse(b, c)))

\* Ok(sent_count)
BcastEnd(b) ==
    /\ b \in Busy /\ bcast[b].todo = {}
    /\ bpc' = [bpc EXCEPT ![b] = "done"]
    /\ UNCHANGED <<vars, bcast>>

BNext ==
    \/ Manager
    \/ \E b \in Broadcasters : BcastBegin(b) \/ BcastVisit(b) \/ BcastEnd(b)

BSpec == BInit /\ [][BNext]_bvars

-----------------------------------------------------------------------------
(* Properties.                                                             *)

(***************************************************************************)
(* A copy goes to a connection only while it is registered and a member of *)
(* the room that has that id: not to one that has left, not to one that    *)
(* was in a room deleted and created anew in the meantime, and not to the  *)
(* one excepted.                                                           *)
(***************************************************************************)
OnlyMembersGet ==
    [][\A b \in Broadcasters : \A c \in bcast'[b].got \ bcast[b].got :
          c \in Present[bcast[b].room] /\ c # bcast[b].except]_bvars

(***************************************************************************)
(* Whoever is a recipient from the start of the broadcast to its end has   *)
(* been offered a copy, whoever joins, leaves or refuses meanwhile; and    *)
(* the count returned is that of the copies accepted.                      *)
(***************************************************************************)
AllMembersOffered == \A b \in Broadcasters : bpc[b] = "done" =>
    /\ bcast[b].steady \subseteq bcast[b].got \cup bcast[b].refused
    /\ bcast[b].count = Cardinality(bcast[b].got)

=============================================================================
