----------------------------- MODULE RoomManager -----------------------------
(***************************************************************************)
(* The RoomManager (src/src/room.rs) as the tasks of a multi-threaded      *)
(* runtime execute it: three DashMaps, each atomic by itself, and rooms    *)
(* shared by Arc.  Every operation is a sequence of map accesses; one      *)
(* access is one action and any other task may come in between.            *)
(*                                                                         *)
(* Each connection has its own task, which registers it, joins and leaves  *)
(* rooms on its behalf from its handler's callbacks, and unregisters it.   *)
(* Admins are other tasks that hold the RoomManager: AdminOps says which   *)
(* of its operations they use, on any connection.                          *)
(***************************************************************************)
EXTENDS Naturals, FiniteSets

CONSTANTS
    Conns,      \* connection ids: fresh UUIDs, registered once
    Admins,     \* tasks that are no connection's own
    Rooms,      \* room ids
    Objs,       \* Room objects, reused once nothing refers to them
    None,       \* no object, no connection, no room
    AdminOps    \* what admins do: a subset of {"join", "leave", "delete"}

Threads == Conns \cup Admins

ASSUME ThreadsAssumption == Conns \cap Admins = {}
ASSUME AdminOpsAssumption == AdminOps \subseteq {"join", "leave", "delete"}
\* There is always an object to create a room with.
ASSUME ObjsAssumption ==
    Cardinality(Objs) >= Cardinality(Rooms) + Cardinality(Threads)
ASSUME NoneAssumption == None \notin Conns \cup Rooms \cup Objs

VARIABLES
    rooms,       \* rooms: the object of each room id, or None
    members,     \* the members map of each object
    indexed,     \* the keys of connection_rooms
    index,       \* their values, the rooms of each connection
    connections, \* the keys of connections
    pc,          \* where each thread stands
    arg          \* its operands: connection, room, object, what is left to do

maps == <<rooms, members, indexed, index, connections>>
vars == <<maps, pc, arg>>

Idle == {"new", "idle", "gone"}

NoArg == [conn |-> None, room |-> None, obj |-> None, todo |-> {}, found |-> {}]

TypeOK ==
    /\ rooms \in [Rooms -> Objs \cup {None}]
    /\ members \in [Objs -> SUBSET Conns]
    /\ indexed \subseteq Conns
    /\ index \in [Conns -> SUBSET Rooms]
    /\ \A c \in Conns \ indexed : index[c] = {}
    /\ connections \subseteq Conns
    /\ pc \in [Threads -> Idle \cup
                {"reg_index", "join_create", "join_insert", "join_index",
                 "leave_index", "leave_prune", "delete_scan", "delete_unindex",
                 "unreg_leave", "unreg_prune"}]
    /\ arg \in [Threads ->
        [conn : Conns \cup {None}, room : Rooms \cup {None}, obj : Objs \cup {None},
         todo : SUBSET (Rooms \cup Conns), found : SUBSET Conns]]

Init ==
    /\ rooms = [r \in Rooms |-> None]
    /\ members = [o \in Objs |-> {}]
    /\ indexed = {}
    /\ index = [c \in Conns |-> {}]
    /\ connections = {}
    /\ pc = [t \in Threads |-> IF t \in Conns THEN "new" ELSE "idle"]
    /\ arg = [t \in Threads |-> NoArg]

-----------------------------------------------------------------------------

\* Thread t passes on to pc p, with operands a.
Step(t, from, p, a) ==
    /\ pc[t] = from
    /\ pc' = [pc EXCEPT ![t] = p]
    /\ arg' = [arg EXCEPT ![t] = a]

\* An operation returns: its operands, the Arc among them, are dropped.
Return(t, from) == Step(t, from, "idle", NoArg)

\* Objects nothing refers to: neither the rooms map nor a thread's Arc.
FreeObjs == Objs \ ({rooms[r] : r \in Rooms} \cup {arg[t].obj : t \in Threads})

\* rooms.get(r) and room.leave(c), under the guard of the first.
LeaveMembers(c, r) ==
    members' = IF rooms[r] = None THEN members
               ELSE [members EXCEPT ![rooms[r]] = @ \ {c}]

\* rooms.remove_if(r, is_empty).  Mutant: remove, on a test made earlier.
RemoveAlways(r) == rooms' = [rooms EXCEPT ![r] = None]
RemoveIfEmpty(r) ==
    rooms' = IF rooms[r] # None /\ members[rooms[r]] = {}
             THEN [rooms EXCEPT ![r] = None]
             ELSE rooms

-----------------------------------------------------------------------------
(* register_connection                                                     *)

Register(c) ==
    /\ Step(c, "new", "reg_index", NoArg)
    /\ connections' = connections \cup {c}
    /\ UNCHANGED <<rooms, members, indexed, index>>

RegisterIndex(c) ==
    /\ Return(c, "reg_index")
    /\ indexed' = indexed \cup {c}
    /\ index' = [index EXCEPT ![c] = {}]
    /\ UNCHANGED <<rooms, members, connections>>

-----------------------------------------------------------------------------
(* join_room                                                               *)

\* connections.contains_key: an unknown connection is refused at once.
JoinCheck(t, c, r) ==
    /\ c \in connections
    /\ Step(t, "idle", "join_create", [NoArg EXCEPT !.conn = c, !.room = r])
    /\ UNCHANGED maps

\* create_room: the object of the room, or a new empty one.
JoinCreate(t) ==
    /\ pc[t] = "join_create"
    /\ \E o \in Objs :
        /\ Step(t, "join_create", "join_insert", [arg[t] EXCEPT !.obj = o])
        /\ \/ /\ o = rooms[arg[t].room]
              /\ UNCHANGED <<rooms, members>>
           \/ /\ rooms[arg[t].room] = None /\ o \in FreeObjs
              /\ rooms' = [rooms EXCEPT ![arg[t].room] = o]
              /\ members' = [members EXCEPT ![o] = {}]
    /\ UNCHANGED <<indexed, index, connections>>

\* room.join, on the object create_room returned.
JoinInsert(t) ==
    /\ Step(t, "join_insert", "join_index", arg[t])
    /\ members' = [members EXCEPT ![arg[t].obj] = @ \cup {arg[t].conn}]
    /\ UNCHANGED <<rooms, indexed, index, connections>>

\* connection_rooms.get_mut, if the connection still has an entry.  Mutants:
\* nothing is recorded; the entry is created; it is assumed to be there.
Record(t) == index' = [index EXCEPT ![arg[t].conn] = @ \cup {arg[t].room}]
JoinUnrecorded(t) == Return(t, "join_index") /\ UNCHANGED maps
JoinOrDefault(t) ==
    /\ Return(t, "join_index")
    /\ indexed' = indexed \cup {arg[t].conn}
    /\ Record(t)
    /\ UNCHANGED <<rooms, members, connections>>
JoinUnchecked(t) ==
    /\ Return(t, "join_index")
    /\ Record(t)
    /\ UNCHANGED <<rooms, members, indexed, connections>>
JoinIndex(t) ==
    /\ Return(t, "join_index")
    /\ \/ arg[t].conn \in indexed /\ Record(t)
       \/ arg[t].conn \notin indexed /\ UNCHANGED index
    /\ UNCHANGED <<rooms, members, indexed, connections>>

-----------------------------------------------------------------------------
(* leave_room                                                              *)

LeaveMember(t, c, r) ==
    /\ Step(t, "idle", "leave_index", [NoArg EXCEPT !.conn = c, !.room = r])
    /\ LeaveMembers(c, r)
    /\ UNCHANGED <<rooms, indexed, index, connections>>

LeaveIndex(t) ==
    /\ Step(t, "leave_index", "leave_prune", arg[t])
    /\ index' = [index EXCEPT ![arg[t].conn] = @ \ {arg[t].room}]
    /\ UNCHANGED <<rooms, members, indexed, connections>>

\* Mutant: the empty room stays.
LeaveNoPrune(t) == Return(t, "leave_prune") /\ UNCHANGED maps
LeavePrune(t) ==
    /\ Return(t, "leave_prune")
    /\ RemoveIfEmpty(arg[t].room)
    /\ UNCHANGED <<members, indexed, index, connections>>

-----------------------------------------------------------------------------
(* delete_room                                                             *)

\* rooms.remove: the room is gone for every later operation.
DeleteTake(t, r) ==
    /\ rooms[r] # None
    /\ Step(t, "idle", "delete_scan",
            [NoArg EXCEPT !.room = r, !.obj = rooms[r], !.todo = Conns])
    /\ rooms' = [rooms EXCEPT ![r] = None]
    /\ UNCHANGED <<members, indexed, index, connections>>

\* room.members() visits the shards one by one, while others may still join.
DeleteScan(t) ==
    \E c \in arg[t].todo :
        /\ Step(t, "delete_scan",
                IF arg[t].todo = {c} THEN "delete_unindex" ELSE "delete_scan",
                [arg[t] EXCEPT !.todo = @ \ {c},
                               !.found = IF c \in members[arg[t].obj]
                                         THEN @ \cup {c} ELSE @])
        /\ UNCHANGED maps

\* The loop over the members found, one connection_rooms.get_mut at a time.
DeleteUnindex(t) ==
    \/ \E c \in arg[t].found :
        /\ Step(t, "delete_unindex", "delete_unindex",
                [arg[t] EXCEPT !.found = @ \ {c}])
        /\ index' = [index EXCEPT ![c] = @ \ {arg[t].room}]
        /\ UNCHANGED <<rooms, members, indexed, connections>>
    \/ /\ arg[t].found = {}
       /\ Return(t, "delete_unindex")
       /\ UNCHANGED maps

-----------------------------------------------------------------------------
(* unregister_connection                                                   *)

\* connection_rooms.remove: the rooms to leave are those of this moment.
UnregisterTake(c) ==
    /\ Step(c, "idle", "unreg_leave", [NoArg EXCEPT !.conn = c, !.todo = index[c]])
    /\ indexed' = indexed \ {c}
    /\ index' = [index EXCEPT ![c] = {}]
    /\ UNCHANGED <<rooms, members, connections>>

\* The loop leaves them one by one.
UnregisterLeave(c) ==
    \E r \in arg[c].todo :
        /\ Step(c, "unreg_leave", "unreg_prune",
                [arg[c] EXCEPT !.room = r, !.todo = @ \ {r}])
        /\ LeaveMembers(c, r)
        /\ UNCHANGED <<rooms, indexed, index, connections>>

UnregisterPrune(c) ==
    /\ Step(c, "unreg_prune", "unreg_leave", [arg[c] EXCEPT !.room = None])
    /\ RemoveIfEmpty(arg[c].room)
    /\ UNCHANGED <<members, indexed, index, connections>>

\* connections.remove, after the loop.
UnregisterDone(c) ==
    /\ arg[c].todo = {}
    /\ Step(c, "unreg_leave", "gone", NoArg)
    /\ connections' = connections \ {c}
    /\ UNCHANGED <<rooms, members, indexed, index>>

-----------------------------------------------------------------------------

\* What a task may do for connection c: its own task, or an admin.
May(t, op, c) == t = c \/ (t \in Admins /\ op \in AdminOps)

Begin(t) ==
    \/ \E c \in Conns, r \in Rooms : May(t, "join", c) /\ JoinCheck(t, c, r)
    \/ \E c \in Conns, r \in Rooms : May(t, "leave", c) /\ LeaveMember(t, c, r)
    \/ t \in Admins /\ "delete" \in AdminOps /\ \E r \in Rooms : DeleteTake(t, r)

Continue(t) ==
    \/ JoinCreate(t) \/ JoinInsert(t) \/ JoinIndex(t)
    \/ LeaveIndex(t) \/ LeavePrune(t)
    \/ DeleteScan(t) \/ DeleteUnindex(t)

Lifecycle(c) ==
    \/ Register(c) \/ RegisterIndex(c)
    \/ UnregisterTake(c) \/ UnregisterLeave(c)
    \/ UnregisterPrune(c) \/ UnregisterDone(c)

Next ==
    \/ \E t \in Threads : Begin(t) \/ Continue(t)
    \/ \E c \in Conns : Lifecycle(c)

Spec == Init /\ [][Next]_vars

-----------------------------------------------------------------------------
(* Properties.                                                             *)

Mapped(c, r) == rooms[r] # None /\ c \in members[rooms[r]]
Quiet == \A t \in Threads : pc[t] \in Idle

\* The pairs a broadcast would visit.
Visited == {p \in Conns \X Rooms : Mapped(p[1], p[2])}

\* The call each connection's own task is in, as module Membership sees it:
\* a join whose object has lost its entry in rooms is orphaned.
Operation(c) ==
    CASE pc[c] = "join_create" -> "joining"
      [] pc[c] = "join_insert" ->
            IF rooms[arg[c].room] = arg[c].obj THEN "joining" ELSE "orphaned"
      [] pc[c] = "join_index" -> "joined"
      [] pc[c] \in {"leave_index", "leave_prune"} -> "leaving"
      [] pc[c] \in {"unreg_leave", "unreg_prune"} -> "unregistering"
      [] OTHER -> "idle"
Doing == [c \in Conns |-> [op |-> Operation(c), room |-> arg[c].room]]

Promise == INSTANCE Membership WITH
    registered <- connections, member <- Visited, doing <- Doing

\* Members of a room that can be found are known by connection_rooms to be
\* members, once their own task is between two operations: this is what lets
\* unregister_connection find all the rooms to leave.
MemberIndexed ==
    \A c \in Conns, r \in Rooms :
        pc[c] \in Idle /\ Mapped(c, r) => c \in indexed /\ r \in index[c]

\* Empty rooms are removed: none is left once every operation has returned.
NoEmptyRoomLeak ==
    Quiet => \A r \in Rooms : rooms[r] # None => members[rooms[r]] # {}

\* The calls that may end the membership of c in r, at the step that does.
Ends(t, c, r) ==
    \/ /\ pc[t] = "idle" /\ pc'[t] = "leave_index"
       /\ arg'[t].conn = c /\ arg'[t].room = r
    \/ /\ pc[t] = "unreg_leave" /\ pc'[t] = "unreg_prune"
       /\ t = c /\ arg'[t].room = r
    \/ /\ pc[t] = "idle" /\ pc'[t] = "delete_scan"
       /\ arg'[t].room = r

\* A membership ends only by a leave_room of that connection and room, by the
\* unregistration of that connection or by delete_room; the clean-up of empty
\* rooms, by whichever call, never ends one.
OnlyLeaversLeave ==
    [][\A p \in Visited \ Visited' : \E t \in Threads : Ends(t, p[1], p[2])]_vars

\* connection_rooms keeps no entry of a connection that is not registered,
\* though join_room may still be under way when its connection unregisters.
IndexWithinConnections == indexed \subseteq connections

\* The step-by-step operations implement the promise: a membership begins
\* only by a join and ends only by a leave or an unregistration of the
\* connection itself, no clean-up ends one, and one that does cost a join
\* under way its effect (room.rs:111, room.rs:179) finds the room empty.
Membership == Promise!Spec

\* room.rs:103, "Unregister a connection and remove it from all rooms".
GoneNowhere == \A c \in Conns, r \in Rooms : pc[c] = "gone" => ~Mapped(c, r)

\* room.rs:393, "room must not be removed while a member remains": a
\* connection that connection_rooms has as a member of a room is found
\* there.
IndexedReachable ==
    Quiet => \A c \in Conns : \A r \in index[c] : Mapped(c, r)

=============================================================================
