----------------------------- MODULE RoomLocks -----------------------------
(***************************************************************************)
(* The locks the operations of the RoomManager (src/src/room.rs) hold at   *)
(* the same time: those of the maps and of the connections' state.  A      *)
(* DashMap has a lock per shard; the worst case is that all keys share     *)
(* one.  The maps' contents are module RoomManager.                        *)
(***************************************************************************)
EXTENDS Naturals, Sequences

CONSTANTS
    Tasks,  \* the tasks, one call each (a bound)
    Calls   \* the calls they may make

Locks == {"rooms", "members", "index", "connections", "state"}

\* A call is the sequence in which it takes and drops locks.
In(lock, mode, body) ==
    <<[lock |-> lock, mode |-> mode]>> \o body \o <<[lock |-> lock, mode |-> "drop"]>>
Read(lock)  == In(lock, "read", <<>>)
Write(lock) == In(lock, "write", <<>>)

\* Connection::send: is_open(), and evict() when the queue is full.
Send == Read("state") \o Write("state")

\* Leaving a room, under the guard of its entry; removing it if empty.
Leave == In("rooms", "read", Write("members"))
Prune == In("rooms", "write", Read("members"))

\* leave_room.  Mutant: the guard of the entry lives on.
LeaveHolding == In("rooms", "read", Write("members") \o Write("index") \o Prune)
LeaveRoom    == Leave \o Write("index") \o Prune

Script ==
    [register   |-> Write("connections") \o Write("index"),
     unregister |-> Write("index") \o Leave \o Prune \o Write("connections"),
     join       |-> Read("connections") \o Write("rooms") \o Write("members")
                    \o Write("index"),
     leave      |-> LeaveRoom,
     delete     |-> Write("rooms") \o Read("members") \o Write("index"),
     broadcast  |-> In("rooms", "read",
                      In("members", "read", In("connections", "read", Send))),
     all        |-> In("connections", "read", Send),
     send       |-> Read("connections") \o Send,
     \* Room::for_each_member of a Room the application holds, with a
     \* callback that creates another room.
     visit      |-> In("members", "read", Write("rooms"))]

VARIABLES
    call,   \* what each task has left to do
    held    \* the locks each task holds, with their modes

vars == <<call, held>>

Init ==
    /\ call \in [Tasks -> {Script[c] : c \in Calls}]
    /\ held = [t \in Tasks |-> {}]

Holds(t, lock, mode) == [lock |-> lock, mode |-> mode] \in held[t]

\* The lock is to be had: a writer shares it with nobody.
Free(lock, mode) == \A t \in Tasks :
    /\ ~Holds(t, lock, "write")
    /\ mode = "write" => ~Holds(t, lock, "read")

Take(t) ==
    LET step == Head(call[t]) IN
    /\ call[t] # <<>> /\ step.mode # "drop"
    /\ Free(step.lock, step.mode)
    /\ held' = [held EXCEPT ![t] = @ \cup {step}]
    /\ call' = [call EXCEPT ![t] = Tail(@)]

Drop(t) ==
    /\ call[t] # <<>> /\ Head(call[t]).mode = "drop"
    /\ held' = [held EXCEPT ![t] = {h \in @ : h.lock # Head(call[t]).lock}]
    /\ call' = [call EXCEPT ![t] = Tail(@)]

Next == \E t \in Tasks : Take(t) \/ Drop(t)

Spec == Init /\ [][Next]_vars

-----------------------------------------------------------------------------

Busy == {t \in Tasks : call[t] # <<>>}

\* A task waits for a lock that is held, or, at the locks that prefer
\* writers, for a writer that waits.
Waits(t, lock, mode) ==
    call[t] # <<>> /\ Head(call[t]) = [lock |-> lock, mode |-> mode]
Stuck(t) == \E lock \in Locks, mode \in {"read", "write"} :
    /\ Waits(t, lock, mode)
    /\ \/ ~Free(lock, mode)
       \/ mode = "read" /\ \E u \in Tasks \ {t} : Waits(u, lock, "write")

(***************************************************************************)
(* Whatever calls meet, they do not all wait for each other: broadcasts,   *)
(* which hold the guards of rooms and members while they take those of     *)
(* connections and of each state, included.  A callback of                 *)
(* for_each_member, which "may freely touch other maps" (room.rs:67),      *)
(* violates it: it creates a room while somebody leaves this one.          *)
(***************************************************************************)
NoStandstill == Busy # {} => \E t \in Busy : ~Stuck(t)

=============================================================================
