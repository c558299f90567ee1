------------------------- MODULE RoomManagerProofs -------------------------
(***************************************************************************)
(* The properties of RoomManager for any number of connections, rooms and  *)
(* admins.  Types, IndexWithinConnections, NoEmptyRoomLeak and             *)
(* OnlyLeaversLeave hold whatever the admins do; MemberIndexed and the     *)
(* promise of Membership hold when there are none.                         *)
(***************************************************************************)
EXTENDS RoomManager, TLAPS

Joining  == {"join_create", "join_insert", "join_index"}
Leaving  == {"leave_index", "leave_prune"}
Deleting == {"delete_scan", "delete_unindex"}
Ending   == {"unreg_leave", "unreg_prune"}

\* The operands a thread has, by where it stands.
ArgInv == \A t \in Threads :
    /\ pc[t] \in Joining \cup Leaving => arg[t].conn \in Conns /\ arg[t].room \in Rooms
    /\ pc[t] \in Deleting => arg[t].room \in Rooms /\ arg[t].obj \in Objs
    /\ pc[t] = "join_insert" => arg[t].obj \in Objs
    /\ pc[t] \in Ending => arg[t].todo \subseteq Rooms
    /\ pc[t] = "unreg_prune" => arg[t].room \in Rooms

\* What the maps know of a connection, by where its own task stands.
LifeInv == \A c \in Conns :
    /\ c \in indexed => c \in connections
    /\ c \in indexed => pc[c] \notin {"new", "reg_index", "gone"} \cup Ending
    /\ c \in connections => pc[c] \notin {"new", "gone"}
    /\ pc[c] \notin {"new", "gone"} => c \in connections

Base == TypeOK /\ ArgInv /\ LifeInv

PCs == Idle \cup {"reg_index"} \cup Joining \cup Leaving \cup Deleting \cup Ending

Args == [conn : Conns \cup {None}, room : Rooms \cup {None}, obj : Objs \cup {None},
         todo : SUBSET (Rooms \cup Conns), found : SUBSET Conns]

-----------------------------------------------------------------------------

\* An operation that has returned has well-typed operands.
LEMMA NoArgType == NoArg \in Args
BY DEF NoArg, Args

\* The type of pc and arg, in the terms of this module.
LEMMA ControlType == TypeOK => pc \in [Threads -> PCs] /\ arg \in [Threads -> Args]
BY DEF TypeOK, PCs, Args, Idle, Joining, Leaving, Deleting, Ending

\* A step of one thread to a known location with well-typed operands.
LEMMA StepType ==
    ASSUME TypeOK, NEW t \in Threads, NEW from, NEW p \in PCs, NEW a \in Args,
           Step(t, from, p, a)
    PROVE  /\ pc' \in [Threads -> PCs] /\ arg' \in [Threads -> Args]
           /\ pc[t] = from /\ pc'[t] = p /\ arg'[t] = a
           /\ \A u \in Threads \ {t} : pc'[u] = pc[u] /\ arg'[u] = arg[u]
BY ControlType DEF Step

\* What is left of TypeOK when pc and arg are known to be well typed.
LEMMA TypeFromMaps ==
    ASSUME pc' \in [Threads -> PCs], arg' \in [Threads -> Args],
           rooms' \in [Rooms -> Objs \cup {None}],
           members' \in [Objs -> SUBSET Conns],
           indexed' \subseteq Conns,
           index' \in [Conns -> SUBSET Rooms],
           \A c \in Conns \ indexed' : index'[c] = {},
           connections' \subseteq Conns
    PROVE  TypeOK'
BY DEF TypeOK, PCs, Args, Idle, Joining, Leaving, Deleting, Ending

-----------------------------------------------------------------------------
(* Each operation preserves Base.                                          *)

\* register_connection preserves Base.
LEMMA RegisterBase ==
    ASSUME Base, NEW c \in Conns, Register(c) \/ RegisterIndex(c)
    PROVE  Base'
<1> USE DEF Base
<1>0. c \in Threads /\ "reg_index" \in PCs /\ "idle" \in PCs
  BY DEF Threads, PCs, Idle
<1>1. CASE Register(c)
  <2>1. Step(c, "new", "reg_index", NoArg)
    BY <1>1 DEF Register
  <2>2. /\ pc' \in [Threads -> PCs] /\ arg' \in [Threads -> Args]
        /\ pc[c] = "new" /\ pc'[c] = "reg_index" /\ arg'[c] = NoArg
        /\ \A u \in Threads \ {c} : pc'[u] = pc[u] /\ arg'[u] = arg[u]
    BY <1>0, <2>1, StepType, NoArgType
  <2>3. TypeOK'
    BY <1>1, <2>2, TypeFromMaps DEF Register, TypeOK
  <2>4. ArgInv'
    BY <1>1, <2>2 DEF Register, ArgInv, Joining, Leaving, Deleting, Ending
  <2>5. LifeInv'
    BY <1>1, <2>2 DEF Register, LifeInv, Threads, Ending
  <2> QED
    BY <2>3, <2>4, <2>5
<1>2. CASE RegisterIndex(c)
  <2>1. Step(c, "reg_index", "idle", NoArg)
    BY <1>2 DEF RegisterIndex, Return
  <2>2. /\ pc' \in [Threads -> PCs] /\ arg' \in [Threads -> Args]
        /\ pc[c] = "reg_index" /\ pc'[c] = "idle" /\ arg'[c] = NoArg
        /\ \A u \in Threads \ {c} : pc'[u] = pc[u] /\ arg'[u] = arg[u]
    BY <1>0, <2>1, StepType, NoArgType
  <2>3. TypeOK'
    BY <1>2, <2>2, TypeFromMaps DEF RegisterIndex, TypeOK
  <2>4. ArgInv'
    BY <1>2, <2>2 DEF RegisterIndex, ArgInv, Joining, Leaving, Deleting, Ending
  <2>5. LifeInv'
    BY <1>2, <2>2 DEF RegisterIndex, LifeInv, Threads, Ending
  <2> QED
    BY <2>3, <2>4, <2>5
<1> QED
  BY <1>1, <1>2

\* Between registration and unregistration a step does not touch LifeInv.
LEMMA OpLife ==
    ASSUME LifeInv, NEW t \in Threads,
           {pc[t], pc'[t]} \subseteq {"idle"} \cup Joining \cup Leaving \cup Deleting,
           \A u \in Threads \ {t} : pc'[u] = pc[u],
           UNCHANGED <<indexed, connections>>
    PROVE  LifeInv'
BY DEF LifeInv, Threads, Joining, Leaving, Deleting, Ending

\* join_room preserves Base.
LEMMA JoinBase ==
    ASSUME Base, NEW t \in Threads,
           \/ \E c \in Conns, r \in Rooms : JoinCheck(t, c, r)
           \/ JoinCreate(t) \/ JoinInsert(t) \/ JoinIndex(t)
    PROVE  Base'
<1> USE DEF Base
<1>0. Joining \subseteq PCs /\ "idle" \in PCs
  BY DEF PCs, Idle
<1>1. ASSUME NEW c \in Conns, NEW r \in Rooms, JoinCheck(t, c, r)
      PROVE  Base'
  <2> DEFINE a == [NoArg EXCEPT !.conn = c, !.room = r]
  <2>1. a \in Args /\ a.conn = c /\ a.room = r /\ "join_create" \in PCs
    BY <1>0 DEF NoArg, Args, Joining
  <2>2. Step(t, "idle", "join_create", a)
    BY <1>1 DEF JoinCheck
  <2> HIDE DEF a
  <2>3. /\ pc' \in [Threads -> PCs] /\ arg' \in [Threads -> Args]
        /\ pc[t] = "idle" /\ pc'[t] = "join_create" /\ arg'[t] = a
        /\ \A u \in Threads \ {t} : pc'[u] = pc[u] /\ arg'[u] = arg[u]
    BY <2>1, <2>2, StepType
  <2>4. UNCHANGED maps
    BY <1>1 DEF JoinCheck
  <2>5. TypeOK'
    BY <2>3, <2>4, TypeFromMaps DEF maps, TypeOK
  <2>6. ArgInv'
    BY <2>1, <2>3, <2>4 DEF maps, ArgInv, Joining, Leaving, Deleting, Ending
  <2>7. LifeInv'
    BY <2>3, <2>4, OpLife DEF maps, Joining
  <2> QED
    BY <2>5, <2>6, <2>7
<1>2. CASE JoinCreate(t)
  <2>1. PICK o \in Objs : Step(t, "join_create", "join_insert", [arg[t] EXCEPT !.obj = o])
                          /\ \/ UNCHANGED <<rooms, members>>
                             \/ /\ rooms' = [rooms EXCEPT ![arg[t].room] = o]
                                /\ members' = [members EXCEPT ![o] = {}]
    BY <1>2 DEF JoinCreate
  <2> DEFINE a == [arg[t] EXCEPT !.obj = o]
  <2>2. /\ a \in Args /\ a.conn = arg[t].conn /\ a.room = arg[t].room /\ a.obj = o
        /\ "join_insert" \in PCs
    BY <1>0, ControlType DEF Args, Joining
  <2>3. Step(t, "join_create", "join_insert", a)
    BY <2>1
  <2> HIDE DEF a
  <2>4. /\ pc' \in [Threads -> PCs] /\ arg' \in [Threads -> Args]
        /\ pc[t] = "join_create" /\ pc'[t] = "join_insert" /\ arg'[t] = a
        /\ \A u \in Threads \ {t} : pc'[u] = pc[u] /\ arg'[u] = arg[u]
    BY <2>2, <2>3, StepType
  <2>5. UNCHANGED <<indexed, index, connections>>
    BY <1>2 DEF JoinCreate
  <2>6. rooms' \in [Rooms -> Objs \cup {None}] /\ members' \in [Objs -> SUBSET Conns]
    <3>1. CASE UNCHANGED <<rooms, members>>
      BY <3>1 DEF TypeOK
    <3>2. CASE /\ rooms' = [rooms EXCEPT ![arg[t].room] = o]
               /\ members' = [members EXCEPT ![o] = {}]
      BY <3>2 DEF TypeOK
    <3> QED
      BY <2>1, <3>1, <3>2
  <2>7. TypeOK'
    BY <2>4, <2>5, <2>6, TypeFromMaps DEF TypeOK
  <2>8. ArgInv'
    BY <2>2, <2>4 DEF ArgInv, Joining, Leaving, Deleting, Ending
  <2>9. LifeInv'
    BY <2>4, <2>5, OpLife DEF Joining
  <2> QED
    BY <2>7, <2>8, <2>9
<1>3. CASE JoinInsert(t)
  <2>1. Step(t, "join_insert", "join_index", arg[t]) /\ arg[t] \in Args
        /\ "join_index" \in PCs
    BY <1>0, <1>3, ControlType DEF JoinInsert, Joining
  <2>2. /\ pc' \in [Threads -> PCs] /\ arg' \in [Threads -> Args]
        /\ pc[t] = "join_insert" /\ pc'[t] = "join_index" /\ arg'[t] = arg[t]
        /\ \A u \in Threads \ {t} : pc'[u] = pc[u] /\ arg'[u] = arg[u]
    BY <2>1, StepType
  <2>3. arg[t].conn \in Conns /\ arg[t].room \in Rooms /\ arg[t].obj \in Objs
    BY <2>2 DEF ArgInv, Joining
  <2>4. members' \in [Objs -> SUBSET Conns]
    BY <1>3, <2>3 DEF JoinInsert, TypeOK
  <2>5. UNCHANGED <<rooms, indexed, index, connections>>
    BY <1>3 DEF JoinInsert
  <2>6. TypeOK'
    BY <2>2, <2>4, <2>5, TypeFromMaps DEF TypeOK
  <2>7. ArgInv'
    BY <2>2, <2>3 DEF ArgInv, Joining, Leaving, Deleting, Ending
  <2>8. LifeInv'
    BY <2>2, <2>5, OpLife DEF Joining
  <2> QED
    BY <2>6, <2>7, <2>8
<1>4. CASE JoinIndex(t)
  <2>1. Step(t, "join_index", "idle", NoArg)
    BY <1>4 DEF JoinIndex, Return
  <2>2. /\ pc' \in [Threads -> PCs] /\ arg' \in [Threads -> Args]
        /\ pc[t] = "join_index" /\ pc'[t] = "idle" /\ arg'[t] = NoArg
        /\ \A u \in Threads \ {t} : pc'[u] = pc[u] /\ arg'[u] = arg[u]
    BY <1>0, <2>1, StepType, NoArgType
  <2>3. arg[t].conn \in Conns /\ arg[t].room \in Rooms
    BY <2>2 DEF ArgInv, Joining
  <2>4. /\ index' \in [Conns -> SUBSET Rooms]
        /\ \A c \in Conns \ indexed : index'[c] = {}
    BY <1>4, <2>3 DEF JoinIndex, Record, TypeOK
  <2>5. UNCHANGED <<rooms, members, indexed, connections>>
    BY <1>4 DEF JoinIndex
  <2>6. TypeOK'
    BY <2>2, <2>4, <2>5, TypeFromMaps DEF TypeOK
  <2>7. ArgInv'
    BY <2>2 DEF ArgInv, Joining, Leaving, Deleting, Ending
  <2>8. LifeInv'
    BY <2>2, <2>5, OpLife DEF Joining
  <2> QED
    BY <2>6, <2>7, <2>8
<1> QED
  BY <1>1, <1>2, <1>3, <1>4

\* leave_room preserves Base.
LEMMA LeaveBase ==
    ASSUME Base, NEW t \in Threads,
           \/ \E c \in Conns, r \in Rooms : LeaveMember(t, c, r)
           \/ LeaveIndex(t) \/ LeavePrune(t)
    PROVE  Base'
<1> USE DEF Base
<1>0. Leaving \subseteq PCs /\ "idle" \in PCs
  BY DEF PCs, Idle
<1>1. ASSUME NEW c \in Conns, NEW r \in Rooms, LeaveMember(t, c, r)
      PROVE  Base'
  <2> DEFINE a == [NoArg EXCEPT !.conn = c, !.room = r]
  <2>1. a \in Args /\ a.conn = c /\ a.room = r /\ "leave_index" \in PCs
    BY <1>0 DEF NoArg, Args, Leaving
  <2>2. Step(t, "idle", "leave_index", a)
    BY <1>1 DEF LeaveMember
  <2> HIDE DEF a
  <2>3. /\ pc' \in [Threads -> PCs] /\ arg' \in [Threads -> Args]
        /\ pc[t] = "idle" /\ pc'[t] = "leave_index" /\ arg'[t] = a
        /\ \A u \in Threads \ {t} : pc'[u] = pc[u] /\ arg'[u] = arg[u]
    BY <2>1, <2>2, StepType
  <2>4. UNCHANGED <<rooms, indexed, index, connections>>
        /\ members' \in [Objs -> SUBSET Conns]
    BY <1>1 DEF LeaveMember, LeaveMembers, TypeOK
  <2>5. TypeOK'
    BY <2>3, <2>4, TypeFromMaps DEF TypeOK
  <2>6. ArgInv'
    BY <2>1, <2>3, <2>4 DEF ArgInv, Joining, Leaving, Deleting, Ending
  <2>7. LifeInv'
    BY <2>3, <2>4, OpLife DEF Leaving
  <2> QED
    BY <2>5, <2>6, <2>7
<1>2. CASE LeaveIndex(t)
  <2>1. Step(t, "leave_index", "leave_prune", arg[t]) /\ arg[t] \in Args
        /\ "leave_prune" \in PCs
    BY <1>0, <1>2, ControlType DEF LeaveIndex, Leaving
  <2>2. /\ pc' \in [Threads -> PCs] /\ arg' \in [Threads -> Args]
        /\ pc[t] = "leave_index" /\ pc'[t] = "leave_prune" /\ arg'[t] = arg[t]
        /\ \A u \in Threads \ {t} : pc'[u] = pc[u] /\ arg'[u] = arg[u]
    BY <2>1, StepType
  <2>3. /\ UNCHANGED <<rooms, members, indexed, connections>>
        /\ index' \in [Conns -> SUBSET Rooms]
        /\ \A c \in Conns \ indexed : index'[c] = {}
    BY <1>2 DEF LeaveIndex, TypeOK
  <2>4. TypeOK'
    BY <2>2, <2>3, TypeFromMaps DEF TypeOK
  <2>5. ArgInv'
    BY <2>2 DEF ArgInv, Joining, Leaving, Deleting, Ending
  <2>6. LifeInv'
    BY <2>2, <2>3, OpLife DEF Leaving
  <2> QED
    BY <2>4, <2>5, <2>6
<1>3. CASE LeavePrune(t)
  <2>1. Step(t, "leave_prune", "idle", NoArg)
    BY <1>3 DEF LeavePrune, Return
  <2>2. /\ pc' \in [Threads -> PCs] /\ arg' \in [Threads -> Args]
        /\ pc[t] = "leave_prune" /\ pc'[t] = "idle" /\ arg'[t] = NoArg
        /\ \A u \in Threads \ {t} : pc'[u] = pc[u] /\ arg'[u] = arg[u]
    BY <1>0, <2>1, StepType, NoArgType
  <2>3. /\ UNCHANGED <<members, indexed, index, connections>>
        /\ rooms' \in [Rooms -> Objs \cup {None}]
    BY <1>3 DEF LeavePrune, RemoveIfEmpty, TypeOK
  <2>4. TypeOK'
    BY <2>2, <2>3, TypeFromMaps DEF TypeOK
  <2>5. ArgInv'
    BY <2>2 DEF ArgInv, Joining, Leaving, Deleting, Ending
  <2>6. LifeInv'
    BY <2>2, <2>3, OpLife DEF Leaving
  <2> QED
    BY <2>4, <2>5, <2>6
<1> QED
  BY <1>1, <1>2, <1>3

\* delete_room preserves Base.
LEMMA DeleteBase ==
    ASSUME Base, NEW t \in Threads,
           \/ \E r \in Rooms : DeleteTake(t, r)
           \/ DeleteScan(t) \/ DeleteUnindex(t)
    PROVE  Base'
<1> USE DEF Base
<1>0. Deleting \subseteq PCs /\ "idle" \in PCs
  BY DEF PCs, Idle
<1>1. ASSUME NEW r \in Rooms, DeleteTake(t, r)
      PROVE  Base'
  <2> DEFINE a == [NoArg EXCEPT !.room = r, !.obj = rooms[r], !.todo = Conns]
  <2>1. rooms[r] \in Objs
    BY <1>1 DEF DeleteTake, TypeOK
  <2>2. a \in Args /\ a.room = r /\ a.obj \in Objs /\ "delete_scan" \in PCs
    BY <1>0, <2>1 DEF NoArg, Args, Deleting
  <2>3. Step(t, "idle", "delete_scan", a)
    BY <1>1 DEF DeleteTake
  <2> HIDE DEF a
  <2>4. /\ pc' \in [Threads -> PCs] /\ arg' \in [Threads -> Args]
        /\ pc[t] = "idle" /\ pc'[t] = "delete_scan" /\ arg'[t] = a
        /\ \A u \in Threads \ {t} : pc'[u] = pc[u] /\ arg'[u] = arg[u]
    BY <2>2, <2>3, StepType
  <2>5. /\ UNCHANGED <<members, indexed, index, connections>>
        /\ rooms' \in [Rooms -> Objs \cup {None}]
    BY <1>1 DEF DeleteTake, TypeOK
  <2>6. TypeOK'
    BY <2>4, <2>5, TypeFromMaps DEF TypeOK
  <2>7. ArgInv'
    BY <2>2, <2>4 DEF ArgInv, Joining, Leaving, Deleting, Ending
  <2>8. LifeInv'
    BY <2>4, <2>5, OpLife DEF Deleting
  <2> QED
    BY <2>6, <2>7, <2>8
<1>2. CASE DeleteScan(t)
  <2>1. PICK c \in arg[t].todo :
          Step(t, "delete_scan",
               IF arg[t].todo = {c} THEN "delete_unindex" ELSE "delete_scan",
               [arg[t] EXCEPT !.todo = @ \ {c},
                              !.found = IF c \in members[arg[t].obj]
                                        THEN @ \cup {c} ELSE @])
    BY <1>2 DEF DeleteScan
  <2> DEFINE p == IF arg[t].todo = {c} THEN "delete_unindex" ELSE "delete_scan"
             a == [arg[t] EXCEPT !.todo = @ \ {c},
                                 !.found = IF c \in members[arg[t].obj]
                                           THEN @ \cup {c} ELSE @]
  <2>2. pc[t] = "delete_scan" /\ arg[t] \in Args /\ arg[t].obj \in Objs
    BY <2>1, ControlType DEF Step, ArgInv, Deleting
  <2>3. members[arg[t].obj] \subseteq Conns
    BY <2>2 DEF TypeOK
  <2>4. /\ a \in Args /\ a.room = arg[t].room /\ a.obj = arg[t].obj
        /\ p \in Deleting /\ p \in PCs
    BY <1>0, <2>2, <2>3 DEF Args, Deleting
  <2>5. Step(t, "delete_scan", p, a)
    BY <2>1
  <2> HIDE DEF a, p
  <2>6. /\ pc' \in [Threads -> PCs] /\ arg' \in [Threads -> Args]
        /\ pc'[t] = p /\ arg'[t] = a
        /\ \A u \in Threads \ {t} : pc'[u] = pc[u] /\ arg'[u] = arg[u]
    BY <2>2, <2>4, <2>5, ControlType DEF Step
  <2>7. UNCHANGED maps
    BY <1>2 DEF DeleteScan
  <2>8. TypeOK'
    BY <2>6, <2>7, TypeFromMaps DEF maps, TypeOK
  <2>9. ArgInv'
    BY <2>2, <2>4, <2>6, <2>7 DEF ArgInv, Joining, Leaving, Deleting, Ending
  <2>10. LifeInv'
    BY <2>2, <2>4, <2>6, <2>7, OpLife DEF maps, Deleting
  <2> QED
    BY <2>8, <2>9, <2>10
<1>3. ASSUME NEW c \in arg[t].found,
             Step(t, "delete_unindex", "delete_unindex", [arg[t] EXCEPT !.found = @ \ {c}]),
             index' = [index EXCEPT ![c] = @ \ {arg[t].room}],
             UNCHANGED <<rooms, members, indexed, connections>>
      PROVE  Base'
  <2> DEFINE a == [arg[t] EXCEPT !.found = @ \ {c}]
  <2>1. arg[t] \in Args /\ pc[t] = "delete_unindex"
    BY <1>3, ControlType DEF Step
  <2>2. a \in Args /\ a.room = arg[t].room /\ a.obj = arg[t].obj
        /\ "delete_unindex" \in PCs
    BY <1>0, <2>1 DEF Args, Deleting
  <2>3. Step(t, "delete_unindex", "delete_unindex", a)
    BY <1>3
  <2> HIDE DEF a
  <2>4. /\ pc' \in [Threads -> PCs] /\ arg' \in [Threads -> Args]
        /\ pc'[t] = "delete_unindex" /\ arg'[t] = a
        /\ \A u \in Threads \ {t} : pc'[u] = pc[u] /\ arg'[u] = arg[u]
    BY <2>1, <2>2, <2>3, ControlType DEF Step
  <2>5. /\ index' \in [Conns -> SUBSET Rooms]
        /\ \A d \in Conns \ indexed : index'[d] = {}
    BY <1>3 DEF TypeOK
  <2>6. TypeOK'
    BY <1>3, <2>4, <2>5, TypeFromMaps DEF TypeOK
  <2>7. ArgInv'
    BY <2>1, <2>2, <2>4 DEF ArgInv, Joining, Leaving, Deleting, Ending
  <2>8. LifeInv'
    BY <1>3, <2>1, <2>4, OpLife DEF Deleting
  <2> QED
    BY <2>6, <2>7, <2>8
<1>4. CASE Return(t, "delete_unindex") /\ UNCHANGED maps
  <2>1. /\ pc' \in [Threads -> PCs] /\ arg' \in [Threads -> Args]
        /\ pc[t] = "delete_unindex" /\ pc'[t] = "idle" /\ arg'[t] = NoArg
        /\ \A u \in Threads \ {t} : pc'[u] = pc[u] /\ arg'[u] = arg[u]
    BY <1>0, <1>4, StepType, NoArgType DEF Return
  <2>2. TypeOK'
    BY <1>4, <2>1, TypeFromMaps DEF maps, TypeOK
  <2>3. ArgInv'
    BY <2>1 DEF ArgInv, Joining, Leaving, Deleting, Ending
  <2>4. LifeInv'
    BY <1>4, <2>1, OpLife DEF maps, Deleting
  <2> QED
    BY <2>2, <2>3, <2>4
<1> QED
  BY <1>1, <1>2, <1>3, <1>4 DEF DeleteUnindex

\* unregister_connection preserves Base.
LEMMA UnregisterBase ==
    ASSUME Base, NEW c \in Conns,
           \/ UnregisterTake(c) \/ UnregisterLeave(c)
           \/ UnregisterPrune(c) \/ UnregisterDone(c)
    PROVE  Base'
<1> USE DEF Base
<1>0. c \in Threads /\ Ending \subseteq PCs /\ "gone" \in PCs
  BY DEF Threads, PCs, Idle
<1>1. CASE UnregisterTake(c)
  <2> DEFINE a == [NoArg EXCEPT !.conn = c, !.todo = index[c]]
  <2>1. a \in Args /\ a.todo \subseteq Rooms /\ "unreg_leave" \in PCs
    BY <1>0 DEF NoArg, Args, Ending, TypeOK
  <2>2. Step(c, "idle", "unreg_leave", a)
    BY <1>1 DEF UnregisterTake
  <2> HIDE DEF a
  <2>3. /\ pc' \in [Threads -> PCs] /\ arg' \in [Threads -> Args]
        /\ pc[c] = "idle" /\ pc'[c] = "unreg_leave" /\ arg'[c] = a
        /\ \A u \in Threads \ {c} : pc'[u] = pc[u] /\ arg'[u] = arg[u]
    BY <1>0, <2>1, <2>2, StepType
  <2>4. /\ UNCHANGED <<rooms, members, connections>>
        /\ indexed' = indexed \ {c}
        /\ index' \in [Conns -> SUBSET Rooms]
        /\ \A d \in Conns \ indexed' : index'[d] = {}
    BY <1>1 DEF UnregisterTake, TypeOK
  <2>5. TypeOK'
    BY <2>3, <2>4, TypeFromMaps DEF TypeOK
  <2>6. ArgInv'
    BY <2>1, <2>3 DEF ArgInv, Joining, Leaving, Deleting, Ending
  <2>7. LifeInv'
    BY <2>3, <2>4 DEF LifeInv, Threads, Ending
  <2> QED
    BY <2>5, <2>6, <2>7
<1>2. CASE UnregisterLeave(c)
  <2>1. PICK r \in arg[c].todo :
          /\ Step(c, "unreg_leave", "unreg_prune",
                  [arg[c] EXCEPT !.room = r, !.todo = @ \ {r}])
          /\ LeaveMembers(c, r)
    BY <1>2 DEF UnregisterLeave
  <2> DEFINE a == [arg[c] EXCEPT !.room = r, !.todo = @ \ {r}]
  <2>2. pc[c] = "unreg_leave" /\ arg[c] \in Args /\ arg[c].todo \subseteq Rooms
    BY <1>0, <2>1, ControlType DEF Step, ArgInv, Ending
  <2>3. a \in Args /\ a.room \in Rooms /\ a.todo \subseteq Rooms /\ "unreg_prune" \in PCs
    BY <1>0, <2>2 DEF Args, Ending
  <2>4. Step(c, "unreg_leave", "unreg_prune", a)
    BY <2>1
  <2> HIDE DEF a
  <2>5. /\ pc' \in [Threads -> PCs] /\ arg' \in [Threads -> Args]
        /\ pc'[c] = "unreg_prune" /\ arg'[c] = a
        /\ \A u \in Threads \ {c} : pc'[u] = pc[u] /\ arg'[u] = arg[u]
    BY <1>0, <2>3, <2>4, StepType
  <2>6. /\ UNCHANGED <<rooms, indexed, index, connections>>
        /\ members' \in [Objs -> SUBSET Conns]
    BY <1>2, <2>1 DEF UnregisterLeave, LeaveMembers, TypeOK
  <2>7. TypeOK'
    BY <2>5, <2>6, TypeFromMaps DEF TypeOK
  <2>8. ArgInv'
    BY <2>3, <2>5 DEF ArgInv, Joining, Leaving, Deleting, Ending
  <2>9. LifeInv'
    BY <2>2, <2>5, <2>6 DEF LifeInv, Threads, Ending
  <2> QED
    BY <2>7, <2>8, <2>9
<1>3. CASE UnregisterPrune(c)
  <2> DEFINE a == [arg[c] EXCEPT !.room = None]
  <2>1. pc[c] = "unreg_prune" /\ arg[c] \in Args /\ arg[c].todo \subseteq Rooms
    BY <1>0, <1>3, ControlType DEF UnregisterPrune, Step, ArgInv, Ending
  <2>2. a \in Args /\ a.todo \subseteq Rooms /\ "unreg_leave" \in PCs
    BY <1>0, <2>1 DEF Args, Ending
  <2>3. Step(c, "unreg_prune", "unreg_leave", a)
    BY <1>3 DEF UnregisterPrune
  <2> HIDE DEF a
  <2>4. /\ pc' \in [Threads -> PCs] /\ arg' \in [Threads -> Args]
        /\ pc'[c] = "unreg_leave" /\ arg'[c] = a
        /\ \A u \in Threads \ {c} : pc'[u] = pc[u] /\ arg'[u] = arg[u]
    BY <1>0, <2>2, <2>3, StepType
  <2>5. /\ UNCHANGED <<members, indexed, index, connections>>
        /\ rooms' \in [Rooms -> Objs \cup {None}]
    BY <1>3 DEF UnregisterPrune, RemoveIfEmpty, TypeOK
  <2>6. TypeOK'
    BY <2>4, <2>5, TypeFromMaps DEF TypeOK
  <2>7. ArgInv'
    BY <2>2, <2>4 DEF ArgInv, Joining, Leaving, Deleting, Ending
  <2>8. LifeInv'
    BY <2>1, <2>4, <2>5 DEF LifeInv, Threads, Ending
  <2> QED
    BY <2>6, <2>7, <2>8
<1>4. CASE UnregisterDone(c)
  <2>1. Step(c, "unreg_leave", "gone", NoArg)
    BY <1>4 DEF UnregisterDone
  <2>2. /\ pc' \in [Threads -> PCs] /\ arg' \in [Threads -> Args]
        /\ pc[c] = "unreg_leave" /\ pc'[c] = "gone" /\ arg'[c] = NoArg
        /\ \A u \in Threads \ {c} : pc'[u] = pc[u] /\ arg'[u] = arg[u]
    BY <1>0, <2>1, StepType, NoArgType
  <2>3. /\ UNCHANGED <<rooms, members, indexed, index>>
        /\ connections' = connections \ {c}
    BY <1>4 DEF UnregisterDone
  <2>4. TypeOK'
    BY <2>2, <2>3, TypeFromMaps DEF TypeOK
  <2>5. ArgInv'
    BY <2>2 DEF ArgInv, Joining, Leaving, Deleting, Ending
  <2>6. LifeInv'
    BY <2>2, <2>3 DEF LifeInv, Threads, Ending
  <2> QED
    BY <2>4, <2>5, <2>6
<1> QED
  BY <1>1, <1>2, <1>3, <1>4

-----------------------------------------------------------------------------
(* Base is an invariant.                                                   *)

\* Initially nothing is registered and no room exists.
LEMMA BaseInit == Init => Base
<1> SUFFICES ASSUME Init
             PROVE  Base
  OBVIOUS
<1>1. pc \in [Threads -> PCs] /\ \A t \in Threads : pc[t] \in {"new", "idle"}
  BY DEF Init, PCs, Idle
<1>2. arg \in [Threads -> Args]
  BY NoArgType DEF Init
<1>3. TypeOK
  BY <1>1, <1>2 DEF Init, TypeOK, PCs, Args, Idle, Joining, Leaving, Deleting, Ending
<1>4. ArgInv
  BY <1>1 DEF ArgInv, Joining, Leaving, Deleting, Ending
<1>5. LifeInv
  BY DEF Init, LifeInv, Threads, Ending
<1> QED
  BY <1>3, <1>4, <1>5 DEF Base

\* Every step preserves Base.
LEMMA BaseStep ==
    ASSUME Base, [Next]_vars
    PROVE  Base'
<1>1. ASSUME NEW t \in Threads, Begin(t)
      PROVE  Base'
  BY <1>1, JoinBase, LeaveBase, DeleteBase DEF Begin
<1>2. ASSUME NEW t \in Threads, Continue(t)
      PROVE  Base'
  BY <1>2, JoinBase, LeaveBase, DeleteBase DEF Continue
<1>3. ASSUME NEW c \in Conns, Lifecycle(c)
      PROVE  Base'
  BY <1>3, RegisterBase, UnregisterBase DEF Lifecycle
<1>4. CASE UNCHANGED vars
  BY <1>4 DEF vars, maps, Base, TypeOK, ArgInv, LifeInv
<1> QED
  BY <1>1, <1>2, <1>3, <1>4 DEF Next

\* Base holds throughout.
THEOREM BaseCorrect == Spec => []Base
<1>1. Base /\ [Next]_vars => Base'
  BY BaseStep
<1> QED
  BY BaseInit, <1>1, PTL DEF Spec

\* Type correctness, whatever the admins do.
THEOREM TypeCorrect == Spec => []TypeOK
<1>1. Base => TypeOK
  BY DEF Base
<1> QED
  BY BaseCorrect, <1>1, PTL

\* connection_rooms never has an entry of a connection that is not registered,
\* whatever the admins do.
THEOREM IndexCorrect == Spec => []IndexWithinConnections
<1>1. Base => IndexWithinConnections
  BY DEF Base, TypeOK, LifeInv, IndexWithinConnections
<1> QED
  BY BaseCorrect, <1>1, PTL

-----------------------------------------------------------------------------
(* Without admins: every operation on a connection is its own task's.      *)

\* Each task works on its own connection, which is indexed all the while.
OwnInv == \A c \in Conns :
    /\ pc[c] \in Joining \cup Leaving => arg[c].conn = c
    /\ pc[c] \in {"idle"} \cup Joining \cup Leaving => c \in indexed
    /\ pc[c] \notin Deleting
    /\ pc[c] \notin Joining \cup Leaving \cup {"unreg_prune"} => arg[c].room = None

\* An object is the room of one room id, which a joining task knows.
ObjInv ==
    /\ \A r, s \in Rooms : rooms[r] = rooms[s] /\ rooms[r] # None => r = s
    /\ \A c \in Conns, r \in Rooms :
         pc[c] = "join_insert" /\ rooms[r] = arg[c].obj => r = arg[c].room

\* Why the connection's own task will still find that it is in the room.
Known(c, r) ==
    \/ r \in index[c]
    \/ pc[c] = "join_index" /\ arg[c].room = r
    \/ pc[c] \in Ending /\ r \in arg[c].todo

MemberInv == \A c \in Conns, r \in Rooms :
    /\ Mapped(c, r) => Known(c, r)
    /\ pc[c] = "leave_index" /\ arg[c].room = r => ~Mapped(c, r)

Own == Base /\ OwnInv /\ ObjInv /\ MemberInv

\* What a step does to the memberships, seen from outside.
Silent    == Visited' = Visited /\ connections' = connections
Joins(c, r) == c \in connections /\ Visited' = Visited \cup {<<c, r>>}
               /\ connections' = connections
Leaves(c, r) == Visited' = Visited \ {<<c, r>>} /\ connections' = connections

\* A clean-up of an empty room ends nobody's membership.
LEMMA PruneSilent ==
    ASSUME TypeOK, NEW r \in Rooms, RemoveIfEmpty(r), UNCHANGED members
    PROVE  /\ \A c \in Conns, s \in Rooms : Mapped(c, s)' <=> Mapped(c, s)
           /\ \A s \in Rooms : rooms'[s] \in {rooms[s], None}
BY DEF RemoveIfEmpty, Mapped, TypeOK

\* Leaving ends one membership and no other, as objects are not shared.
LEMMA LeaveMapped ==
    ASSUME TypeOK, ObjInv, NEW c \in Conns, NEW r \in Rooms,
           LeaveMembers(c, r), UNCHANGED rooms
    PROVE  \A d \in Conns, s \in Rooms :
             Mapped(d, s)' <=> Mapped(d, s) /\ ~(d = c /\ s = r)
BY NoneAssumption DEF LeaveMembers, Mapped, TypeOK, ObjInv

\* Visited changes as Mapped does.
LEMMA SilentVisited ==
    ASSUME \A c \in Conns, s \in Rooms : Mapped(c, s)' <=> Mapped(c, s)
    PROVE  Visited' = Visited
BY DEF Visited

\* The same for a step that ends one membership.
LEMMA LeaveVisited ==
    ASSUME NEW c \in Conns, NEW r \in Rooms,
           \A d \in Conns, s \in Rooms :
             Mapped(d, s)' <=> Mapped(d, s) /\ ~(d = c /\ s = r)
    PROVE  Visited' = Visited \ {<<c, r>>}
BY DEF Visited

\* The same for a step that begins one.
LEMMA JoinVisited ==
    ASSUME NEW c \in Conns, NEW r \in Rooms,
           \A d \in Conns, s \in Rooms :
             Mapped(d, s)' <=> Mapped(d, s) \/ (d = c /\ s = r)
    PROVE  Visited' = Visited \cup {<<c, r>>}
BY DEF Visited

\* A step of one connection's task changes nobody else's pc and arg.
LEMMA OwnStep ==
    ASSUME Base, NEW c \in Conns, NEW from, NEW p, NEW a, Step(c, from, p, a)
    PROVE  /\ pc[c] = from /\ pc'[c] = p /\ arg'[c] = a
           /\ \A d \in Conns \ {c} : pc'[d] = pc[d] /\ arg'[d] = arg[d]
BY ControlType DEF Base, Step, Threads

\* register_connection is silent, but for the registration itself.
LEMMA RegisterOwn ==
    ASSUME Own, NEW c \in Conns, Register(c) \/ RegisterIndex(c)
    PROVE  /\ OwnInv' /\ ObjInv' /\ MemberInv'
           /\ Visited' = Visited /\ connections' = connections \cup {c}
<1> USE DEF Own, Joining, Leaving, Deleting, Ending
<1>1. CASE Register(c)
  <2>1. /\ pc[c] = "new" /\ pc'[c] = "reg_index" /\ arg'[c] = NoArg
        /\ \A d \in Conns \ {c} : pc'[d] = pc[d] /\ arg'[d] = arg[d]
    BY <1>1, OwnStep DEF Register
  <2>2. UNCHANGED <<rooms, members, indexed, index>> /\ connections' = connections \cup {c}
    BY <1>1 DEF Register
  <2>3. \A d \in Conns, s \in Rooms : Mapped(d, s)' <=> Mapped(d, s)
    BY <2>2 DEF Mapped
  <2>4. OwnInv' /\ ObjInv'
    BY <2>1, <2>2 DEF OwnInv, ObjInv, NoArg
  <2>5. MemberInv'
    BY <2>1, <2>2, <2>3 DEF MemberInv, Known
  <2> QED
    BY <2>2, <2>3, <2>4, <2>5, SilentVisited
<1>2. CASE RegisterIndex(c)
  <2>1. /\ pc[c] = "reg_index" /\ pc'[c] = "idle" /\ arg'[c] = NoArg
        /\ \A d \in Conns \ {c} : pc'[d] = pc[d] /\ arg'[d] = arg[d]
    BY <1>2, OwnStep DEF RegisterIndex, Return
  <2>2. c \in connections /\ c \notin indexed /\ index[c] = {}
    BY <2>1 DEF Base, LifeInv, TypeOK
  <2>3. /\ UNCHANGED <<rooms, members, connections>>
        /\ indexed' = indexed \cup {c} /\ index' = index
    BY <1>2, <2>2 DEF RegisterIndex, Base, TypeOK
  <2>4. \A d \in Conns, s \in Rooms : Mapped(d, s)' <=> Mapped(d, s)
    BY <2>3 DEF Mapped
  <2>5. OwnInv' /\ ObjInv'
    BY <2>1, <2>3 DEF OwnInv, ObjInv, NoArg
  <2>6. MemberInv'
    BY <2>1, <2>3, <2>4 DEF MemberInv, Known
  <2> QED
    BY <2>2, <2>3, <2>4, <2>5, <2>6, SilentVisited
<1> QED
  BY <1>1, <1>2

\* join_room begins: silent.
LEMMA JoinCheckOwn ==
    ASSUME Own, NEW c \in Conns, NEW r \in Rooms, JoinCheck(c, c, r)
    PROVE  OwnInv' /\ ObjInv' /\ MemberInv' /\ Silent
<1> USE DEF Own, Joining, Leaving, Deleting, Ending
<1>1. /\ pc[c] = "idle" /\ pc'[c] = "join_create"
      /\ arg'[c] = [NoArg EXCEPT !.conn = c, !.room = r]
      /\ \A d \in Conns \ {c} : pc'[d] = pc[d] /\ arg'[d] = arg[d]
  BY OwnStep DEF JoinCheck
<1>2. arg'[c].conn = c
  BY <1>1 DEF NoArg
<1>3. UNCHANGED <<rooms, members, indexed, index, connections>>
  BY DEF JoinCheck, maps
<1>4. \A d \in Conns, s \in Rooms : Mapped(d, s)' <=> Mapped(d, s)
  BY <1>3 DEF Mapped
<1>5. OwnInv'
  BY <1>1, <1>2, <1>3 DEF OwnInv
<1>6. ObjInv'
  BY <1>1, <1>3 DEF ObjInv
<1>7. MemberInv'
  BY <1>1, <1>3, <1>4 DEF MemberInv, Known
<1> QED
  BY <1>3, <1>4, <1>5, <1>6, <1>7, SilentVisited DEF Silent

\* create_room finds the room or makes an empty one: nobody sees it.
LEMMA JoinCreateOwn ==
    ASSUME Own, NEW c \in Conns, JoinCreate(c)
    PROVE  OwnInv' /\ ObjInv' /\ MemberInv' /\ Silent
<1> USE DEF Own
<1> DEFINE r == arg[c].room
<1>1. PICK o \in Objs :
        /\ Step(c, "join_create", "join_insert", [arg[c] EXCEPT !.obj = o])
        /\ \/ /\ o = rooms[r]
              /\ UNCHANGED <<rooms, members>>
           \/ /\ rooms[r] = None /\ o \in FreeObjs
              /\ rooms' = [rooms EXCEPT ![r] = o]
              /\ members' = [members EXCEPT ![o] = {}]
  BY DEF JoinCreate
<1>2. /\ pc[c] = "join_create" /\ pc'[c] = "join_insert"
      /\ arg'[c] = [arg[c] EXCEPT !.obj = o]
      /\ \A d \in Conns \ {c} : pc'[d] = pc[d] /\ arg'[d] = arg[d]
  BY <1>1, OwnStep
<1>3. arg[c] \in Args /\ r \in Rooms /\ arg[c].conn = c
  BY <1>2, ControlType DEF Base, ArgInv, OwnInv, Joining, Threads
<1>4. arg'[c].conn = c /\ arg'[c].room = r /\ arg'[c].obj = o
  BY <1>2, <1>3 DEF Args
<1>5. UNCHANGED <<indexed, index, connections>>
  BY DEF JoinCreate
<1>6. o # None
  BY NoneAssumption
<1>7. /\ rooms'[r] = o
      /\ \A s \in Rooms : s # r => rooms'[s] = rooms[s] /\ rooms[s] # o
      /\ \A d \in Conns, s \in Rooms : Mapped(d, s)' <=> Mapped(d, s)
  <2>1. CASE o = rooms[r] /\ UNCHANGED <<rooms, members>>
    BY <1>3, <1>6, <2>1 DEF Mapped, ObjInv
  <2>2. CASE /\ rooms[r] = None /\ o \in FreeObjs
             /\ rooms' = [rooms EXCEPT ![r] = o]
             /\ members' = [members EXCEPT ![o] = {}]
    <3>1. \A s \in Rooms : rooms[s] # o
      BY <2>2 DEF FreeObjs
    <3>2. rooms'[r] = o /\ \A s \in Rooms : s # r => rooms'[s] = rooms[s]
      BY <1>3, <2>2 DEF Base, TypeOK
    <3>3. members'[o] = {} /\ \A q \in Objs : q # o => members'[q] = members[q]
      BY <2>2 DEF Base, TypeOK
    <3>4. ASSUME NEW d \in Conns, NEW s \in Rooms
          PROVE  Mapped(d, s)' <=> Mapped(d, s)
      BY <2>2, <3>1, <3>2, <3>3 DEF Mapped, Base, TypeOK
    <3> QED
      BY <3>1, <3>2, <3>4
  <2> QED
    BY <1>1, <2>1, <2>2
<1>8. \A d \in Conns \ {c} : pc[d] = "join_insert" /\ rooms'[r] = arg[d].obj
        => arg[d].room = r
  <2>1. CASE o = rooms[r]
    BY <1>3, <1>7, <2>1 DEF ObjInv
  <2>2. CASE o \in FreeObjs
    BY <1>7, <2>2 DEF FreeObjs, Threads
  <2> QED
    BY <1>1, <2>1, <2>2
<1>9. OwnInv'
  BY <1>2, <1>4, <1>5 DEF OwnInv, Joining, Leaving, Deleting
<1>10. ObjInv'
  <2>1. \A s, q \in Rooms : rooms'[s] = rooms'[q] /\ rooms'[s] # None => s = q
    BY <1>7 DEF ObjInv
  <2>2. \A d \in Conns, s \in Rooms :
          pc'[d] = "join_insert" /\ rooms'[s] = arg'[d].obj => s = arg'[d].room
    <3>1. ASSUME NEW s \in Rooms, rooms'[s] = arg'[c].obj
          PROVE  s = arg'[c].room
      BY <1>4, <1>7, <3>1
    <3>2. ASSUME NEW d \in Conns \ {c}, NEW s \in Rooms,
                 pc[d] = "join_insert", rooms'[s] = arg[d].obj
          PROVE  s = arg[d].room
      <4>1. CASE s = r
        BY <1>8, <3>2, <4>1
      <4>2. CASE s # r
        BY <1>7, <3>2, <4>2 DEF ObjInv
      <4> QED
        BY <4>1, <4>2
    <3>3. ASSUME NEW d \in Conns, NEW s \in Rooms,
                 pc'[d] = "join_insert", rooms'[s] = arg'[d].obj
          PROVE  s = arg'[d].room
      <4>1. CASE d = c
        BY <3>1, <3>3, <4>1
      <4>2. CASE d # c
        <5>1. d \in Conns \ {c} /\ pc[d] = pc'[d] /\ arg[d] = arg'[d]
          BY <1>2, <4>2
        <5> QED
          BY <3>2, <3>3, <5>1
      <4> QED
        BY <4>1, <4>2
    <3> QED
      BY <3>3
  <2> QED
    BY <2>1, <2>2 DEF ObjInv
<1>11. MemberInv'
  BY <1>2, <1>5, <1>7 DEF MemberInv, Known, Ending
<1> QED
  BY <1>5, <1>7, <1>9, <1>10, <1>11, SilentVisited DEF Silent

\* room.join: seen as a join if the room is still in the map.
LEMMA JoinInsertOwn ==
    ASSUME Own, NEW c \in Conns, JoinInsert(c)
    PROVE  /\ OwnInv' /\ ObjInv' /\ MemberInv'
           /\ rooms[arg[c].room] = arg[c].obj => Joins(c, arg[c].room)
           /\ rooms[arg[c].room] # arg[c].obj => Silent
<1> USE DEF Own
<1>1. /\ pc[c] = "join_insert" /\ pc'[c] = "join_index" /\ arg'[c] = arg[c]
      /\ \A d \in Conns \ {c} : pc'[d] = pc[d] /\ arg'[d] = arg[d]
  BY OwnStep DEF JoinInsert
<1>2. /\ arg[c].conn = c /\ arg[c].room \in Rooms /\ arg[c].obj \in Objs
      /\ c \in connections
  BY <1>1 DEF Base, ArgInv, LifeInv, OwnInv, Joining, Ending, Threads
<1>3. UNCHANGED <<rooms, indexed, index, connections>>
  BY DEF JoinInsert
<1>4. members' = [members EXCEPT ![arg[c].obj] = @ \cup {c}]
  BY <1>2 DEF JoinInsert
<1>5. \A d \in Conns, s \in Rooms :
        Mapped(d, s)' <=> Mapped(d, s) \/ (d = c /\ rooms[s] = arg[c].obj)
  BY <1>2, <1>3, <1>4, NoneAssumption DEF Mapped, Base, TypeOK
<1>6. \A s \in Rooms : rooms[s] = arg[c].obj => s = arg[c].room
  BY <1>1 DEF ObjInv
<1>7. OwnInv' /\ ObjInv'
  BY <1>1, <1>2, <1>3 DEF OwnInv, ObjInv, Joining, Leaving, Deleting
<1>8. MemberInv'
  BY <1>1, <1>3, <1>5, <1>6 DEF MemberInv, Known, Ending
<1>9. CASE rooms[arg[c].room] = arg[c].obj
  <2>1. \A d \in Conns, s \in Rooms :
          Mapped(d, s)' <=> Mapped(d, s) \/ (d = c /\ s = arg[c].room)
    BY <1>5, <1>6, <1>9
  <2> QED
    BY <1>2, <1>3, <1>7, <1>8, <1>9, <2>1, JoinVisited DEF Joins
<1>10. CASE rooms[arg[c].room] # arg[c].obj
  <2>1. \A d \in Conns, s \in Rooms : Mapped(d, s)' <=> Mapped(d, s)
    BY <1>5, <1>6, <1>10
  <2> QED
    BY <1>3, <1>7, <1>8, <1>10, <2>1, SilentVisited DEF Silent
<1> QED
  BY <1>9, <1>10

\* Recording the room in connection_rooms is silent.
LEMMA JoinIndexOwn ==
    ASSUME Own, NEW c \in Conns, JoinIndex(c)
    PROVE  OwnInv' /\ ObjInv' /\ MemberInv' /\ Silent
<1> USE DEF Own
<1>1. /\ pc[c] = "join_index" /\ pc'[c] = "idle" /\ arg'[c] = NoArg
      /\ \A d \in Conns \ {c} : pc'[d] = pc[d] /\ arg'[d] = arg[d]
  BY OwnStep DEF JoinIndex, Return
<1>2. arg[c].conn = c /\ arg[c].room \in Rooms /\ c \in indexed
  BY <1>1 DEF Base, ArgInv, OwnInv, Joining, Threads
<1>3. UNCHANGED <<rooms, members, indexed, connections>>
      /\ index' = [index EXCEPT ![c] = @ \cup {arg[c].room}]
  BY <1>2 DEF JoinIndex, Record
<1>4. /\ index'[c] = index[c] \cup {arg[c].room}
      /\ \A d \in Conns \ {c} : index'[d] = index[d]
  BY <1>3 DEF Base, TypeOK
<1>5. \A d \in Conns, s \in Rooms : Mapped(d, s)' <=> Mapped(d, s)
  BY <1>3 DEF Mapped
<1>6. OwnInv' /\ ObjInv'
  BY <1>1, <1>2, <1>3 DEF OwnInv, ObjInv, NoArg, Joining, Leaving, Deleting
<1>7. MemberInv'
  BY <1>1, <1>4, <1>5 DEF MemberInv, Known, Ending
<1> QED
  BY <1>3, <1>5, <1>6, <1>7, SilentVisited DEF Silent

\* leave_room ends the membership at its first step.
LEMMA LeaveMemberOwn ==
    ASSUME Own, NEW c \in Conns, NEW r \in Rooms, LeaveMember(c, c, r)
    PROVE  OwnInv' /\ ObjInv' /\ MemberInv' /\ Leaves(c, r)
<1> USE DEF Own
<1>1. /\ pc[c] = "idle" /\ pc'[c] = "leave_index"
      /\ arg'[c] = [NoArg EXCEPT !.conn = c, !.room = r]
      /\ \A d \in Conns \ {c} : pc'[d] = pc[d] /\ arg'[d] = arg[d]
  BY OwnStep DEF LeaveMember
<1>2. arg'[c].conn = c /\ arg'[c].room = r
  BY <1>1 DEF NoArg
<1>3. UNCHANGED <<rooms, indexed, index, connections>>
  BY DEF LeaveMember
<1>4. \A d \in Conns, s \in Rooms :
        Mapped(d, s)' <=> Mapped(d, s) /\ ~(d = c /\ s = r)
  BY <1>3, LeaveMapped DEF LeaveMember, Base
<1>5. OwnInv'
  BY <1>1, <1>2, <1>3 DEF OwnInv, Joining, Leaving, Deleting
<1>6. ObjInv'
  BY <1>1, <1>3 DEF ObjInv
<1>7. MemberInv'
  BY <1>1, <1>2, <1>3, <1>4 DEF MemberInv, Known, Ending
<1> QED
  BY <1>3, <1>4, <1>5, <1>6, <1>7, LeaveVisited DEF Leaves

\* Its second step forgets a membership that has ended already.
LEMMA LeaveIndexOwn ==
    ASSUME Own, NEW c \in Conns, LeaveIndex(c)
    PROVE  OwnInv' /\ ObjInv' /\ MemberInv' /\ Silent
<1> USE DEF Own
<1>1. /\ pc[c] = "leave_index" /\ pc'[c] = "leave_prune" /\ arg'[c] = arg[c]
      /\ \A d \in Conns \ {c} : pc'[d] = pc[d] /\ arg'[d] = arg[d]
  BY OwnStep DEF LeaveIndex
<1>2. arg[c].conn = c /\ arg[c].room \in Rooms /\ c \in indexed
  BY <1>1 DEF Base, ArgInv, OwnInv, Leaving, Threads
<1>3. UNCHANGED <<rooms, members, indexed, connections>>
      /\ index' = [index EXCEPT ![c] = @ \ {arg[c].room}]
  BY <1>2 DEF LeaveIndex
<1>4. /\ index'[c] = index[c] \ {arg[c].room}
      /\ \A d \in Conns \ {c} : index'[d] = index[d]
  BY <1>3 DEF Base, TypeOK
<1>5. \A d \in Conns, s \in Rooms : Mapped(d, s)' <=> Mapped(d, s)
  BY <1>3 DEF Mapped
<1>6. OwnInv'
  BY <1>1, <1>2, <1>3 DEF OwnInv, Joining, Leaving, Deleting
<1>7. ObjInv'
  BY <1>1, <1>3 DEF ObjInv
<1>8. MemberInv'
  BY <1>1, <1>4, <1>5 DEF MemberInv, Known, Ending
<1> QED
  BY <1>3, <1>5, <1>6, <1>7, <1>8, SilentVisited DEF Silent

\* Its third step removes the room only if it is empty: silent.
LEMMA LeavePruneOwn ==
    ASSUME Own, NEW c \in Conns, LeavePrune(c)
    PROVE  OwnInv' /\ ObjInv' /\ MemberInv' /\ Silent
<1> USE DEF Own
<1>1. /\ pc[c] = "leave_prune" /\ pc'[c] = "idle" /\ arg'[c] = NoArg
      /\ \A d \in Conns \ {c} : pc'[d] = pc[d] /\ arg'[d] = arg[d]
  BY OwnStep DEF LeavePrune, Return
<1>2. arg[c].room \in Rooms /\ c \in indexed
  BY <1>1 DEF Base, ArgInv, OwnInv, Leaving, Threads
<1>3. UNCHANGED <<members, indexed, index, connections>>
  BY DEF LeavePrune
<1>4. /\ \A d \in Conns, s \in Rooms : Mapped(d, s)' <=> Mapped(d, s)
      /\ \A s \in Rooms : rooms'[s] \in {rooms[s], None}
  BY <1>2, <1>3, PruneSilent DEF LeavePrune, Base
<1>5. OwnInv'
  BY <1>1, <1>2, <1>3 DEF OwnInv, NoArg, Joining, Leaving, Deleting
<1>6. \A d \in Conns : pc[d] = "join_insert" => arg[d].obj # None
  BY NoneAssumption DEF Base, ArgInv, Threads
<1>7. ObjInv'
  BY <1>1, <1>4, <1>6 DEF ObjInv
<1>8. MemberInv'
  BY <1>1, <1>3, <1>4 DEF MemberInv, Known, Ending
<1> QED
  BY <1>3, <1>4, <1>5, <1>7, <1>8, SilentVisited DEF Silent

\* unregister_connection takes the index entry into its list of rooms: silent.
LEMMA UnregisterTakeOwn ==
    ASSUME Own, NEW c \in Conns, UnregisterTake(c)
    PROVE  OwnInv' /\ ObjInv' /\ MemberInv' /\ Silent
<1> USE DEF Own
<1>1. /\ pc[c] = "idle" /\ pc'[c] = "unreg_leave"
      /\ arg'[c] = [NoArg EXCEPT !.conn = c, !.todo = index[c]]
      /\ \A d \in Conns \ {c} : pc'[d] = pc[d] /\ arg'[d] = arg[d]
  BY OwnStep DEF UnregisterTake
<1>2. arg'[c].todo = index[c] /\ arg'[c].room = None
  BY <1>1 DEF NoArg
<1>3. UNCHANGED <<rooms, members, connections>> /\ indexed' = indexed \ {c}
  BY DEF UnregisterTake
<1>4. \A d \in Conns \ {c} : index'[d] = index[d]
  BY DEF UnregisterTake, Base, TypeOK
<1>5. \A d \in Conns, s \in Rooms : Mapped(d, s)' <=> Mapped(d, s)
  BY <1>3 DEF Mapped
<1>6. OwnInv'
  BY <1>1, <1>2, <1>3 DEF OwnInv, Joining, Leaving, Deleting
<1>7. ObjInv'
  BY <1>1, <1>3 DEF ObjInv
<1>8. MemberInv'
  BY <1>1, <1>2, <1>4, <1>5 DEF MemberInv, Known, Ending
<1> QED
  BY <1>3, <1>5, <1>6, <1>7, <1>8, SilentVisited DEF Silent

\* Each pass of the loop ends the membership of the room it takes.
LEMMA UnregisterLeaveOwn ==
    ASSUME Own, NEW c \in Conns, UnregisterLeave(c)
    PROVE  /\ OwnInv' /\ ObjInv' /\ MemberInv'
           /\ \E r \in Rooms : Leaves(c, r) /\ arg'[c].room = r
<1> USE DEF Own
<1>1. PICK r \in arg[c].todo :
        /\ Step(c, "unreg_leave", "unreg_prune",
                [arg[c] EXCEPT !.room = r, !.todo = @ \ {r}])
        /\ LeaveMembers(c, r)
        /\ UNCHANGED <<rooms, indexed, index, connections>>
  BY DEF UnregisterLeave
<1>2. /\ pc[c] = "unreg_leave" /\ pc'[c] = "unreg_prune"
      /\ arg'[c] = [arg[c] EXCEPT !.room = r, !.todo = @ \ {r}]
      /\ \A d \in Conns \ {c} : pc'[d] = pc[d] /\ arg'[d] = arg[d]
  BY <1>1, OwnStep
<1>3. arg[c] \in Args /\ r \in Rooms
  BY <1>2, ControlType DEF Base, ArgInv, Ending, Threads
<1>4. arg'[c].todo = arg[c].todo \ {r} /\ arg'[c].room = r
  BY <1>2, <1>3 DEF Args
<1>5. \A d \in Conns, s \in Rooms :
        Mapped(d, s)' <=> Mapped(d, s) /\ ~(d = c /\ s = r)
  BY <1>1, <1>3, LeaveMapped DEF Base
<1>6. OwnInv'
  BY <1>1, <1>2 DEF OwnInv, Joining, Leaving, Deleting
<1>7. ObjInv'
  BY <1>1, <1>2 DEF ObjInv
<1>8. MemberInv'
  BY <1>1, <1>2, <1>4, <1>5 DEF MemberInv, Known, Ending
<1> QED
  BY <1>1, <1>3, <1>4, <1>5, <1>6, <1>7, <1>8, LeaveVisited DEF Leaves

\* Its clean-up is silent, as that of leave_room is.
LEMMA UnregisterPruneOwn ==
    ASSUME Own, NEW c \in Conns, UnregisterPrune(c)
    PROVE  OwnInv' /\ ObjInv' /\ MemberInv' /\ Silent
<1> USE DEF Own
<1>1. /\ pc[c] = "unreg_prune" /\ pc'[c] = "unreg_leave"
      /\ arg'[c] = [arg[c] EXCEPT !.room = None]
      /\ \A d \in Conns \ {c} : pc'[d] = pc[d] /\ arg'[d] = arg[d]
  BY OwnStep DEF UnregisterPrune
<1>2. arg[c] \in Args /\ arg[c].room \in Rooms
  BY <1>1, ControlType DEF Base, ArgInv, Threads
<1>3. arg'[c].todo = arg[c].todo /\ arg'[c].room = None
  BY <1>1, <1>2 DEF Args
<1>4. UNCHANGED <<members, indexed, index, connections>>
  BY DEF UnregisterPrune
<1>5. /\ \A d \in Conns, s \in Rooms : Mapped(d, s)' <=> Mapped(d, s)
      /\ \A s \in Rooms : rooms'[s] \in {rooms[s], None}
  BY <1>2, <1>4, PruneSilent DEF UnregisterPrune, Base
<1>6. OwnInv'
  BY <1>1, <1>3, <1>4 DEF OwnInv, Joining, Leaving, Deleting
<1>7. \A d \in Conns : pc[d] = "join_insert" => arg[d].obj # None
  BY NoneAssumption DEF Base, ArgInv, Threads
<1>8. ObjInv'
  BY <1>1, <1>5, <1>7 DEF ObjInv
<1>9. MemberInv'
  BY <1>1, <1>3, <1>4, <1>5 DEF MemberInv, Known, Ending
<1> QED
  BY <1>4, <1>5, <1>6, <1>8, <1>9, SilentVisited DEF Silent

\* When the loop is done the connection is in no room.
LEMMA UnregisterDoneOwn ==
    ASSUME Own, NEW c \in Conns, UnregisterDone(c)
    PROVE  /\ OwnInv' /\ ObjInv' /\ MemberInv'
           /\ \A r \in Rooms : ~Mapped(c, r)
           /\ Visited' = Visited /\ connections' = connections \ {c}
<1> USE DEF Own
<1>1. /\ pc[c] = "unreg_leave" /\ pc'[c] = "gone" /\ arg'[c] = NoArg
      /\ arg[c].todo = {}
      /\ \A d \in Conns \ {c} : pc'[d] = pc[d] /\ arg'[d] = arg[d]
  BY OwnStep DEF UnregisterDone
<1>2. index[c] = {}
  BY <1>1 DEF Base, LifeInv, TypeOK, Ending
<1>3. \A s \in Rooms : ~Mapped(c, s)
  BY <1>1, <1>2 DEF MemberInv, Known
<1>4. UNCHANGED <<rooms, members, indexed, index>> /\ connections' = connections \ {c}
  BY DEF UnregisterDone
<1>5. \A d \in Conns, s \in Rooms : Mapped(d, s)' <=> Mapped(d, s)
  BY <1>4 DEF Mapped
<1>6. OwnInv'
  BY <1>1, <1>4 DEF OwnInv, NoArg, Joining, Leaving, Deleting
<1>7. ObjInv'
  BY <1>1, <1>4 DEF ObjInv
<1>8. MemberInv'
  BY <1>1, <1>3, <1>4, <1>5 DEF MemberInv, Known, Ending
<1> QED
  BY <1>3, <1>4, <1>5, <1>6, <1>7, <1>8, SilentVisited

-----------------------------------------------------------------------------
(* Own is an invariant.                                                    *)

\* Initially there is no room and every task is still to register.
LEMMA OwnInit ==
    ASSUME Admins = {}, Init
    PROVE  Own
<1>1. \A c \in Conns : pc[c] = "new" /\ arg[c] = NoArg
  BY DEF Init, Threads
<1>2. OwnInv
  BY <1>1 DEF OwnInv, NoArg, Joining, Leaving, Deleting
<1>3. ObjInv
  BY <1>1 DEF Init, ObjInv
<1>4. MemberInv
  BY <1>1 DEF Init, MemberInv, Mapped
<1> QED
  BY <1>2, <1>3, <1>4, BaseInit DEF Own

\* The steps of the tasks, when there are no admins.
Acts(c) ==
    \/ Register(c) \/ RegisterIndex(c)
    \/ \E r \in Rooms : JoinCheck(c, c, r) \/ LeaveMember(c, c, r)
    \/ JoinCreate(c) \/ JoinInsert(c) \/ JoinIndex(c)
    \/ LeaveIndex(c) \/ LeavePrune(c)
    \/ UnregisterTake(c) \/ UnregisterLeave(c)
    \/ UnregisterPrune(c) \/ UnregisterDone(c)

\* Without admins nobody deletes rooms and each task acts for itself.
LEMMA OwnActs ==
    ASSUME Admins = {}, Own, Next
    PROVE  \E c \in Conns : Acts(c)
<1>1. ASSUME NEW c \in Conns, Begin(c)
      PROVE  Acts(c)
  BY <1>1 DEF Begin, May, Acts
<1>2. ASSUME NEW c \in Conns, Continue(c)
      PROVE  Acts(c)
  <2>1. pc[c] \notin Deleting
    BY DEF Own, OwnInv
  <2>2. ~DeleteScan(c) /\ ~DeleteUnindex(c)
    BY <2>1 DEF DeleteScan, DeleteUnindex, Step, Return, Deleting
  <2> QED
    BY <1>2, <2>2 DEF Continue, Acts
<1>3. ASSUME NEW c \in Conns, Lifecycle(c)
      PROVE  Acts(c)
  BY <1>3 DEF Lifecycle, Acts
<1> QED
  BY <1>1, <1>2, <1>3 DEF Next, Threads

\* Every step of the tasks, when there are no admins.
LEMMA OwnNext ==
    ASSUME Admins = {}, Own, [Next]_vars
    PROVE  Own'
<1>1. Base'
  BY BaseStep DEF Own
<1>2. ASSUME NEW c \in Conns, Acts(c)
      PROVE  OwnInv' /\ ObjInv' /\ MemberInv'
  BY <1>2, RegisterOwn, JoinCheckOwn, JoinCreateOwn, JoinInsertOwn, JoinIndexOwn,
     LeaveMemberOwn, LeaveIndexOwn, LeavePruneOwn, UnregisterTakeOwn,
     UnregisterLeaveOwn, UnregisterPruneOwn, UnregisterDoneOwn
  DEF Acts
<1>3. ASSUME UNCHANGED vars
      PROVE  OwnInv' /\ ObjInv' /\ MemberInv'
  <2>1. UNCHANGED <<rooms, members, indexed, index, connections, pc, arg>>
    BY <1>3 DEF vars, maps
  <2>2. \A d \in Conns, s \in Rooms : Mapped(d, s)' <=> Mapped(d, s)
    BY <2>1 DEF Mapped
  <2>3. OwnInv' /\ ObjInv'
    BY <2>1 DEF Own, OwnInv, ObjInv
  <2>4. MemberInv'
    BY <2>1, <2>2 DEF Own, MemberInv, Known
  <2> QED
    BY <2>3, <2>4
<1>4. OwnInv' /\ ObjInv' /\ MemberInv'
  BY <1>2, <1>3, OwnActs
<1> QED
  BY <1>1, <1>4 DEF Own

\* Members are indexed: without admins, whatever the interleaving, the index
\* entry unregister_connection takes has all the rooms its connection is in.
THEOREM MemberCorrect ==
    ASSUME Admins = {}
    PROVE  Spec => []MemberIndexed
<1>1. Init => Own
  BY OwnInit
<1>2. Own /\ [Next]_vars => Own'
  BY OwnNext
<1>3. Own => MemberIndexed
  <2> SUFFICES ASSUME Own, NEW c \in Conns, NEW r \in Rooms,
                      pc[c] \in Idle, Mapped(c, r)
               PROVE  c \in indexed /\ r \in index[c]
    BY DEF MemberIndexed
  <2>1. r \in index[c]
    BY DEF Own, MemberInv, Known, Idle, Ending
  <2>2. c \in indexed
    BY <2>1 DEF Own, Base, TypeOK
  <2> QED
    BY <2>1, <2>2
<1> QED
  BY <1>1, <1>2, <1>3, PTL DEF Spec

-----------------------------------------------------------------------------
(* Every step is one of Membership, or changes nothing that Membership sees. *)

\* The calls by location.
LEMMA OperationAt ==
    ASSUME NEW c \in Conns
    PROVE  /\ pc[c] \in {"new", "reg_index", "idle", "gone"} => Operation(c) = "idle"
           /\ pc[c] = "join_create" => Operation(c) = "joining"
           /\ pc[c] = "join_insert" /\ rooms[arg[c].room] = arg[c].obj
                => Operation(c) = "joining"
           /\ pc[c] = "join_insert" /\ rooms[arg[c].room] # arg[c].obj
                => Operation(c) = "orphaned"
           /\ pc[c] = "join_index" => Operation(c) = "joined"
           /\ pc[c] \in Leaving => Operation(c) = "leaving"
           /\ pc[c] \in Ending => Operation(c) = "unregistering"
BY DEF Operation, Leaving, Ending

\* The same after a step.
LEMMA OperationNext ==
    ASSUME NEW c \in Conns
    PROVE  /\ pc'[c] \in {"new", "reg_index", "idle", "gone"} => Operation(c)' = "idle"
           /\ pc'[c] = "join_create" => Operation(c)' = "joining"
           /\ pc'[c] = "join_insert" /\ rooms'[arg'[c].room] = arg'[c].obj
                => Operation(c)' = "joining"
           /\ pc'[c] = "join_insert" /\ rooms'[arg'[c].room] # arg'[c].obj
                => Operation(c)' = "orphaned"
           /\ pc'[c] = "join_index" => Operation(c)' = "joined"
           /\ pc'[c] \in Leaving => Operation(c)' = "leaving"
           /\ pc'[c] \in Ending => Operation(c)' = "unregistering"
BY DEF Operation, Leaving, Ending

\* A step of one task that leaves the rooms map alone changes its own call
\* and no other.
LEMMA DoingChanges ==
    ASSUME NEW c \in Conns, UNCHANGED rooms,
           \A d \in Conns \ {c} : pc'[d] = pc[d] /\ arg'[d] = arg[d],
           NEW from, NEW to, NEW q, NEW r,
           Operation(c) = from, arg[c].room = q,
           Operation(c)' = to, arg'[c].room = r
    PROVE  Promise!Goes(c, Promise!Call(from, q), Promise!Call(to, r))
<1>1. \A d \in Conns \ {c} : Operation(d)' = Operation(d)
  BY DEF Operation
<1>2. Doing' = [Doing EXCEPT ![c] = [op |-> to, room |-> r]]
  BY <1>1 DEF Doing
<1> QED
  BY <1>2 DEF Promise!Goes, Promise!Call, Doing

\* Registration.
LEMMA RegisterPromise ==
    ASSUME Own, NEW c \in Conns, Register(c)
    PROVE  Promise!Register(c)
<1> USE DEF Own
<1>1. /\ pc[c] = "new" /\ pc'[c] = "reg_index" /\ arg'[c] = NoArg
      /\ \A d \in Conns \ {c} : pc'[d] = pc[d] /\ arg'[d] = arg[d]
  BY OwnStep DEF Register
<1>2. c \notin connections /\ arg[c].room = None /\ arg'[c].room = None
  BY <1>1 DEF Base, LifeInv, OwnInv, Joining, Leaving, NoArg
<1>3. UNCHANGED rooms /\ connections' = connections \cup {c} /\ Visited' = Visited
  BY RegisterOwn DEF Register
<1>4. Promise!Goes(c, Promise!Free, Promise!Free)
  BY <1>1, <1>2, <1>3, OperationAt, OperationNext, DoingChanges DEF Promise!Free
<1>5. Doing[c] = Promise!Free /\ Doing' = Doing
  BY <1>4 DEF Promise!Goes, Doing
<1> QED
  BY <1>2, <1>3, <1>5 DEF Promise!Register

\* join_room: its first step begins it.
LEMMA JoinBeginPromise ==
    ASSUME Own, NEW c \in Conns, NEW r \in Rooms, JoinCheck(c, c, r)
    PROVE  Promise!JoinBegin(c, r)
<1>1. /\ pc[c] = "idle" /\ pc'[c] = "join_create"
      /\ arg'[c] = [NoArg EXCEPT !.conn = c, !.room = r]
      /\ \A d \in Conns \ {c} : pc'[d] = pc[d] /\ arg'[d] = arg[d]
  BY OwnStep DEF JoinCheck, Own
<1>2. arg[c].room = None /\ arg'[c].room = r
  BY <1>1 DEF Own, OwnInv, Joining, Leaving, NoArg
<1>3. c \in connections /\ UNCHANGED <<rooms, connections, Visited>>
  BY JoinCheckOwn DEF JoinCheck, maps, Silent
<1>4. Promise!Goes(c, Promise!Free, Promise!Call("joining", r))
  BY <1>1, <1>2, <1>3, OperationAt, OperationNext, DoingChanges DEF Promise!Free
<1> QED
  BY <1>3, <1>4 DEF Promise!JoinBegin

\* room.join has its effect, or is lost on a room that was cleaned up.
LEMMA JoinInsertPromise ==
    ASSUME Own, NEW c \in Conns, JoinInsert(c)
    PROVE  \E r \in Rooms : Promise!JoinTakes(c, r) \/ Promise!JoinLost(c, r)
<1> DEFINE r == arg[c].room
<1>1. /\ pc[c] = "join_insert" /\ pc'[c] = "join_index" /\ arg'[c] = arg[c]
      /\ \A d \in Conns \ {c} : pc'[d] = pc[d] /\ arg'[d] = arg[d]
  BY OwnStep DEF JoinInsert, Own
<1>2. r \in Rooms /\ UNCHANGED rooms
  BY <1>1 DEF Own, Base, ArgInv, Joining, Threads, JoinInsert
<1>3. Operation(c)' = "joined" /\ arg'[c].room = r
  BY <1>1, OperationNext
<1>4. CASE rooms[r] = arg[c].obj
  <2>1. Operation(c) = "joining"
    BY <1>1, <1>4, OperationAt
  <2>2. Promise!Goes(c, Promise!Call("joining", r), Promise!Call("joined", r))
    BY <1>1, <1>2, <1>3, <2>1, DoingChanges
  <2> QED
    BY <1>2, <1>4, <2>2, JoinInsertOwn DEF Joins, Promise!JoinTakes
<1>5. CASE rooms[r] # arg[c].obj
  <2>1. Operation(c) = "orphaned"
    BY <1>1, <1>5, OperationAt
  <2>2. Promise!Goes(c, Promise!Call("orphaned", r), Promise!Call("joined", r))
    BY <1>1, <1>2, <1>3, <2>1, DoingChanges
  <2> QED
    BY <1>2, <1>5, <2>2, JoinInsertOwn DEF Silent, Promise!JoinLost
<1> QED
  BY <1>4, <1>5

\* join_room returns.
LEMMA JoinEndPromise ==
    ASSUME Own, NEW c \in Conns, JoinIndex(c)
    PROVE  \E r \in Rooms : Promise!JoinEnd(c, r)
<1>1. /\ pc[c] = "join_index" /\ pc'[c] = "idle" /\ arg'[c] = NoArg
      /\ \A d \in Conns \ {c} : pc'[d] = pc[d] /\ arg'[d] = arg[d]
  BY OwnStep DEF JoinIndex, Return, Own
<1>2. arg[c].room \in Rooms /\ arg'[c].room = None /\ UNCHANGED rooms
  BY <1>1 DEF Own, Base, ArgInv, Joining, Threads, NoArg, JoinIndex
<1>3. Promise!Goes(c, Promise!Call("joined", arg[c].room), Promise!Free)
  BY <1>1, <1>2, OperationAt, OperationNext, DoingChanges DEF Promise!Free
<1> QED
  BY <1>2, <1>3, JoinIndexOwn DEF Silent, Promise!JoinEnd

\* leave_room: its first step ends the membership.
LEMMA LeavePromise ==
    ASSUME Own, NEW c \in Conns, NEW r \in Rooms, LeaveMember(c, c, r)
    PROVE  Promise!Leave(c, r)
<1>1. /\ pc[c] = "idle" /\ pc'[c] = "leave_index"
      /\ arg'[c] = [NoArg EXCEPT !.conn = c, !.room = r]
      /\ \A d \in Conns \ {c} : pc'[d] = pc[d] /\ arg'[d] = arg[d]
  BY OwnStep DEF LeaveMember, Own
<1>2. /\ arg[c].room = None /\ arg'[c].room = r
      /\ c \in connections /\ UNCHANGED rooms
  BY <1>1 DEF Own, OwnInv, Base, LifeInv, Joining, Leaving, NoArg, LeaveMember
<1>3. Promise!Goes(c, Promise!Free, Promise!Call("leaving", r))
  BY <1>1, <1>2, OperationAt, OperationNext, DoingChanges DEF Promise!Free, Leaving
<1> QED
  BY <1>2, <1>3, LeaveMemberOwn DEF Leaves, Promise!Leave

\* unregister_connection begins.
LEMMA UnregisterTakePromise ==
    ASSUME Own, NEW c \in Conns, UnregisterTake(c)
    PROVE  Promise!UnregisterBegin(c)
<1>1. /\ pc[c] = "idle" /\ pc'[c] = "unreg_leave"
      /\ arg'[c] = [NoArg EXCEPT !.conn = c, !.todo = index[c]]
      /\ \A d \in Conns \ {c} : pc'[d] = pc[d] /\ arg'[d] = arg[d]
  BY OwnStep DEF UnregisterTake, Own
<1>2. /\ arg[c].room = None /\ arg'[c].room = None
      /\ c \in connections /\ UNCHANGED rooms
  BY <1>1 DEF Own, OwnInv, Base, LifeInv, Joining, Leaving, NoArg, UnregisterTake
<1>3. Promise!Goes(c, Promise!Free, Promise!Call("unregistering", None))
  BY <1>1, <1>2, OperationAt, OperationNext, DoingChanges DEF Promise!Free, Ending
<1> QED
  BY <1>2, <1>3, UnregisterTakeOwn DEF Silent, Promise!UnregisterBegin

\* It leaves the next room.
LEMMA UnregisterLeavePromise ==
    ASSUME Own, NEW c \in Conns, UnregisterLeave(c)
    PROVE  \E r \in Rooms : Promise!UnregisterLeave(c, r)
<1>1. PICK r \in Rooms : Leaves(c, r) /\ arg'[c].room = r
  BY UnregisterLeaveOwn
<1>2. /\ pc[c] = "unreg_leave" /\ pc'[c] = "unreg_prune" /\ UNCHANGED rooms
      /\ \A d \in Conns \ {c} : pc'[d] = pc[d] /\ arg'[d] = arg[d]
  BY OwnStep DEF UnregisterLeave, Own
<1>3. arg[c].room = None
  BY <1>2 DEF Own, OwnInv, Joining, Leaving
<1>4. Promise!Goes(c, Promise!Call("unregistering", None), Promise!Call("unregistering", r))
  BY <1>1, <1>2, <1>3, OperationAt, OperationNext, DoingChanges DEF Ending
<1> QED
  BY <1>1, <1>4 DEF Leaves, Promise!UnregisterLeave

\* It returns, and the connection is in no room.
LEMMA UnregisterDonePromise ==
    ASSUME Own, NEW c \in Conns, UnregisterDone(c)
    PROVE  Promise!UnregisterEnd(c)
<1>1. /\ pc[c] = "unreg_leave" /\ pc'[c] = "gone" /\ arg'[c] = NoArg
      /\ \A d \in Conns \ {c} : pc'[d] = pc[d] /\ arg'[d] = arg[d]
  BY OwnStep DEF UnregisterDone, Own
<1>2. arg[c].room = None /\ arg'[c].room = None /\ UNCHANGED rooms
  BY <1>1 DEF Own, OwnInv, Joining, Leaving, NoArg, UnregisterDone
<1>3. Promise!Goes(c, Promise!Call("unregistering", None), Promise!Free)
  BY <1>1, <1>2, OperationAt, OperationNext, DoingChanges DEF Promise!Free, Ending
<1>4. \A r \in Rooms : <<c, r>> \notin Visited
  BY UnregisterDoneOwn DEF Visited
<1> QED
  BY <1>3, <1>4, UnregisterDoneOwn DEF Promise!UnregisterEnd

\* The second steps of register_connection and leave_room go unseen.
LEMMA IndexUnseen ==
    ASSUME Own, NEW c \in Conns, RegisterIndex(c) \/ LeaveIndex(c)
    PROVE  UNCHANGED <<connections, Visited, Doing>>
<1>1. /\ UNCHANGED rooms /\ UNCHANGED <<connections, Visited>>
      /\ \A d \in Conns \ {c} : pc'[d] = pc[d] /\ arg'[d] = arg[d]
      /\ Operation(c)' = Operation(c) /\ arg'[c].room = arg[c].room
  <2>1. CASE RegisterIndex(c)
    <3>1. /\ pc[c] = "reg_index" /\ pc'[c] = "idle" /\ arg'[c] = NoArg
          /\ \A d \in Conns \ {c} : pc'[d] = pc[d] /\ arg'[d] = arg[d]
      BY <2>1, OwnStep DEF RegisterIndex, Return, Own
    <3>2. arg[c].room = None /\ arg'[c].room = None
      BY <3>1 DEF Own, OwnInv, Joining, Leaving, NoArg
    <3> QED
      BY <2>1, <3>1, <3>2, OperationAt, OperationNext, RegisterOwn DEF RegisterIndex
  <2>2. CASE LeaveIndex(c)
    <3>1. /\ pc[c] = "leave_index" /\ pc'[c] = "leave_prune" /\ arg'[c] = arg[c]
          /\ \A d \in Conns \ {c} : pc'[d] = pc[d] /\ arg'[d] = arg[d]
      BY <2>2, OwnStep DEF LeaveIndex, Own
    <3> QED
      BY <2>2, <3>1, OperationAt, OperationNext, LeaveIndexOwn
      DEF LeaveIndex, Leaving, Silent
  <2> QED
    BY <2>1, <2>2
<1>2. \A d \in Conns : Operation(d)' = Operation(d) /\ arg'[d].room = arg[d].room
  BY <1>1 DEF Operation
<1> QED
  BY <1>1, <1>2 DEF Doing

\* So does create_room: a new object is nobody else's.
LEMMA CreateUnseen ==
    ASSUME Own, NEW c \in Conns, JoinCreate(c)
    PROVE  UNCHANGED <<connections, Visited, Doing>>
<1> USE DEF Own
<1> DEFINE r == arg[c].room
<1>1. PICK o \in Objs :
        /\ Step(c, "join_create", "join_insert", [arg[c] EXCEPT !.obj = o])
        /\ \/ /\ o = rooms[r]
              /\ UNCHANGED <<rooms, members>>
           \/ /\ rooms[r] = None /\ o \in FreeObjs
              /\ rooms' = [rooms EXCEPT ![r] = o]
              /\ members' = [members EXCEPT ![o] = {}]
  BY DEF JoinCreate
<1>2. /\ pc[c] = "join_create" /\ pc'[c] = "join_insert"
      /\ arg'[c] = [arg[c] EXCEPT !.obj = o]
      /\ \A d \in Conns \ {c} : pc'[d] = pc[d] /\ arg'[d] = arg[d]
  BY <1>1, OwnStep
<1>3. arg[c] \in Args /\ r \in Rooms
  BY <1>2, ControlType DEF Base, ArgInv, Joining, Threads
<1>4. arg'[c].room = r /\ arg'[c].obj = o
  BY <1>2, <1>3 DEF Args
<1>5. rooms'[r] = o /\ \A s \in Rooms \ {r} : rooms'[s] = rooms[s]
  BY <1>1, <1>3 DEF Base, TypeOK
<1>6. Operation(c)' = Operation(c)
  BY <1>2, <1>4, <1>5, OperationAt, OperationNext
<1>7. ASSUME NEW d \in Conns \ {c}
      PROVE  Operation(d)' = Operation(d)
  <2>1. CASE pc[d] # "join_insert"
    BY <1>2, <2>1 DEF Operation
  <2>2. CASE pc[d] = "join_insert"
    <3>1. arg[d].room \in Rooms /\ arg[d].obj \in Objs
      BY <2>2 DEF Base, ArgInv, Joining, Threads
    <3>2. rooms'[arg[d].room] = arg[d].obj <=> rooms[arg[d].room] = arg[d].obj
      BY <1>1, <1>5, <3>1, NoneAssumption DEF FreeObjs, Threads
    <3> QED
      BY <1>2, <2>2, <3>2, OperationAt, OperationNext
  <2> QED
    BY <2>1, <2>2
<1>8. Doing' = Doing
  BY <1>2, <1>4, <1>6, <1>7 DEF Doing
<1> QED
  BY <1>8, JoinCreateOwn DEF Silent

\* The clean-up of a room ends no membership; if it removes the room, the
\* room is empty and the joins that hold its object are lost.
LEMMA CleanUpPromise ==
    ASSUME Own, NEW c \in Conns, NEW r \in Rooms, NEW from, NEW to,
           RemoveIfEmpty(r), UNCHANGED <<members, connections>>,
           \A d \in Conns \ {c} : pc'[d] = pc[d] /\ arg'[d] = arg[d],
           Doing[c] = from, Doing'[c] = to,
           pc[c] # "join_insert"
    PROVE  Promise!CleanUp(c, r, from, to)
<1> USE DEF Own
<1> DEFINE Joiners == {d \in Conns : Doing[d] = Promise!Call("joining", r)}
           Lost    == {d \in Joiners : d # c /\ Doing'[d] # Doing[d]}
<1>1. Visited' = Visited
  BY PruneSilent, SilentVisited DEF Base
<1>2. ASSUME NEW d \in Conns \ {c}, Doing'[d] # Doing[d]
      PROVE  /\ Doing[d] = Promise!Call("joining", r)
             /\ Doing'[d] = Promise!Call("orphaned", r)
             /\ rooms[r] # None /\ members[rooms[r]] = {}
  <2>1. Operation(d)' # Operation(d)
    BY <1>2 DEF Doing
  <2>2. pc[d] = "join_insert" /\ rooms' # rooms
    BY <2>1 DEF Operation
  <2>3. arg[d].room \in Rooms /\ arg[d].obj \in Objs
    BY <2>2 DEF Base, ArgInv, Joining, Threads
  <2>4. /\ rooms[r] # None /\ members[rooms[r]] = {}
        /\ rooms' = [rooms EXCEPT ![r] = None]
    BY <2>2 DEF RemoveIfEmpty
  <2>5. arg[d].room = r /\ rooms[r] = arg[d].obj /\ rooms'[r] = None
    <3>1. ~(rooms'[arg[d].room] = arg[d].obj <=> rooms[arg[d].room] = arg[d].obj)
      BY <2>1, <2>2, OperationAt, OperationNext
    <3> QED
      BY <2>3, <2>4, <3>1, NoneAssumption DEF Base, TypeOK
  <2>6. Operation(d) = "joining" /\ Operation(d)' = "orphaned"
    BY <2>2, <2>3, <2>5, NoneAssumption, OperationAt, OperationNext
  <2> QED
    BY <2>4, <2>5, <2>6 DEF Doing, Promise!Call
<1>3. Lost \in SUBSET Joiners
  OBVIOUS
<1>4. Lost # {} => \A d \in Conns : <<d, r>> \notin Visited
  BY <1>2 DEF Visited, Mapped
<1>5. Doing' = [d \in Conns |-> IF d = c THEN to
                               ELSE IF d \in Lost THEN Promise!Call("orphaned", r)
                               ELSE Doing[d]]
  <2>1. \A d \in Conns \ {c} :
          Doing'[d] = IF d \in Lost THEN Promise!Call("orphaned", r) ELSE Doing[d]
    BY <1>2
  <2> HIDE DEF Lost
  <2> QED
    BY <2>1 DEF Doing
<1> HIDE DEF Lost
<1> QED
  BY <1>1, <1>3, <1>4, <1>5 DEF Promise!CleanUp

\* The ends of leave_room and of a pass of unregister_connection's loop.
LEMMA PrunePromise ==
    ASSUME Own, NEW c \in Conns, LeavePrune(c) \/ UnregisterPrune(c)
    PROVE  \E r \in Rooms : Promise!LeaveEnd(c, r) \/ Promise!UnregisterNext(c, r)
<1>1. CASE LeavePrune(c)
  <2>1. /\ pc[c] = "leave_prune" /\ pc'[c] = "idle" /\ arg'[c] = NoArg
        /\ \A d \in Conns \ {c} : pc'[d] = pc[d] /\ arg'[d] = arg[d]
    BY <1>1, OwnStep DEF LeavePrune, Return, Own
  <2>2. arg[c].room \in Rooms /\ arg'[c].room = None
    BY <2>1 DEF Own, Base, ArgInv, Leaving, Threads, NoArg
  <2>3. Operation(c) = "leaving" /\ Operation(c)' = "idle"
    BY <2>1, OperationAt, OperationNext DEF Leaving
  <2>4. /\ Doing[c] = Promise!Call("leaving", arg[c].room)
        /\ Doing'[c] = Promise!Free
    BY <2>2, <2>3 DEF Doing, Promise!Call, Promise!Free
  <2>5. Promise!CleanUp(c, arg[c].room, Promise!Call("leaving", arg[c].room), Promise!Free)
    BY <1>1, <2>1, <2>2, <2>4, CleanUpPromise DEF LeavePrune
  <2> QED
    BY <2>2, <2>5 DEF Promise!LeaveEnd
<1>2. CASE UnregisterPrune(c)
  <2>1. /\ pc[c] = "unreg_prune" /\ pc'[c] = "unreg_leave"
        /\ arg'[c] = [arg[c] EXCEPT !.room = None]
        /\ \A d \in Conns \ {c} : pc'[d] = pc[d] /\ arg'[d] = arg[d]
    BY <1>2, OwnStep DEF UnregisterPrune, Own
  <2>2. arg[c] \in Args /\ arg[c].room \in Rooms
    BY <2>1, ControlType DEF Own, Base, ArgInv, Threads
  <2>3. arg'[c].room = None
    BY <2>1, <2>2 DEF Args
  <2>4. Operation(c) = "unregistering" /\ Operation(c)' = "unregistering"
    BY <2>1, OperationAt, OperationNext DEF Ending
  <2>5. /\ Doing[c] = Promise!Call("unregistering", arg[c].room)
        /\ Doing'[c] = Promise!Call("unregistering", None)
    BY <2>3, <2>4 DEF Doing, Promise!Call
  <2>6. Promise!CleanUp(c, arg[c].room, Promise!Call("unregistering", arg[c].room),
                        Promise!Call("unregistering", None))
    BY <1>2, <2>1, <2>2, <2>5, CleanUpPromise DEF UnregisterPrune
  <2> QED
    BY <2>2, <2>6 DEF Promise!UnregisterNext
<1> QED
  BY <1>1, <1>2

\* Every step maps to a step of the promise or to a stutter.
LEMMA PromiseStep ==
    ASSUME Admins = {}, Own, [Next]_vars
    PROVE  [Promise!Next]_<<connections, Visited, Doing>>
<1>1. ASSUME NEW c \in Conns, Acts(c)
      PROVE  Promise!Next \/ UNCHANGED <<connections, Visited, Doing>>
  <2>1. CASE RegisterIndex(c) \/ LeaveIndex(c) \/ JoinCreate(c)
    BY <2>1, IndexUnseen, CreateUnseen
  <2>2. CASE Register(c) \/ UnregisterTake(c) \/ UnregisterDone(c)
    BY <2>2, RegisterPromise, UnregisterTakePromise, UnregisterDonePromise
    DEF Promise!Next
  <2>3. CASE \E r \in Rooms : JoinCheck(c, c, r) \/ LeaveMember(c, c, r)
    BY <2>3, JoinBeginPromise, LeavePromise DEF Promise!Next
  <2>4. CASE JoinInsert(c) \/ JoinIndex(c) \/ UnregisterLeave(c)
    BY <2>4, JoinInsertPromise, JoinEndPromise, UnregisterLeavePromise
    DEF Promise!Next
  <2>5. CASE LeavePrune(c) \/ UnregisterPrune(c)
    BY <2>5, PrunePromise DEF Promise!Next
  <2> QED
    BY <1>1, <2>1, <2>2, <2>3, <2>4, <2>5 DEF Acts
<1>2. CASE UNCHANGED vars
  BY <1>2 DEF vars, maps, Visited, Mapped, Doing, Operation
<1> QED
  BY <1>1, <1>2, OwnActs

\* The map accesses implement Membership when every call on a connection is
\* its own task's: a membership ends only by that task's own leave or
\* unregistration, no clean-up costs one, a join is lost only to a clean-up
\* of the empty room, and a connection is in no room once unregistered.
THEOREM PromiseKept ==
    ASSUME Admins = {}
    PROVE  Spec => Membership
<1>1. ASSUME Init
      PROVE  Own /\ Promise!Init
  <2>1. \A c \in Conns : pc[c] = "new" /\ arg[c].room = None
    BY <1>1 DEF Init, Threads, NoArg
  <2>2. \A c \in Conns : Operation(c) = "idle"
    BY <2>1, OperationAt
  <2>3. Doing = [c \in Conns |-> Promise!Free]
    BY <2>1, <2>2 DEF Doing, Promise!Free, Promise!Call
  <2>4. connections = {} /\ Visited = {}
    BY <1>1 DEF Init, Visited, Mapped
  <2> QED
    BY <1>1, <2>3, <2>4, OwnInit DEF Promise!Init
<1>2. Own /\ [Next]_vars => Own' /\ [Promise!Next]_<<connections, Visited, Doing>>
  BY OwnNext, PromiseStep
<1> QED
  BY <1>1, <1>2, PTL DEF Spec, Membership, Promise!Spec

-----------------------------------------------------------------------------
(* Empty rooms and ended memberships, whatever the admins do.              *)

\* No two room ids share an object.
Unshared == \A r, s \in Rooms : rooms[r] = rooms[s] /\ rooms[r] # None => r = s

\* Thread t is about to put a member into room r, or to look whether it is
\* empty.
Cleaning == Leaving \cup {"unreg_prune"}
Tends(t, r) ==
    \/ pc[t] = "join_insert" /\ arg[t].obj = rooms[r]
    \/ pc[t] \in Cleaning /\ arg[t].room = r

\* No empty room is left to itself.
Tended == \A r \in Rooms :
    rooms[r] # None /\ members[rooms[r]] = {} => \E t \in Threads : Tends(t, r)

Kept == Base /\ Unshared /\ Tended

\* The memberships that a step ends are ended by a call that may.
Accounted == \A p \in Visited \ Visited' : \E t \in Threads : Ends(t, p[1], p[2])

\* What Step says, for any thread.
LEMMA ThreadStep ==
    ASSUME TypeOK, NEW t \in Threads, NEW from, NEW p, NEW a, Step(t, from, p, a)
    PROVE  /\ pc[t] = from /\ pc'[t] = p /\ arg'[t] = a
           /\ \A u \in Threads \ {t} : pc'[u] = pc[u] /\ arg'[u] = arg[u]
BY ControlType DEF Step

\* Only a membership somebody had can end.
LEMMA AccountedFor ==
    ASSUME \A c \in Conns, r \in Rooms :
             Mapped(c, r) /\ ~Mapped(c, r)' => \E t \in Threads : Ends(t, c, r)
    PROVE  Accounted
BY DEF Accounted, Visited

\* A step that leaves rooms and members alone, of a thread no empty room
\* waits for, or waits for still.
LEMMA AsideKept ==
    ASSUME Kept, NEW t \in Threads, UNCHANGED <<rooms, members>>,
           \A u \in Threads \ {t} : pc'[u] = pc[u] /\ arg'[u] = arg[u],
           \/ pc[t] \notin {"join_insert"} \cup Cleaning
           \/ {pc[t], pc'[t]} \subseteq Cleaning /\ arg'[t].room = arg[t].room
    PROVE  Unshared' /\ Tended' /\ Accounted
<1>1. Unshared'
  BY DEF Kept, Unshared
<1>2. \A u \in Threads, r \in Rooms : Tends(u, r) => Tends(u, r)'
  BY DEF Tends, Cleaning, Leaving
<1>3. Tended'
  BY <1>2 DEF Kept, Tended
<1>4. Accounted
  BY AccountedFor DEF Mapped
<1> QED
  BY <1>1, <1>3, <1>4

\* Leaving a room, by leave_room or in the loop of unregister_connection: if
\* that empties it, the same thread looks at it next.
LEMMA LeavingKept ==
    ASSUME Kept, NEW t \in Threads, NEW c \in Conns, NEW r \in Rooms,
           LeaveMembers(c, r), UNCHANGED rooms,
           \A u \in Threads \ {t} : pc'[u] = pc[u] /\ arg'[u] = arg[u],
           pc[t] \notin {"join_insert"} \cup Cleaning, pc'[t] \in Cleaning,
           arg'[t].room = r, Ends(t, c, r)
    PROVE  Unshared' /\ Tended' /\ Accounted
<1> USE DEF Kept
<1>1. Unshared'
  BY DEF Unshared
<1>2. ASSUME NEW s \in Rooms \ {r}, rooms[s] # None
      PROVE  members'[rooms[s]] = members[rooms[s]]
  BY <1>2 DEF LeaveMembers, Unshared, Base, TypeOK
<1>3. \A u \in Threads, s \in Rooms : Tends(u, s) => Tends(u, s)'
  BY DEF Tends
<1>4. Tends(t, r)'
  BY DEF Tends
<1>5. Tended'
  BY <1>2, <1>3, <1>4 DEF Tended
<1>6. ASSUME NEW d \in Conns, NEW s \in Rooms, Mapped(d, s), ~Mapped(d, s)'
      PROVE  d = c /\ s = r
  <2>1. s = r
    BY <1>2, <1>6 DEF Mapped
  <2>2. members'[rooms[r]] = members[rooms[r]] \ {c}
    BY <1>6, <2>1 DEF Mapped, LeaveMembers, Base, TypeOK
  <2> QED
    BY <1>6, <2>1, <2>2 DEF Mapped
<1>7. Accounted
  BY <1>6, AccountedFor
<1> QED
  BY <1>1, <1>5, <1>7

\* Looking whether a room is empty, and removing it if so.
LEMMA PruneKept ==
    ASSUME Kept, NEW t \in Threads, NEW r \in Rooms,
           RemoveIfEmpty(r), UNCHANGED members,
           \A u \in Threads \ {t} : pc'[u] = pc[u] /\ arg'[u] = arg[u],
           pc[t] \in Cleaning, arg[t].room = r
    PROVE  Unshared' /\ Tended' /\ Accounted
<1> USE DEF Kept
<1>1. \A s \in Rooms \ {r} : rooms'[s] = rooms[s]
  BY DEF RemoveIfEmpty, Base, TypeOK
<1>2. rooms'[r] = None \/ (rooms'[r] = rooms[r] /\ members[rooms[r]] # {})
  <2>1. CASE rooms[r] # None /\ members[rooms[r]] = {}
    BY <2>1 DEF RemoveIfEmpty, Base, TypeOK
  <2>2. CASE ~(rooms[r] # None /\ members[rooms[r]] = {})
    <3>1. rooms' = rooms
      BY <2>2 DEF RemoveIfEmpty
    <3> QED
      BY <2>2, <3>1
  <2> QED
    BY <2>1, <2>2
<1>3. Unshared'
  BY <1>1, <1>2 DEF Unshared
<1>4. ASSUME NEW s \in Rooms, rooms'[s] # None, members[rooms'[s]] = {}
      PROVE  \E u \in Threads : Tends(u, s)'
  <2>1. s # r
    BY <1>2, <1>4
  <2>2. rooms'[s] = rooms[s]
    BY <1>1, <2>1
  <2>3. PICK u \in Threads : Tends(u, s)
    BY <1>4, <2>2 DEF Tended
  <2>4. u # t
    BY <2>1, <2>3 DEF Tends, Cleaning, Leaving
  <2> QED
    BY <2>2, <2>3, <2>4 DEF Tends
<1>5. Tended'
  BY <1>4 DEF Tended
<1>6. Accounted
  BY PruneSilent, AccountedFor DEF Base
<1> QED
  BY <1>3, <1>5, <1>6

\* create_room: the object is that of the room, or one nobody else has, and
\* the thread is about to put a member into it.
LEMMA CreateKept ==
    ASSUME Kept, NEW t \in Threads, JoinCreate(t)
    PROVE  Unshared' /\ Tended' /\ Accounted
<1> USE DEF Kept
<1> DEFINE r == arg[t].room
<1>1. PICK o \in Objs :
        /\ Step(t, "join_create", "join_insert", [arg[t] EXCEPT !.obj = o])
        /\ \/ o = rooms[r] /\ UNCHANGED <<rooms, members>>
           \/ /\ rooms[r] = None /\ o \in FreeObjs
              /\ rooms' = [rooms EXCEPT ![r] = o]
              /\ members' = [members EXCEPT ![o] = {}]
  BY DEF JoinCreate
<1>2. /\ pc[t] = "join_create" /\ pc'[t] = "join_insert"
      /\ arg'[t] = [arg[t] EXCEPT !.obj = o]
      /\ \A u \in Threads \ {t} : pc'[u] = pc[u] /\ arg'[u] = arg[u]
  BY <1>1, ThreadStep DEF Base
<1>3. CASE o = rooms[r] /\ UNCHANGED <<rooms, members>>
  BY <1>2, <1>3, AsideKept DEF Cleaning, Leaving
<1>4. CASE /\ rooms[r] = None /\ o \in FreeObjs
           /\ rooms' = [rooms EXCEPT ![r] = o]
           /\ members' = [members EXCEPT ![o] = {}]
  <2>1. r \in Rooms /\ arg'[t].obj = o /\ o # None
    BY <1>2, ControlType, NoneAssumption DEF Base, ArgInv, Joining, Args
  <2>2. \A s \in Rooms : rooms[s] # o
    BY <1>4 DEF FreeObjs
  <2>3. rooms'[r] = o /\ \A s \in Rooms \ {r} : rooms'[s] = rooms[s]
    BY <1>4, <2>1 DEF Base, TypeOK
  <2>4. \A s \in Rooms \ {r} : rooms[s] # None => members'[rooms[s]] = members[rooms[s]]
    BY <1>4, <2>2 DEF Base, TypeOK
  <2>5. Unshared'
    BY <2>2, <2>3 DEF Unshared
  <2>6. ASSUME NEW s \in Rooms, rooms'[s] # None, members'[rooms'[s]] = {}
        PROVE  \E u \in Threads : Tends(u, s)'
    <3>1. CASE s = r
      BY <1>2, <2>1, <2>3, <3>1 DEF Tends
    <3>2. CASE s # r
      <4>1. rooms[s] # None /\ members[rooms[s]] = {} /\ rooms'[s] = rooms[s]
        BY <2>3, <2>4, <2>6, <3>2
      <4>2. PICK u \in Threads : Tends(u, s)
        BY <4>1 DEF Tended
      <4>3. u # t
        BY <1>2, <4>2 DEF Tends, Cleaning, Leaving
      <4> QED
        BY <1>2, <4>1, <4>2, <4>3 DEF Tends
    <3> QED
      BY <3>1, <3>2
  <2>7. Tended'
    BY <2>6 DEF Tended
  <2>8. \A c \in Conns, s \in Rooms : Mapped(c, s) => Mapped(c, s)'
    BY <1>4, <2>3, <2>4 DEF Mapped
  <2>9. Accounted
    BY <2>8, AccountedFor
  <2> QED
    BY <2>5, <2>7, <2>9
<1> QED
  BY <1>1, <1>3, <1>4

\* room.join: the object has a member now.
LEMMA InsertKept ==
    ASSUME Kept, NEW t \in Threads, JoinInsert(t)
    PROVE  Unshared' /\ Tended' /\ Accounted
<1> USE DEF Kept
<1> DEFINE o == arg[t].obj
<1>1. /\ pc[t] = "join_insert" /\ UNCHANGED rooms
      /\ \A u \in Threads \ {t} : pc'[u] = pc[u] /\ arg'[u] = arg[u]
  BY ThreadStep DEF JoinInsert, Base
<1>2. o \in Objs /\ arg[t].conn \in Conns
  BY <1>1 DEF Base, ArgInv, Joining
<1>3. /\ members'[o] # {}
      /\ \A q \in Objs : members[q] \subseteq members'[q]
      /\ \A q \in Objs \ {o} : members'[q] = members[q]
  BY <1>2 DEF JoinInsert, Base, TypeOK
<1>4. Unshared'
  BY <1>1 DEF Unshared
<1>5. ASSUME NEW s \in Rooms, rooms[s] # None, members'[rooms[s]] = {}
      PROVE  \E u \in Threads : Tends(u, s)'
  <2>1. rooms[s] \in Objs /\ rooms[s] # o
    BY <1>3, <1>5 DEF Base, TypeOK
  <2>2. members[rooms[s]] = {}
    BY <1>3, <1>5, <2>1
  <2>3. PICK u \in Threads : Tends(u, s)
    BY <1>5, <2>2 DEF Tended
  <2>4. u # t
    BY <1>1, <2>1, <2>3 DEF Tends, Cleaning, Leaving
  <2> QED
    BY <1>1, <2>3, <2>4 DEF Tends
<1>6. Tended'
  BY <1>1, <1>5 DEF Tended
<1>7. \A c \in Conns, s \in Rooms : Mapped(c, s) => Mapped(c, s)'
  BY <1>1, <1>3 DEF Mapped, Base, TypeOK
<1>8. Accounted
  BY <1>7, AccountedFor
<1> QED
  BY <1>4, <1>6, <1>8

\* rooms.remove: the memberships of this room end, and no other.
LEMMA DeleteTakeKept ==
    ASSUME Kept, NEW t \in Threads, NEW r \in Rooms, DeleteTake(t, r)
    PROVE  Unshared' /\ Tended' /\ Accounted
<1> USE DEF Kept
<1>1. /\ pc[t] = "idle" /\ pc'[t] = "delete_scan"
      /\ arg'[t] = [NoArg EXCEPT !.room = r, !.obj = rooms[r], !.todo = Conns]
      /\ \A u \in Threads \ {t} : pc'[u] = pc[u] /\ arg'[u] = arg[u]
  BY ThreadStep DEF DeleteTake, Base
<1>2. arg'[t].room = r
  BY <1>1 DEF NoArg
<1>3. /\ UNCHANGED members /\ rooms'[r] = None
      /\ \A s \in Rooms \ {r} : rooms'[s] = rooms[s]
  BY DEF DeleteTake, Base, TypeOK
<1>4. Unshared'
  BY <1>3 DEF Unshared
<1>5. ASSUME NEW s \in Rooms, rooms'[s] # None, members[rooms'[s]] = {}
      PROVE  \E u \in Threads : Tends(u, s)'
  <2>1. rooms'[s] = rooms[s]
    BY <1>3, <1>5
  <2>2. PICK u \in Threads : Tends(u, s)
    BY <1>5, <2>1 DEF Tended
  <2>3. u # t
    BY <1>1, <2>2 DEF Tends, Cleaning, Leaving
  <2> QED
    BY <1>1, <2>1, <2>2, <2>3 DEF Tends
<1>6. Tended'
  BY <1>3, <1>5 DEF Tended
<1>7. ASSUME NEW c \in Conns, NEW s \in Rooms, Mapped(c, s), ~Mapped(c, s)'
      PROVE  Ends(t, c, s)
  <2>1. s = r
    BY <1>3, <1>7 DEF Mapped
  <2> QED
    BY <1>1, <1>2, <2>1 DEF Ends
<1>8. Accounted
  BY <1>7, AccountedFor
<1> QED
  BY <1>4, <1>6, <1>8

\* Every step keeps empty rooms tended and ends no membership unaccounted for.
LEMMA KeptStep ==
    ASSUME Kept, [Next]_vars
    PROVE  Kept' /\ Accounted
<1> USE DEF Cleaning, Leaving
<1>1. Base'
  BY BaseStep DEF Kept
<1>2. TypeOK
  BY DEF Kept, Base
<1>3. ASSUME NEW t \in Threads, Begin(t)
      PROVE  Unshared' /\ Tended' /\ Accounted
  <2>1. ASSUME NEW c \in Conns, NEW r \in Rooms, JoinCheck(t, c, r)
        PROVE  Unshared' /\ Tended' /\ Accounted
    <3>1. /\ pc[t] = "idle" /\ UNCHANGED <<rooms, members>>
          /\ \A u \in Threads \ {t} : pc'[u] = pc[u] /\ arg'[u] = arg[u]
      BY <1>2, <2>1, ThreadStep DEF JoinCheck, maps
    <3> QED
      BY <3>1, AsideKept
  <2>2. ASSUME NEW c \in Conns, NEW r \in Rooms, LeaveMember(t, c, r)
        PROVE  Unshared' /\ Tended' /\ Accounted
    <3>1. /\ pc[t] = "idle" /\ pc'[t] = "leave_index"
          /\ arg'[t] = [NoArg EXCEPT !.conn = c, !.room = r]
          /\ \A u \in Threads \ {t} : pc'[u] = pc[u] /\ arg'[u] = arg[u]
      BY <1>2, <2>2, ThreadStep DEF LeaveMember
    <3>2. arg'[t].conn = c /\ arg'[t].room = r
      BY <3>1 DEF NoArg
    <3>3. Ends(t, c, r) /\ LeaveMembers(c, r) /\ UNCHANGED rooms
      BY <2>2, <3>1, <3>2 DEF Ends, LeaveMember
    <3> QED
      BY <3>1, <3>2, <3>3, LeavingKept
  <2> QED
    BY <1>3, <2>1, <2>2, DeleteTakeKept DEF Begin
<1>4. ASSUME NEW t \in Threads, Continue(t)
      PROVE  Unshared' /\ Tended' /\ Accounted
  <2>1. CASE JoinIndex(t)
    <3>1. /\ pc[t] = "join_index" /\ UNCHANGED <<rooms, members>>
          /\ \A u \in Threads \ {t} : pc'[u] = pc[u] /\ arg'[u] = arg[u]
      BY <1>2, <2>1, ThreadStep DEF JoinIndex, Return
    <3> QED
      BY <3>1, AsideKept
  <2>2. CASE LeaveIndex(t)
    <3>1. /\ pc[t] = "leave_index" /\ pc'[t] = "leave_prune" /\ arg'[t] = arg[t]
          /\ UNCHANGED <<rooms, members>>
          /\ \A u \in Threads \ {t} : pc'[u] = pc[u] /\ arg'[u] = arg[u]
      BY <1>2, <2>2, ThreadStep DEF LeaveIndex
    <3> QED
      BY <3>1, AsideKept
  <2>3. CASE LeavePrune(t)
    <3>1. /\ pc[t] = "leave_prune" /\ arg[t].room \in Rooms
          /\ \A u \in Threads \ {t} : pc'[u] = pc[u] /\ arg'[u] = arg[u]
      BY <1>2, <2>3, ThreadStep DEF LeavePrune, Return, Kept, Base, ArgInv
    <3>2. RemoveIfEmpty(arg[t].room) /\ UNCHANGED members
      BY <2>3 DEF LeavePrune
    <3> QED
      BY <3>1, <3>2, PruneKept
  <2>4. CASE DeleteScan(t)
    <3>1. /\ pc[t] = "delete_scan" /\ UNCHANGED <<rooms, members>>
          /\ \A u \in Threads \ {t} : pc'[u] = pc[u] /\ arg'[u] = arg[u]
      BY <1>2, <2>4, ThreadStep DEF DeleteScan, maps
    <3> QED
      BY <3>1, AsideKept
  <2>5. CASE DeleteUnindex(t)
    <3>1. /\ pc[t] = "delete_unindex" /\ UNCHANGED <<rooms, members>>
          /\ \A u \in Threads \ {t} : pc'[u] = pc[u] /\ arg'[u] = arg[u]
      BY <1>2, <2>5, ThreadStep DEF DeleteUnindex, Return, maps
    <3> QED
      BY <3>1, AsideKept
  <2> QED
    BY <1>4, <2>1, <2>2, <2>3, <2>4, <2>5, CreateKept, InsertKept DEF Continue
<1>5. ASSUME NEW c \in Conns, Lifecycle(c)
      PROVE  Unshared' /\ Tended' /\ Accounted
  <2>0. c \in Threads
    BY DEF Threads
  <2>1. CASE Register(c) \/ RegisterIndex(c) \/ UnregisterTake(c) \/ UnregisterDone(c)
    <3>1. /\ pc[c] \in {"new", "reg_index", "idle", "unreg_leave"}
          /\ UNCHANGED <<rooms, members>>
          /\ \A u \in Threads \ {c} : pc'[u] = pc[u] /\ arg'[u] = arg[u]
      BY <1>2, <2>0, <2>1, ThreadStep
         DEF Register, RegisterIndex, UnregisterTake, UnregisterDone, Return
    <3> QED
      BY <2>0, <3>1, AsideKept
  <2>2. CASE UnregisterLeave(c)
    <3>1. PICK r \in arg[c].todo :
            /\ Step(c, "unreg_leave", "unreg_prune",
                    [arg[c] EXCEPT !.room = r, !.todo = @ \ {r}])
            /\ LeaveMembers(c, r) /\ UNCHANGED rooms
      BY <2>2 DEF UnregisterLeave
    <3>2. /\ pc[c] = "unreg_leave" /\ pc'[c] = "unreg_prune"
          /\ arg'[c] = [arg[c] EXCEPT !.room = r, !.todo = @ \ {r}]
          /\ \A u \in Threads \ {c} : pc'[u] = pc[u] /\ arg'[u] = arg[u]
      BY <1>2, <2>0, <3>1, ThreadStep
    <3>3. arg[c] \in Args /\ r \in Rooms
      BY <1>2, <2>0, <3>2, ControlType DEF Kept, Base, ArgInv, Ending
    <3>4. arg'[c].room = r
      BY <3>2, <3>3 DEF Args
    <3>5. Ends(c, c, r)
      BY <3>2, <3>4 DEF Ends
    <3> QED
      BY <2>0, <3>1, <3>2, <3>3, <3>4, <3>5, LeavingKept
  <2>3. CASE UnregisterPrune(c)
    <3>1. /\ pc[c] = "unreg_prune" /\ arg[c].room \in Rooms
          /\ \A u \in Threads \ {c} : pc'[u] = pc[u] /\ arg'[u] = arg[u]
      BY <1>2, <2>0, <2>3, ThreadStep DEF UnregisterPrune, Kept, Base, ArgInv
    <3>2. RemoveIfEmpty(arg[c].room) /\ UNCHANGED members
      BY <2>3 DEF UnregisterPrune
    <3> QED
      BY <2>0, <3>1, <3>2, PruneKept
  <2> QED
    BY <1>5, <2>1, <2>2, <2>3 DEF Lifecycle
<1>6. CASE UNCHANGED vars
  <2>1. UNCHANGED <<rooms, members, pc, arg>>
    BY <1>6 DEF vars, maps
  <2>2. Unshared' /\ Tended'
    BY <2>1 DEF Kept, Unshared, Tended, Tends
  <2>3. Accounted
    BY <2>1, AccountedFor DEF Mapped
  <2> QED
    BY <1>1, <2>2, <2>3 DEF Kept
<1> QED
  BY <1>1, <1>3, <1>4, <1>5, <1>6 DEF Next, Kept

\* Kept holds throughout: initially there is no room.
LEMMA KeptCorrect == Spec => []Kept
<1>1. Init => Kept
  BY BaseInit DEF Init, Kept, Unshared, Tended
<1>2. Kept /\ [Next]_vars => Kept'
  BY KeptStep
<1> QED
  BY <1>1, <1>2, PTL DEF Spec

\* Once every operation has returned no empty room is left, whatever the
\* admins delete or remove meanwhile.
THEOREM EmptyRoomsGo == Spec => []NoEmptyRoomLeak
<1>1. Kept => NoEmptyRoomLeak
  <2> SUFFICES ASSUME Kept, Quiet, NEW r \in Rooms,
                      rooms[r] # None, members[rooms[r]] = {}
               PROVE  FALSE
    BY DEF NoEmptyRoomLeak
  <2>1. PICK t \in Threads : Tends(t, r)
    BY DEF Kept, Tended
  <2> QED
    BY <2>1 DEF Tends, Cleaning, Leaving, Quiet, Idle
<1> QED
  BY KeptCorrect, <1>1, PTL

\* A membership ends only by a call that is to end it, whatever the admins do.
THEOREM LeaversCorrect == Spec => OnlyLeaversLeave
<1>1. Kept /\ [Next]_vars
        => [\A p \in Visited \ Visited' : \E t \in Threads : Ends(t, p[1], p[2])]_vars
  BY KeptStep DEF Accounted
<1> QED
  BY KeptCorrect, <1>1, PTL DEF Spec, OnlyLeaversLeave

=============================================================================
