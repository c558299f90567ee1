---------------------------- MODULE ServerProofs ----------------------------
(***************************************************************************)
(* The safety properties of Server, for any set of peers (an infinite one  *)
(* among them), any max_connections, any origin policy and any callbacks   *)
(* that panic.                                                             *)
(*                                                                         *)
(* TypeOK is not inductive: a slot given back must have been taken, or the *)
(* semaphore would grow beyond max_connections.                            *)
(***************************************************************************)
EXTENDS Server, FiniteSetTheorems, TLAPS

\* Every slot is free or held by one task.
SlotsInv == IsFiniteSet(Tasks) /\ SlotsExact

\* From the upgrade callback to the end of the task the principal is that of
\* the request: first in the handshake's own slot, then the connection's.
PrincipalInv == \A p \in Peers :
    /\ task[p] = "responding" => slot[p] = request[p].credentials /\ slot[p] # None
    /\ task[p] \in Serving =>
         principal[p] = request[p].credentials /\ principal[p] # None

\* A request that was let in names allowed origins only.
OriginsInv == \A p \in Peers :
    /\ task[p] \in {"responding"} \cup Serving => AllNamed(p)
    /\ task[p] = "refusing" =>
         \/ request[p].credentials = None
         \/ ~AllNamed(p) \/ Len(request[p].origins) > 1

Base == TypeOK /\ SlotsInv

-----------------------------------------------------------------------------
(* Slots.                                                                  *)

Progress(p) ==
    \/ Callback(p) \/ Upgraded(p) \/ OnConnect(p) \/ ServingOver(p) \/ Joined(p)
Ending(p) ==
    \/ CallbackPanics(p) \/ HandshakeOver(p) \/ OnDisconnect(p) \/ HandlerPanics(p)

\* The steps by what they do to a slot: nothing outside a task, taking one,
\* going on with it, giving it back.
LEMMA NextKinds ==
    Next <=> \E p \in Peers : \/ Arrive(p) \/ AcceptFull(p) \/ WriterEnds(p)
                              \/ AcceptFree(p) \/ Progress(p) \/ Ending(p)
BY DEF Next, Accept, Progress, Ending

\* What each kind of step does to the place of its task and to the slots.
LEMMA Outside ==
    ASSUME TypeOK, NEW p \in Peers, Arrive(p) \/ AcceptFull(p) \/ WriterEnds(p)
    PROVE  Tasks' = Tasks /\ permits' = permits
BY DEF TypeOK, Arrive, AcceptFull, WriterEnds, Goto, Tasks, Handshaking, Serving

\* accept takes a permit for a task that begins.
LEMMA Begins ==
    ASSUME TypeOK, NEW p \in Peers, AcceptFree(p)
    PROVE  /\ p \notin Tasks /\ Tasks' = Tasks \cup {p}
           /\ permits > 0 /\ permits' = permits - 1
BY DEF TypeOK, AcceptFree, Goto, Tasks, Handshaking, Serving

\* A task that goes on keeps its permit.
LEMMA GoesOn ==
    ASSUME TypeOK, NEW p \in Peers, Progress(p)
    PROVE  Tasks' = Tasks /\ permits' = permits
BY DEF TypeOK, Progress, Callback, Upgraded, OnConnect, ServingOver, ServingEnds, Joined,
       Goto, Tasks, Handshaking, Serving

\* A task that ends, by panic or not, gives its permit back.
LEMMA Ends ==
    ASSUME TypeOK, NEW p \in Peers, Ending(p)
    PROVE  p \in Tasks /\ Tasks' = Tasks \ {p} /\ permits' = permits + 1
BY DEF TypeOK, Ending, CallbackPanics, HandshakeOver, HandshakeEnds, OnDisconnect, HandlerPanics,
       Die, End, Drop, Goto, Tasks, Handshaking, Serving

\* Slots taken and tasks add up: a slot is taken with the task that holds
\* it, and given back however that task ends.
LEMMA SlotsStep ==
    ASSUME Base, Next
    PROVE  SlotsInv' /\ permits' \in 0..MaxConnections
<1> USE SlotsAssumption DEF Base, SlotsInv, SlotsExact
<1>1. PICK p \in Peers : \/ Arrive(p) \/ AcceptFull(p) \/ WriterEnds(p)
                         \/ AcceptFree(p) \/ Progress(p) \/ Ending(p)
  BY NextKinds
<1>2. IsFiniteSet(Tasks) /\ Cardinality(Tasks) \in Nat /\ permits \in 0..MaxConnections
  BY FS_CardinalityType DEF TypeOK
<1>3. CASE Arrive(p) \/ AcceptFull(p) \/ WriterEnds(p) \/ Progress(p)
  BY <1>2, <1>3, Outside, GoesOn
<1>4. CASE AcceptFree(p)
  <2>1. /\ p \notin Tasks /\ Tasks' = Tasks \cup {p}
        /\ permits > 0 /\ permits' = permits - 1
    BY <1>4, Begins
  <2>2. IsFiniteSet(Tasks') /\ Cardinality(Tasks') = Cardinality(Tasks) + 1
    BY <1>2, <2>1, FS_AddElement
  <2> QED
    BY <1>2, <2>1, <2>2
<1>5. CASE Ending(p)
  <2>1. p \in Tasks /\ Tasks' = Tasks \ {p} /\ permits' = permits + 1
    BY <1>5, Ends
  <2>2. IsFiniteSet(Tasks') /\ Cardinality(Tasks') = Cardinality(Tasks) - 1
    BY <1>2, <2>1, FS_RemoveElement
  <2>3. Cardinality(Tasks') \in Nat
    BY <2>2, FS_CardinalityType
  <2> QED
    BY <1>2, <2>1, <2>2, <2>3
<1> QED
  BY <1>1, <1>3, <1>4, <1>5

-----------------------------------------------------------------------------
(* Types.                                                                  *)

\* Every step keeps the types.
LEMMA TypesStep ==
    ASSUME Base, Next
    PROVE  TypeOK'
<1>1. permits' \in 0..MaxConnections
  BY SlotsStep
<1>2. PICK p \in Peers : \/ Arrive(p) \/ AcceptFull(p) \/ WriterEnds(p)
                         \/ AcceptFree(p) \/ Progress(p) \/ Ending(p)
  BY NextKinds
<1> USE <1>1 DEF Base, TypeOK, Goto, Handshaking, Serving
<1>3. CASE Arrive(p) \/ AcceptFull(p) \/ AcceptFree(p)
  BY <1>3 DEF Arrive, AcceptFull, AcceptFree
<1>4. CASE WriterEnds(p)
  BY <1>4 DEF WriterEnds
<1>5. CASE Callback(p)
  BY <1>5 DEF Callback, Requests, SlotOf
<1>6. CASE Upgraded(p)
  BY <1>6 DEF Upgraded, SlotOf
<1>7. CASE OnConnect(p) \/ ServingOver(p) \/ Joined(p)
  BY <1>7 DEF OnConnect, ServingOver, ServingEnds, Joined
<1>8. CASE Ending(p)
  <2>1. NoRequest \in Requests
    BY OriginsAssumption DEF NoRequest, Requests
  <2>2. Drop(p) => /\ task' \in [Peers -> {"away", "arrived"} \cup Handshaking \cup Serving]
                   /\ request' \in [Peers -> Requests]
                   /\ slot' \in [Peers -> Principals \cup {None}]
                   /\ principal' \in [Peers -> Principals \cup {None}]
    BY <2>1 DEF Drop
  <2>3. Drop(p) /\ writer' = writer /\ registered' \subseteq Peers
    BY <1>8 DEF Ending, CallbackPanics, HandshakeOver, HandshakeEnds, OnDisconnect,
                HandlerPanics, Die, End
  <2> QED
    BY <2>2, <2>3
<1> QED
  BY <1>2, <1>3, <1>4, <1>5, <1>6, <1>7, <1>8 DEF Progress

\* Base holds throughout.
LEMMA BaseCorrect == Spec => []Base
<1> USE SlotsAssumption
<1>1. Init => Base
  <2> SUFFICES ASSUME Init PROVE Base
    OBVIOUS
  <2>1. Tasks = {}
    BY DEF Init, Tasks, Handshaking, Serving
  <2>2. SlotsInv
    BY <2>1, FS_EmptySet DEF Init, SlotsInv, SlotsExact
  <2>3. NoRequest \in Requests
    BY OriginsAssumption DEF NoRequest, Requests
  <2> QED
    BY <2>2, <2>3 DEF Init, Base, TypeOK
<1>2. Base /\ [Next]_vars => Base'
  <2>1. Base /\ UNCHANGED vars => Base'
    BY DEF Base, TypeOK, SlotsInv, SlotsExact, Tasks, vars
  <2> QED
    BY <2>1, SlotsStep, TypesStep DEF Base
<1> QED
  BY <1>1, <1>2, PTL DEF Spec

\* Tasks, slots, principals and writers stay what they are, and no more than
\* max_connections slots are ever free.
THEOREM TypeCorrect == Spec => []TypeOK
<1>1. Base => TypeOK
  BY DEF Base
<1> QED
  BY BaseCorrect, <1>1, PTL

\* connection_slots: none is lost and none used twice, by refusals, timeouts
\* and panics neither.
THEOREM SlotsCorrect == Spec => []SlotsExact
<1>1. Base => SlotsExact
  BY DEF Base, SlotsInv
<1> QED
  BY BaseCorrect, <1>1, PTL

\* At most max_connections connection tasks run.
COROLLARY TasksBounded == Spec => [](Cardinality(Tasks) <= MaxConnections)
<1>1. Base => Cardinality(Tasks) <= MaxConnections
  BY SlotsAssumption, FS_CardinalityType DEF Base, TypeOK, SlotsInv, SlotsExact
<1> QED
  BY BaseCorrect, <1>1, PTL

-----------------------------------------------------------------------------
(* Who is served, and as whom.                                             *)

\* Normalising keeps the site and nothing else apart, so an allow list admits
\* exactly the spellings of its sites.
LEMMA CheckNames ==
    ASSUME NEW origins \in HeaderLists
    PROVE  /\ Check(Policy, origins) =>
                 \A i \in DOMAIN origins : Names(origins[i])
           /\ (\A i \in DOMAIN origins : Names(origins[i])) /\ Len(origins) <= 1
                 => Check(Policy, origins)
<1>1. /\ origins \in Seq(Origins \cup {Unreadable}) /\ Len(origins) \in Nat
      /\ DOMAIN origins = 1..Len(origins)
      /\ origins # <<>> => Head(origins) = origins[1] /\ Len(origins) # 0
  BY OriginsAssumption
<1>2. \A a, o \in Origins : Normalize(a) = Normalize(o) <=> a.site = o.site
  BY DEF Origins, Normalize
<1>3. ASSUME NEW o \in Origins \cup {Unreadable}
      PROVE  Allows(Policy, o) <=> Names(o)
  BY <1>2, OriginsAssumption DEF Allows, Names
<1>4. CASE origins = <<>>
  BY <1>4 DEF Check
<1>5. CASE origins # <<>>
  <2>1. Allows(Policy, Head(origins)) <=> Names(origins[1])
    BY <1>1, <1>3, <1>5
  <2> QED
    BY <1>1, <1>5, <2>1 DEF Check
<1> QED
  BY <1>4, <1>5

\* A step changes only what belongs to its own peer.
LEMMA OwnStep ==
    ASSUME TypeOK, NEW p \in Peers,
           \/ Arrive(p) \/ AcceptFull(p) \/ WriterEnds(p)
           \/ AcceptFree(p) \/ Progress(p) \/ Ending(p)
    PROVE  \A q \in Peers \ {p} :
             /\ task'[q] = task[q] /\ request'[q] = request[q]
             /\ slot'[q] = slot[q] /\ principal'[q] = principal[q]
<1> USE DEF TypeOK, Goto, SlotOf
<1>1. CASE Arrive(p) \/ AcceptFull(p) \/ WriterEnds(p) \/ AcceptFree(p)
  BY <1>1 DEF Arrive, AcceptFull, WriterEnds, AcceptFree
<1>2. CASE Progress(p)
  BY <1>2 DEF Progress, Callback, Upgraded, OnConnect, ServingOver, ServingEnds, Joined
<1>3. CASE Ending(p)
  BY <1>3 DEF Ending, CallbackPanics, HandshakeOver, HandshakeEnds, OnDisconnect,
              HandlerPanics, Die, End, Drop
<1> QED
  BY <1>1, <1>2, <1>3

\* The principal goes from the authorizer through the slot of its handshake
\* to the connection.
LEMMA AdmissionStep ==
    ASSUME TypeOK, PrincipalInv, OriginsInv, Next
    PROVE  PrincipalInv' /\ OriginsInv'
<1>1. PICK p \in Peers : \/ Arrive(p) \/ AcceptFull(p) \/ WriterEnds(p)
                         \/ AcceptFree(p) \/ Progress(p) \/ Ending(p)
  BY NextKinds
<1> DEFINE Principal(q) ==
             /\ task[q] = "responding" => slot[q] = request[q].credentials /\ slot[q] # None
             /\ task[q] \in Serving =>
                  principal[q] = request[q].credentials /\ principal[q] # None
           Origin(q) ==
             /\ task[q] \in {"responding"} \cup Serving => AllNamed(q)
             /\ task[q] = "refusing" =>
                  \/ request[q].credentials = None
                  \/ ~AllNamed(q) \/ Len(request[q].origins) > 1
<1>2. Principal(p) /\ Origin(p)
  BY DEF PrincipalInv, OriginsInv
<1>3. \A q \in Peers \ {p} : Principal(q)' /\ Origin(q)'
  BY <1>1, OwnStep DEF PrincipalInv, OriginsInv, AllNamed, Names
<1>4. Principal(p)' /\ Origin(p)'
  <2> USE DEF TypeOK, Goto, Serving, SlotOf
  <2>1. CASE task'[p] \in {"away", "arrived", "request"}
    BY <2>1
  <2>2. CASE Callback(p)
    <3>1. PICK r \in Requests :
            /\ request' = [request EXCEPT ![p] = r]
            /\ IF Check(Policy, r.origins) /\ r.credentials # None
                 THEN /\ slot' = [slot EXCEPT ![p] = r.credentials]
                      /\ task' = [task EXCEPT ![p] = "responding"]
                 ELSE task' = [task EXCEPT ![p] = "refusing"] /\ UNCHANGED slot
      BY <2>2 DEF Callback
    <3>2. request'[p] = r /\ r.origins \in HeaderLists
      BY <3>1 DEF Requests
    <3>3. /\ Check(Policy, r.origins) => AllNamed(p)'
          /\ AllNamed(p)' /\ Len(r.origins) <= 1 => Check(Policy, r.origins)
      BY <3>2, CheckNames DEF AllNamed, Names
    <3>4. Len(r.origins) \in Nat
      BY <3>2, OriginsAssumption
    <3> QED
      BY <3>1, <3>2, <3>3, <3>4
  <2>3. CASE Upgraded(p)
    BY <1>2, <2>3 DEF Upgraded, AllNamed, Names
  <2>4. CASE OnConnect(p) \/ ServingOver(p) \/ Joined(p) \/ WriterEnds(p)
    BY <1>2, <2>4 DEF OnConnect, ServingOver, ServingEnds, Joined, WriterEnds, AllNamed, Names
  <2>5. CASE Arrive(p) \/ AcceptFull(p) \/ AcceptFree(p) \/ Ending(p)
    BY <2>1, <2>5 DEF Arrive, AcceptFull, AcceptFree, Ending, CallbackPanics, HandshakeOver,
                      HandshakeEnds, OnDisconnect, HandlerPanics, Die, End, Drop
  <2> QED
    BY <1>1, <2>2, <2>3, <2>4, <2>5 DEF Progress
<1> QED
  BY <1>3, <1>4 DEF PrincipalInv, OriginsInv

\* PrincipalInv and OriginsInv hold throughout.
LEMMA AdmissionInvariants == Spec => [](PrincipalInv /\ OriginsInv)
<1>1. Init => PrincipalInv /\ OriginsInv
  BY DEF Init, PrincipalInv, OriginsInv, Serving
<1>2. TypeOK /\ (PrincipalInv /\ OriginsInv) /\ [Next]_vars => (PrincipalInv /\ OriginsInv)'
  <2>1. (PrincipalInv /\ OriginsInv) /\ UNCHANGED vars => (PrincipalInv /\ OriginsInv)'
    BY DEF PrincipalInv, OriginsInv, AllNamed, Names, vars
  <2> QED
    BY <2>1, AdmissionStep
<1> QED
  BY TypeCorrect, <1>1, <1>2, PTL DEF Spec

\* No connection is served without the principal the authorizer gave its own
\* request, however many handshakes overlap.
THEOREM AdmissionCorrect == Spec => []Admission
<1>1. PrincipalInv => Admission
  BY DEF PrincipalInv, Admission
<1> QED
  BY AdmissionInvariants, <1>1, PTL

\* OriginPolicy::check lets in the allowed sites in any spelling, and refuses
\* nobody else's request for its origin.
THEOREM OriginsCorrect == Spec => []OriginsEnforced
<1>1. OriginsInv => OriginsEnforced
  BY DEF OriginsInv, OriginsEnforced
<1> QED
  BY AdmissionInvariants, <1>1, PTL

=============================================================================
