------------------------------- MODULE Server -------------------------------
(***************************************************************************)
(* The server (src/src/server.rs): the accept loop with its connection     *)
(* slots, the upgrade handshake with the origin check and the authorizer,  *)
(* and the life of the connection tasks as far as the slots, the           *)
(* registrations and the writers are concerned.  What happens between      *)
(* on_connect and on_disconnect is module ServerConnection.                *)
(*                                                                         *)
(* A callback may panic.  The task is then gone with what it owned, the    *)
(* slot among it; what it would have done next is not done.                *)
(***************************************************************************)
EXTENDS OriginPolicy, FiniteSets

CONSTANTS
    Peers,           \* the TCP connections, each at most one at a time
    MaxConnections,  \* max_connections
    Policy,          \* origin_policy
    Principals,      \* what the authorizer may establish
    None,            \* no credentials, or no principal
    HeaderLists,     \* the sequences of Origin headers of the requests
    Panics           \* the callbacks that may panic

ASSUME SlotsAssumption == MaxConnections \in Nat \ {0}
ASSUME NoneAssumption == None \notin Principals
ASSUME OriginsAssumption ==
    /\ Policy = AnyOrigin \/ Policy \subseteq Origins
    /\ HeaderLists \subseteq Seq(Origins \cup {Unreadable}) /\ <<>> \in HeaderLists

VARIABLES
    task,       \* where the peer and its connection task stand
    permits,    \* connection_slots
    request,    \* the upgrade request
    slot,       \* the slot the upgrade callback fills
    principal,  \* the principal the connection is served under
    registered, \* the connections in room_manager
    writer      \* the writer tasks

vars == <<task, permits, request, slot, principal, registered, writer>>

Requests    == [origins : HeaderLists, credentials : Principals \cup {None}]
Handshaking == {"request", "responding", "refusing"}
Serving     == {"on_connect", "serving", "closing", "on_disconnect"}
Tasks       == {p \in Peers : task[p] \in Handshaking \cup Serving}

TypeOK ==
    /\ task \in [Peers -> {"away", "arrived"} \cup Handshaking \cup Serving]
    /\ permits \in 0..MaxConnections
    /\ request \in [Peers -> Requests]
    /\ slot \in [Peers -> Principals \cup {None}]
    /\ principal \in [Peers -> Principals \cup {None}]
    /\ registered \subseteq Peers
    /\ writer \in [Peers -> {"none", "running", "aborted"}]

NoRequest == [origins |-> <<>>, credentials |-> None]

Init ==
    /\ task = [p \in Peers |-> "away"]
    /\ permits = MaxConnections
    /\ request = [p \in Peers |-> NoRequest]
    /\ slot = [p \in Peers |-> None]
    /\ principal = [p \in Peers |-> None]
    /\ registered = {}
    /\ writer = [p \in Peers |-> "none"]

Goto(p, pc) == task' = [task EXCEPT ![p] = pc]

\* The task is over, by returning or by a panic: all it owned is dropped.
\* Mutant: a slot that is given back at the end of the code only.
Drop(p) ==
    /\ Goto(p, "away")
    /\ request' = [request EXCEPT ![p] = NoRequest]
    /\ slot' = [slot EXCEPT ![p] = None]
    /\ principal' = [principal EXCEPT ![p] = None]
End(p) == Drop(p) /\ permits' = permits + 1
DieHolding(p) == Drop(p) /\ UNCHANGED permits
Die(p) == End(p)

-----------------------------------------------------------------------------
(* serve: the accept loop.                                                 *)

Arrive(p) ==
    /\ task[p] = "away" /\ p \notin registered /\ writer[p] = "none"
    /\ Goto(p, "arrived")
    /\ UNCHANGED <<permits, request, slot, principal, registered, writer>>

\* A slot is taken and the task spawned; at capacity the socket is dropped.
\* Mutant: the loop waits for a slot.
AcceptFree(p) ==
    /\ task[p] = "arrived" /\ permits > 0
    /\ permits' = permits - 1
    /\ Goto(p, "request")
    /\ UNCHANGED <<request, slot, principal, registered, writer>>
AcceptFull(p) ==
    /\ task[p] = "arrived" /\ permits = 0
    /\ Goto(p, "away")
    /\ UNCHANGED <<permits, request, slot, principal, registered, writer>>
Accept(p) == AcceptFree(p) \/ AcceptFull(p)

-----------------------------------------------------------------------------
(* handshake                                                               *)

\* The slot belongs to the handshake.  Mutant: one for all of them.
SharedSlot(p) == CHOOSE q \in Peers : TRUE
SlotOf(p) == p

\* The upgrade callback: the origin check, then the authorizer.
Callback(p) ==
    \E r \in Requests :
        /\ task[p] = "request"
        /\ request' = [request EXCEPT ![p] = r]
        /\ IF Check(Policy, r.origins) /\ r.credentials # None
             THEN /\ slot' = [slot EXCEPT ![SlotOf(p)] = r.credentials]
                  /\ Goto(p, "responding")
             ELSE Goto(p, "refusing") /\ UNCHANGED slot
        /\ UNCHANGED <<permits, principal, registered, writer>>

CallbackPanics(p) ==
    /\ task[p] = "request" /\ "authorize" \in Panics
    /\ Die(p)
    /\ UNCHANGED <<registered, writer>>

\* The refusal is written, the handshake fails or finds the slot empty, or
\* handshake_timeout elapses.
\* Mutant: the timeout covers the request only.
HandshakeEnds(p, steps) ==
    /\ task[p] \in steps
    /\ End(p)
    /\ UNCHANGED <<registered, writer>>
RequestOver(p)   == HandshakeEnds(p, {"request"})
HandshakeOver(p) == HandshakeEnds(p, Handshaking)

\* The response is written: the principal is taken from the slot, and the
\* connection is registered.
Upgraded(p) ==
    /\ task[p] = "responding" /\ slot[SlotOf(p)] # None
    /\ principal' = [principal EXCEPT ![p] = slot[SlotOf(p)]]
    /\ slot' = [slot EXCEPT ![SlotOf(p)] = None]
    /\ registered' = registered \cup {p}
    /\ Goto(p, "on_connect")
    /\ UNCHANGED <<permits, request, writer>>

-----------------------------------------------------------------------------
(* handle_connection                                                       *)

OnConnect(p) ==
    /\ task[p] = "on_connect"
    /\ Goto(p, "serving")
    /\ writer' = [writer EXCEPT ![p] = "running"]
    /\ UNCHANGED <<permits, request, slot, principal, registered>>

\* The read loop ends and close() is called.  Mutant: the slot is given
\* back here.
ServingEnds(p, given) ==
    /\ task[p] = "serving"
    /\ Goto(p, "closing")
    /\ permits' = permits + given
    /\ UNCHANGED <<request, slot, principal, registered, writer>>
EarlyRelease(p) == ServingEnds(p, 1)
ServingOver(p)  == ServingEnds(p, 0)

\* The writer is joined, or aborted after close_timeout.
Joined(p) ==
    /\ task[p] = "closing"
    /\ Goto(p, "on_disconnect")
    /\ writer' = [writer EXCEPT ![p] = IF @ = "running" THEN "aborted" ELSE @]
    /\ UNCHANGED <<permits, request, slot, principal, registered>>

\* on_disconnect has returned: the connection is unregistered.
OnDisconnect(p) ==
    /\ task[p] = "on_disconnect"
    /\ registered' = registered \ {p}
    /\ End(p)
    /\ UNCHANGED writer

\* A panic in a callback: the writer, detached, runs on.
HandlerPanics(p) ==
    /\ task[p] \in Panics \cap Serving
    /\ Die(p)
    /\ UNCHANGED <<registered, writer>>

\* The writer wrote a Close, failed or was aborted.
WriterEnds(p) ==
    /\ writer[p] # "none"
    /\ writer' = [writer EXCEPT ![p] = "none"]
    /\ UNCHANGED <<task, permits, request, slot, principal, registered>>

-----------------------------------------------------------------------------

Next == \E p \in Peers :
    \/ Arrive(p) \/ Accept(p)
    \/ Callback(p) \/ CallbackPanics(p) \/ HandshakeOver(p)
    \/ Upgraded(p) \/ OnConnect(p) \/ ServingOver(p) \/ Joined(p)
    \/ OnDisconnect(p)
    \/ HandlerPanics(p) \/ WriterEnds(p)

Spec == Init /\ [][Next]_vars

(***************************************************************************)
(* Fairness: the accept loop takes what has arrived, and handshake_timeout *)
(* elapses.  Nothing is assumed of the peers and of the callbacks: a       *)
(* connection may be served for ever.                                      *)
(***************************************************************************)
FairSpec ==
    /\ Spec
    /\ \A p \in Peers : WF_vars(Accept(p)) /\ WF_vars(HandshakeOver(p))

-----------------------------------------------------------------------------
(* Properties.                                                             *)

(***************************************************************************)
(* max_connections (server.rs:49): the connections, those still in the     *)
(* handshake and those whose socket a writer still holds included, are at  *)
(* most so many.                                                           *)
(***************************************************************************)
Open == Tasks \cup {p \in registered : writer[p] = "running"}
ConnectionsBounded == Cardinality(Open) <= MaxConnections

(***************************************************************************)
(* No slot is lost and none is used twice, whichever way the handshakes    *)
(* and tasks end, panics included: the server never runs out of slots      *)
(* without as many tasks.                                                  *)
(***************************************************************************)
SlotsExact == permits + Cardinality(Tasks) = MaxConnections

(***************************************************************************)
(* A connection is served under the principal the authorizer established   *)
(* for its own request, however the handshakes overlap.                    *)
(***************************************************************************)
Admission == \A p \in Peers : task[p] \in Serving =>
    principal[p] # None /\ principal[p] = request[p].credentials

(***************************************************************************)
(* Each Origin header of a request that is served names an allowed site,   *)
(* in whatever spelling; a request that names one, or none, and has        *)
(* credentials is not refused.                                             *)
(***************************************************************************)
Names(origin) ==
    Policy = AnyOrigin \/ (origin # Unreadable /\ \E a \in Policy : a.site = origin.site)
AllNamed(p) == \A i \in DOMAIN request[p].origins : Names(request[p].origins[i])
OriginsEnforced == \A p \in Peers :
    /\ task[p] \in Serving => AllNamed(p)
    /\ task[p] = "refusing" =>
         \/ request[p].credentials = None
         \/ ~AllNamed(p) \/ Len(request[p].origins) > 1

\* A peer that stalls anywhere in the handshake does not keep its slot.
HandshakeReturnsSlot ==
    \A p \in Peers : task[p] \in Handshaking ~> task[p] \notin Handshaking

\* Whatever the other peers do, and at capacity too, a peer that has arrived
\* is taken or dropped.
AcceptPrompt == \A p \in Peers : task[p] = "arrived" ~> task[p] # "arrived"

=============================================================================
