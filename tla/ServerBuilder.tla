--------------------------- MODULE ServerBuilder ---------------------------
(***************************************************************************)
(* From WebSocketServerBuilder to a server (src/src/server.rs): the calls  *)
(* of the builder in any order, WebSocketServer::new with any              *)
(* configuration, validate() and the warnings; and what the constructors   *)
(* that the server and its connection tasks call ask of the configuration. *)
(*                                                                         *)
(* Sizes are scaled down, their order kept.  Addresses, handshake_timeout  *)
(* and close_timeout are left out: any value will do.                      *)
(***************************************************************************)
EXTENDS Naturals

CONSTANTS
    WriteBufferSize, \* WRITE_BUFFER_SIZE
    MaxPermits,      \* Semaphore::MAX_PERMITS
    MaxInstant       \* the longest time that can be added to the present

ASSUME SizesAssumption ==
    /\ WriteBufferSize \in Nat /\ MaxPermits \in Nat \ {0} /\ MaxInstant \in Nat \ {0}

VARIABLES
    config,     \* the configuration
    authorizer, \* the authorizer, if one was given
    anonymous,  \* the builder's flag
    outcome,    \* of the last call
    warned      \* the warnings logged

vars == <<config, authorizer, anonymous, outcome, warned>>

Values ==
    [max_message_size |-> {0, 1}, max_frame_size |-> {0, 1},
     max_write_buffer_size |-> {WriteBufferSize, WriteBufferSize + 1},
     outbound_queue_capacity |-> {0, 1, MaxPermits + 1},
     max_connections |-> {0, 1, MaxPermits, MaxPermits + 1},
     heartbeat_interval |-> {0, 1},
     connection_timeout |-> {1, MaxInstant + 1},
     origin_policy |-> {"allow_list", "any"}]

Init ==
    /\ config = [max_message_size |-> 1, max_frame_size |-> 1,
                 max_write_buffer_size |-> WriteBufferSize + 1,
                 outbound_queue_capacity |-> 1, max_connections |-> 1,
                 heartbeat_interval |-> 1, connection_timeout |-> 1,
                 origin_policy |-> "allow_list"]
    /\ authorizer = "none" /\ anonymous = FALSE
    /\ outcome = "building" /\ warned = {}

\* The setters of the configuration.
Set(field, value) ==
    /\ outcome = "building"
    /\ config' = [config EXCEPT ![field] = value]
    /\ UNCHANGED <<authorizer, anonymous, outcome, warned>>

\* bind() of what is no address.
BadAddress ==
    /\ outcome = "building" /\ outcome' = "error"
    /\ UNCHANGED <<config, authorizer, anonymous, warned>>

\* authorizer() and allow_anonymous().  Mutant: the flag stays.
Choose(a, flag) ==
    /\ outcome = "building"
    /\ authorizer' = a /\ anonymous' = flag
    /\ UNCHANGED <<config, outcome, warned>>
StickyAuthorizer(a) == Choose(a, anonymous)
Authorizer(a)  == Choose(a, FALSE)
AllowAnonymous == Choose("AllowAnonymous", TRUE)

\* validate.  Mutants: an off-by-one in either upper or lower bound.
WithinLimits(bytes, permits) ==
    /\ config.max_message_size # 0 /\ config.max_frame_size # 0
    /\ config.max_write_buffer_size >= bytes
    /\ config.outbound_queue_capacity # 0
    /\ config.max_connections \in 1..permits
LaxValid == WithinLimits(WriteBufferSize, MaxPermits)
Valid    == WithinLimits(WriteBufferSize + 1, MaxPermits)

\* from_parts: refused, or built with the warnings logged.
FromParts(a, flag) ==
    /\ outcome' = IF Valid THEN "built" ELSE "error"
    /\ warned' = {w \in {"anonymous", "origin"} :
                    /\ Valid
                    /\ w = "anonymous" => flag
                    /\ w = "origin" => config.origin_policy = "any"}
    /\ authorizer' = a
    /\ UNCHANGED <<config, anonymous>>

\* WebSocketServer::new, which recognises the type.
New(a) == outcome = "building" /\ FromParts(a, a = "AllowAnonymous")

\* build
Build ==
    /\ outcome = "building"
    /\ IF authorizer = "none"
         THEN outcome' = "error" /\ UNCHANGED <<config, authorizer, anonymous, warned>>
         ELSE FromParts(authorizer, anonymous)

Authorizers == {"AllowAnonymous", "custom"}
Next ==
    \/ \E field \in DOMAIN Values : \E value \in Values[field] : Set(field, value)
    \/ BadAddress
    \/ \E a \in Authorizers : Authorizer(a) \/ New(a)
    \/ AllowAnonymous \/ Build

Spec == Init /\ [][Next]_vars

-----------------------------------------------------------------------------
(* What the constructors called later assert.                              *)

\* Semaphore::new in from_parts, WebSocketConfig for every handshake.
SemaphoreOk == config.max_connections <= MaxPermits
WriterOk    == config.max_write_buffer_size > WriteBufferSize
\* mpsc::channel, tokio::time::interval and last_read + connection_timeout
\* in every connection task.
ChannelOk  == config.outbound_queue_capacity \in 1..MaxPermits
IntervalOk == config.heartbeat_interval > 0
DeadlineOk == config.connection_timeout <= MaxInstant

(***************************************************************************)
(* A configuration that validate() lets pass neither panics in from_parts  *)
(* nor in the handshakes, and gives the server slots: the bounds are those *)
(* of the constructors, to the last value.                                 *)
(***************************************************************************)
Startable == outcome = "built" => SemaphoreOk /\ WriterOk /\ config.max_connections > 0

(***************************************************************************)
(* A server that is built has an authorizer somebody chose; it warns of    *)
(* unauthenticated connections only if it accepts them, whatever was       *)
(* chosen before, and of any origin exactly if it accepts any.             *)
(***************************************************************************)
WarningsTrue == outcome = "built" =>
    /\ authorizer # "none"
    /\ "anonymous" \in warned => authorizer = "AllowAnonymous"
    /\ "origin" \in warned <=> config.origin_policy = "any"

(***************************************************************************)
(* AllowAnonymous: "the server logs a warning when it starts with it"      *)
(* (auth.rs:160).  Violated by .authorizer(AllowAnonymous).                *)
(***************************************************************************)
AnonymousWarned ==
    outcome = "built" /\ authorizer = "AllowAnonymous" => "anonymous" \in warned

(***************************************************************************)
(* build "fails ... if the configuration is invalid" (server.rs:242): what *)
(* it builds does not panic in every connection task.  Violated by a       *)
(* heartbeat_interval of zero, an outbound_queue_capacity above MaxPermits *)
(* and a connection_timeout beyond any instant.                            *)
(***************************************************************************)
BuiltServes == outcome = "built" => ChannelOk /\ IntervalOk /\ DeadlineOk

=============================================================================
