------------------------ MODULE ServerBuilderProofs ------------------------
(***************************************************************************)
(* The safety properties of ServerBuilder, whatever the sizes the          *)
(* constructors compare with.                                              *)
(***************************************************************************)
EXTENDS ServerBuilder, TLAPS

Configs ==
    [max_message_size : Nat, max_frame_size : Nat, max_write_buffer_size : Nat,
     outbound_queue_capacity : Nat, max_connections : Nat, heartbeat_interval : Nat,
     connection_timeout : Nat, origin_policy : {"allow_list", "any"}]

\* The flag is that of the authorizer chosen last, and what is built has
\* passed validate().
BuilderInv ==
    /\ config \in Configs
    /\ authorizer \in Authorizers \cup {"none"} /\ anonymous \in BOOLEAN
    /\ outcome = "building" => (anonymous => authorizer = "AllowAnonymous")
    /\ outcome = "built" => Valid

\* A setter gives its own field a value of the field's type.
LEMMA SetConfig ==
    ASSUME config \in Configs, NEW field \in DOMAIN Values, NEW value \in Values[field]
    PROVE  [config EXCEPT ![field] = value] \in Configs
<1> USE SizesAssumption DEF Configs, Values
<1>1. CASE field \in {"max_message_size", "max_frame_size", "heartbeat_interval"}
  BY <1>1
<1>2. CASE field = "max_write_buffer_size"
  BY <1>2
<1>3. CASE field \in {"outbound_queue_capacity", "max_connections", "connection_timeout"}
  BY <1>3
<1>4. CASE field = "origin_policy"
  BY <1>4
<1> QED
  BY <1>1, <1>2, <1>3, <1>4

\* Every call of the builder, and what from_parts does with its outcome.
LEMMA BuilderStep ==
    ASSUME BuilderInv, WarningsTrue, Next
    PROVE  BuilderInv' /\ WarningsTrue'
<1> USE DEF BuilderInv, WarningsTrue, Authorizers
<1>1. ASSUME NEW field \in DOMAIN Values, NEW value \in Values[field], Set(field, value)
      PROVE  BuilderInv' /\ WarningsTrue'
  BY <1>1, SetConfig DEF Set
<1>2. CASE BadAddress
  BY <1>2 DEF BadAddress
<1>3. ASSUME NEW a \in Authorizers, Authorizer(a)
      PROVE  BuilderInv' /\ WarningsTrue'
  BY <1>3 DEF Authorizer, Choose
<1>4. CASE AllowAnonymous
  BY <1>4 DEF AllowAnonymous, Choose
<1>5. ASSUME NEW a \in Authorizers, NEW flag \in BOOLEAN,
             outcome = "building", FromParts(a, flag), flag => a = "AllowAnonymous"
      PROVE  BuilderInv' /\ WarningsTrue'
  <2>1. outcome' = "built" => Valid /\ Valid'
    BY <1>5 DEF FromParts, Valid, WithinLimits
  <2>2. outcome' \in {"built", "error"}
    BY <1>5 DEF FromParts
  <2>3. config' = config /\ anonymous' = anonymous /\ authorizer' = a
    BY <1>5 DEF FromParts
  <2>4. outcome' = "built" => /\ "anonymous" \in warned' => flag
                              /\ "origin" \in warned' <=> config.origin_policy = "any"
    BY <1>5, <2>1 DEF FromParts
  <2> QED
    BY <1>5, <2>1, <2>2, <2>3, <2>4
<1>6. ASSUME NEW a \in Authorizers, New(a)
      PROVE  BuilderInv' /\ WarningsTrue'
  BY <1>5, <1>6 DEF New
<1>7. CASE Build
  <2>1. CASE authorizer = "none"
    BY <1>7, <2>1 DEF Build
  <2>2. CASE authorizer # "none"
    BY <1>5, <1>7, <2>2 DEF Build
  <2> QED
    BY <2>1, <2>2
<1> QED
  BY <1>1, <1>2, <1>3, <1>4, <1>6, <1>7 DEF Next

\* BuilderInv and WarningsTrue hold throughout.
LEMMA BuilderCorrect == Spec => [](BuilderInv /\ WarningsTrue)
<1>1. Init => BuilderInv /\ WarningsTrue
  <2> SUFFICES ASSUME Init PROVE BuilderInv /\ WarningsTrue
    OBVIOUS
  <2>1. WriteBufferSize + 1 \in Nat
    BY SizesAssumption
  <2>2. config \in Configs
    BY <2>1 DEF Init, Configs
  <2>3. authorizer = "none" /\ anonymous = FALSE /\ outcome = "building"
    BY DEF Init
  <2> QED
    BY <2>2, <2>3 DEF BuilderInv, WarningsTrue, Authorizers
<1>2. (BuilderInv /\ WarningsTrue) /\ [Next]_vars => (BuilderInv /\ WarningsTrue)'
  <2>1. (BuilderInv /\ WarningsTrue) /\ UNCHANGED vars => (BuilderInv /\ WarningsTrue)'
    BY DEF BuilderInv, WarningsTrue, Valid, WithinLimits, vars
  <2> QED
    BY <2>1, BuilderStep
<1> QED
  BY <1>1, <1>2, PTL DEF Spec

\* Whatever the limits of the semaphore and of the socket's buffer, a
\* configuration that validate() lets pass is within them.
THEOREM StartCorrect == Spec => []Startable
<1>1. BuilderInv => Startable
  BY SizesAssumption
     DEF BuilderInv, Configs, Startable, Valid, WithinLimits, SemaphoreOk, WriterOk
<1> QED
  BY BuilderCorrect, <1>1, PTL

\* The warnings are about the authorizer chosen last and the policy in force,
\* in whatever order the builder's methods were called.
THEOREM WarningsCorrect == Spec => []WarningsTrue
BY BuilderCorrect, PTL

=============================================================================
