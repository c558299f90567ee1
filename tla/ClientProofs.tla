---------------------------- MODULE ClientProofs ----------------------------
(***************************************************************************)
(* The safety properties of Client, for any number of calling tasks, any   *)
(* inbound_queue_capacity and any number of frames, that it implements     *)
(* Stream, and that all of this is so against the server of Session.       *)
(***************************************************************************)
EXTENDS Session, SequenceTheorems, TLAPS

\* The tasks are spawned by connect_with_config.
StartInv == client = "connecting" => writer = "none" /\ reader = "none"

\* The closed flag is what makes the close() that queues the Close frame
\* unique: it is set from the winning compare_exchange on.
CloseInv ==
    /\ \A c \in Callers : call[c] = "queue_close" => closed /\ closes = 0
    /\ \A c, d \in Callers :
          call[c] = "queue_close" /\ call[d] = "queue_close" => c = d
    /\ closes = 1 => closed
    /\ closes <= 1

\* A Close frame on the wire means that the writer has left its loop.
WireInv ==
    /\ wire # "broken"
    /\ wire = "closed" => writer \in {"sink", "store", "done"}

\* The reader sets the flag before it gives up the inbound queue.
ReaderInv ==
    /\ reader \in {"drop", "done"} => closed
    /\ ended => reader = "done"

\* Nothing read is lost while there is a client: it is with the application,
\* in the queue or in the reader's hand; and a Close is read last.
InboundInv ==
    /\ client # "dropped" =>
         arrived = IF reader = "queue" THEN Append(got \o inq, rheld) ELSE got \o inq
    /\ reader = "next" => ~ServerClosed
    /\ reader = "queue" => arrived # <<>> /\ arrived[Len(arrived)] = rheld
    /\ reader = "none" => arrived = <<>>

-----------------------------------------------------------------------------
(* Types.                                                                  *)

\* Every step is one of the application, of the writer or of the reader.
Application ==
    \/ Connect \/ ConnectFails
    \/ \E c \in Callers : SendBegin(c) \/ CloseFlag(c) \/ CallStep(c)
    \/ Recv \/ RecvEnd \/ DropBegin \/ DropEnd
Reading == ReadFrame \/ ReadClose \/ ReadEnd \/ ReaderStep

\* The steps by who takes them: the application's calls, the writer's task or
\* the reader's.
LEMMA NextKinds == Next <=> Application \/ WriterStep \/ Reading
BY DEF Next, Application, Reading

\* The queues keep their types, and the inbound queue its bound, when
\* messages are put in and taken out.
LEMMA Queues ==
    ASSUME NEW S, NEW s \in Seq(S)
    PROVE  /\ <<>> \in Seq(S) /\ Len(<<>>) = 0
           /\ \A e \in S : Append(s, e) \in Seq(S) /\ Len(Append(s, e)) = Len(s) + 1
           /\ s # <<>> => /\ Head(s) \in S /\ Tail(s) \in Seq(S)
                          /\ Len(Tail(s)) = Len(s) - 1
BY EmptySeq, AppendProperties, HeadTailProperties

\* connect, send, close, recv and drop keep the types.
LEMMA ApplicationTypes ==
    ASSUME TypeOK, Application
    PROVE  TypeOK'
<1> USE DEF TypeOK, callVars, recvVars, writeVars, readVars
<1>1. CASE Connect \/ ConnectFails
  BY <1>1 DEF Connect, ConnectFails
<1>2. ASSUME NEW c \in Callers, SendBegin(c) \/ CloseFlag(c)
      PROVE  TypeOK'
  BY <1>2 DEF SendBegin, SendTo, CloseFlag, CloseTo, Goto, Returned
<1>3. ASSUME NEW c \in Callers, NEW m \in Kinds, SendQueue(c, m)
      PROVE  TypeOK'
  <2>0. Append(outq, m) \in Seq(Kinds)
    BY Queues
  <2>1. outq' \in Seq(Kinds)
    BY <1>3, <2>0 DEF SendQueue
  <2>2. late' \subseteq Callers
    BY <1>3 DEF SendQueue
  <2>3. call' \in [Callers -> Returned \cup {"queue", "queue_close"}]
    BY <1>3 DEF SendQueue, Goto, Returned
  <2> QED
    BY <1>3, <2>1, <2>2, <2>3 DEF SendQueue
<1>4. ASSUME NEW c \in Callers, CloseQueue(c)
      PROVE  TypeOK'
  <2>1. Append(outq, "close") \in Seq(Kinds)
    BY Queues DEF Kinds
  <2> QED
    BY <1>4, <2>1 DEF CloseQueue, Goto, Returned
<1>5. CASE Recv
  <2>1. /\ Head(inq) \in Items /\ Tail(inq) \in Seq(Items)
        /\ Len(Tail(inq)) = Len(inq) - 1 /\ Len(inq) \in Nat
    BY <1>5, Queues, LenProperties DEF Recv
  <2>2. Append(got, Head(inq)) \in Seq(Items)
    BY <2>1, Queues
  <2> QED
    BY <1>5, <2>1, <2>2, InboundAssumption DEF Recv
<1>6. CASE RecvEnd
  BY <1>6 DEF RecvEnd
<1>7. CASE DropBegin \/ DropEnd
  <2>0. <<>> \in Seq(Items) /\ Len(<<>>) <= InboundCapacity
    BY Queues, InboundAssumption
  <2>1. inq' \in Seq(Items) /\ Len(inq') <= InboundCapacity
    BY <1>7, <2>0 DEF DropBegin, DropEnd, DropStep
  <2>2. client' \in {"dropping", "drop_tx", "drop_rx", "dropped"}
    BY <1>7 DEF DropBegin, DropEnd, DropStep
  <2> QED
    BY <1>7, <2>1, <2>2 DEF DropBegin, DropEnd, DropStep
<1> QED
  BY <1>1, <1>2, <1>3, <1>4, <1>5, <1>6, <1>7 DEF Application, CallStep

\* The writer's task keeps the types.
LEMMA WriterTypes ==
    ASSUME TypeOK, WriterStep
    PROVE  TypeOK'
<1> USE DEF TypeOK, callVars, recvVars, readVars
<1>1. CASE WriterRecv
  <2>1. Head(outq) \in Kinds /\ Tail(outq) \in Seq(Kinds)
    BY <1>1, Queues DEF WriterRecv
  <2> QED
    BY <1>1, <2>1 DEF WriterRecv
<1>2. CASE WriterDrained
  BY <1>2 DEF WriterDrained
<1>3. CASE WriterWrote \/ WriterFails
  BY <1>3 DEF WriterWrote, WriterFails, Wrote
<1>4. CASE WriterSinkClosed
  BY <1>4 DEF WriterSinkClosed
<1>5. CASE WriterStore
  BY <1>5, Queues DEF WriterStore
<1> QED
  BY <1>1, <1>2, <1>3, <1>4, <1>5 DEF WriterStep

\* The reader's task keeps the types, and the inbound queue its bound.
LEMMA ReadingTypes ==
    ASSUME TypeOK, Reading
    PROVE  TypeOK'
<1> USE DEF TypeOK, callVars, recvVars, writeVars
<1>1. ASSUME NEW m \in Items, ReaderNext(m)
      PROVE  TypeOK'
  <2>1. Append(arrived, m) \in Seq(Items)
    BY Queues
  <2> QED
    BY <1>1, <2>1 DEF ReaderNext
<1>2. CASE ReadFrame \/ ReadClose
  <2>1. CloseItem \in Items /\ (ReadFrame => Len(arrived) + 1 \in Items)
    BY BoundsAssumption, LenProperties DEF Items, CloseItem, ReadFrame
  <2> QED
    BY <1>1, <1>2, <2>1 DEF ReadFrame, ReadClose
<1>3. CASE ReadEnd
  BY <1>3 DEF ReadEnd
<1>4. CASE ReaderQueue
  <2>1. /\ Append(inq, rheld) \in Seq(Items)
        /\ Len(Append(inq, rheld)) = Len(inq) + 1 /\ Len(inq) \in Nat
    BY Queues, LenProperties
  <2> QED
    BY <1>4, <2>1, InboundAssumption DEF ReaderQueue, QueueInbound
<1>5. CASE ReaderRefused \/ ReaderStore \/ ReaderDrop
  BY <1>5 DEF ReaderRefused, Refused, ReaderStore, ReaderEnds, ReaderDrop
<1> QED
  BY <1>2, <1>3, <1>4, <1>5 DEF Reading, ReaderStep

\* The queues hold messages, the inbound queue at most inbound_queue_capacity
\* of them, and everybody is at a place of the code.
THEOREM TypeCorrect == Spec => []TypeOK
<1>1. Init => TypeOK
  <2>1. <<>> \in Seq(Kinds) /\ <<>> \in Seq(Items) /\ Len(<<>>) <= InboundCapacity
    BY EmptySeq, InboundAssumption
  <2>2. CloseItem \in Items
    BY BoundsAssumption DEF Items, CloseItem
  <2> SUFFICES ASSUME Init PROVE TypeOK
    OBVIOUS
  <2>3. call \in [Callers -> Returned \cup {"queue", "queue_close"}]
    BY DEF Init, Returned
  <2>4. /\ outq \in Seq(Kinds) /\ inq \in Seq(Items) /\ Len(inq) <= InboundCapacity
        /\ rheld \in Items /\ arrived \in Seq(Items) /\ got \in Seq(Items)
    BY <2>1, <2>2 DEF Init
  <2>5. client \in {"connecting"} /\ closed \in BOOLEAN /\ ended \in BOOLEAN
    BY DEF Init
  <2>6. writer \in {"none"} /\ wheld \in {"none"} /\ reader \in {"none"} /\ wire \in {"open"}
    BY DEF Init
  <2>7. closes \in 0..2 /\ late \subseteq Callers
    BY DEF Init
  <2> QED
    BY <2>3, <2>4, <2>5, <2>6, <2>7 DEF TypeOK
<1>2. TypeOK /\ [Next]_vars => TypeOK'
  <2>1. TypeOK /\ UNCHANGED vars => TypeOK'
    BY DEF TypeOK, vars, callVars, recvVars, writeVars, readVars
  <2> QED
    BY <2>1, NextKinds, ApplicationTypes, WriterTypes, ReadingTypes
<1> QED
  BY <1>1, <1>2, PTL DEF Spec

-----------------------------------------------------------------------------
(* The calls and the two tasks.                                            *)

\* What a step does to the calls, besides those of the calls themselves:
\* nothing, and the flag is never cleared.
LEMMA OutsideCalls ==
    ASSUME TypeOK,
           \/ Connect \/ ConnectFails \/ Recv \/ RecvEnd \/ DropBegin \/ DropEnd
           \/ WriterStep \/ Reading
    PROVE  UNCHANGED callVars /\ (closed => closed')
<1> USE DEF callVars
<1>1. CASE Connect \/ ConnectFails \/ Recv \/ RecvEnd
  BY <1>1 DEF Connect, ConnectFails, Recv, RecvEnd
<1>2. CASE DropBegin \/ DropEnd
  BY <1>2 DEF DropBegin, DropEnd, DropStep
<1>3. CASE WriterStep
  BY <1>3 DEF WriterStep, WriterRecv, WriterDrained, WriterWrote, WriterFails,
              Wrote, WriterSinkClosed, WriterStore
<1>4. CASE Reading
  BY <1>4 DEF Reading, ReadFrame, ReadClose, ReaderNext, ReadEnd, ReaderStep,
              ReaderQueue, QueueInbound, ReaderRefused, Refused, ReaderStore,
              ReaderEnds, ReaderDrop
<1> QED
  BY <1>1, <1>2, <1>3, <1>4

\* Only connect_with_config, the writer and the reader change where the two
\* tasks stand and what is on the wire.
LEMMA OutsideTasks ==
    ASSUME TypeOK, Application, ~Connect
    PROVE  UNCHANGED <<writer, wire, reader>> /\ (client' = "connecting" => client = "connecting")
<1> USE DEF writeVars, readVars
<1>1. CASE ConnectFails \/ Recv \/ RecvEnd
  BY <1>1 DEF ConnectFails, Recv, RecvEnd
<1>2. CASE DropBegin \/ DropEnd
  BY <1>2 DEF DropBegin, DropEnd, DropStep
<1>3. ASSUME NEW c \in Callers, SendBegin(c) \/ CloseFlag(c) \/ CallStep(c)
      PROVE  UNCHANGED <<client, writer, wire, reader>>
  BY <1>3 DEF SendBegin, SendTo, CloseFlag, CloseTo, CallStep, SendQueue, CloseQueue
<1> QED
  BY <1>1, <1>2, <1>3 DEF Application

Base == TypeOK /\ StartInv /\ CloseInv /\ WireInv /\ ReaderInv

\* At most one close() is the winner, and it queues one Close frame.
LEMMA CloseStep ==
    ASSUME Base, Next
    PROVE  CloseInv'
<1> USE DEF Base, TypeOK, CloseInv, Goto, Returned
<1>1. ASSUME NEW c \in Callers, SendBegin(c)
      PROVE  CloseInv'
  BY <1>1 DEF SendBegin, SendTo
<1>2. ASSUME NEW c \in Callers, NEW m \in Kinds, SendQueue(c, m)
      PROVE  CloseInv'
  BY <1>2 DEF SendQueue
<1>3. ASSUME NEW c \in Callers, CloseFlag(c)
      PROVE  CloseInv'
  BY <1>3 DEF CloseFlag, CloseTo
<1>4. ASSUME NEW c \in Callers, CloseQueue(c)
      PROVE  CloseInv'
  BY <1>4 DEF CloseQueue
<1>5. CASE UNCHANGED callVars /\ (closed => closed')
  BY <1>5 DEF callVars
<1> QED
  BY <1>1, <1>2, <1>3, <1>4, <1>5, NextKinds, OutsideCalls DEF Application, CallStep

\* The tasks start with the client, the writer writes one Close at most, and
\* the reader sets the flag before it returns.
LEMMA TasksStep ==
    ASSUME Base, Next
    PROVE  (StartInv /\ WireInv /\ ReaderInv)'
<1> USE DEF Base, StartInv, WireInv, ReaderInv
<1>1. CASE Connect
  BY <1>1 DEF Connect, recvVars
<1>2. CASE Application /\ ~Connect
  <2>1. UNCHANGED <<writer, wire, reader>> /\ (client' = "connecting" => client = "connecting")
    BY <1>2, OutsideTasks
  <2>2. closed => closed'
    BY <1>2, OutsideCalls
       DEF Application, SendBegin, SendTo, CloseFlag, CloseTo, CallStep, SendQueue,
           CloseQueue
  <2>3. ended' => ended \/ reader = "done"
    BY <1>2 DEF Application, ConnectFails, Recv, RecvEnd, InTx, DropBegin,
        DropEnd, DropStep, SendBegin, SendTo, CloseFlag, CloseTo, CallStep, SendQueue,
        CloseQueue, recvVars
  <2> QED
    BY <2>1, <2>2, <2>3
<1>3. CASE WriterStep
  BY <1>3 DEF WriterStep, WriterRecv, WriterDrained, WriterWrote, WriterFails,
              Wrote, WriterSinkClosed, WriterStore, TypeOK, readVars, recvVars
<1>4. CASE Reading
  BY <1>4 DEF Reading, ReadFrame, ReadClose, ReaderNext, ReadEnd, ReaderStep,
              ReaderQueue, QueueInbound, ReaderRefused, Refused, ReaderStore,
              ReaderEnds, ReaderDrop, writeVars, recvVars
<1> QED
  BY <1>1, <1>2, <1>3, <1>4, NextKinds

\* The inductive invariant of the calls and the tasks.
LEMMA BaseCorrect == Spec => []Base
<1>1. Init => StartInv /\ CloseInv /\ WireInv /\ ReaderInv
  BY DEF Init, StartInv, CloseInv, WireInv, ReaderInv
<1>2. Base /\ TypeOK' /\ [Next]_vars => Base'
  <2>1. Base /\ UNCHANGED vars => (StartInv /\ CloseInv /\ WireInv /\ ReaderInv)'
    BY DEF Base, StartInv, CloseInv, WireInv, ReaderInv, vars, callVars, recvVars,
           writeVars, readVars
  <2> QED
    BY <2>1, CloseStep, TasksStep DEF Base
<1> QED
  BY TypeCorrect, <1>1, <1>2, PTL DEF Spec, Base

\* WebSocketClient::close: however many tasks close the client, drop it or
\* see it end, one Close frame is queued, and nothing follows it on the wire.
THEOREM CloseCorrect == Spec => []OneClose
<1>1. Base => OneClose
  BY DEF Base, CloseInv, WireInv, OneClose
<1> QED
  BY BaseCorrect, <1>1, PTL

\* The reader's closed.store(true) precedes the end of the inbound queue.
THEOREM EndCorrect == Spec => []EndImpliesClosed
<1>1. Base => EndImpliesClosed
  BY DEF Base, ReaderInv, EndImpliesClosed
<1> QED
  BY BaseCorrect, <1>1, PTL

\* A message accepted after the close is one whose send() had passed the
\* test, and no caller gets a second one in.
THEOREM LateCorrect == Spec => []LateOnce
<1>1. Init => LateOnce
  BY DEF Init, LateOnce
<1>2. TypeOK /\ LateOnce /\ [Next]_vars => LateOnce'
  <2> SUFFICES ASSUME TypeOK, LateOnce, [Next]_vars
               PROVE  LateOnce'
    OBVIOUS
  <2> USE DEF TypeOK, LateOnce, Goto, Returned
  <2>1. ASSUME NEW c \in Callers, SendBegin(c)
        PROVE  LateOnce'
    BY <2>1 DEF SendBegin, SendTo
  <2>2. ASSUME NEW c \in Callers, NEW m \in Kinds, SendQueue(c, m)
        PROVE  LateOnce'
    BY <2>2 DEF SendQueue
  <2>3. ASSUME NEW c \in Callers, CloseFlag(c) \/ CloseQueue(c)
        PROVE  LateOnce'
    BY <2>3 DEF CloseFlag, CloseTo, CloseQueue
  <2>4. CASE UNCHANGED callVars /\ (closed => closed')
    BY <2>4 DEF callVars
  <2>5. CASE UNCHANGED vars
    BY <2>4, <2>5 DEF vars
  <2> QED
    BY <2>1, <2>2, <2>3, <2>4, <2>5, NextKinds, OutsideCalls DEF Application, CallStep
<1> QED
  BY TypeCorrect, <1>1, <1>2, PTL DEF Spec

-----------------------------------------------------------------------------
(* The inbound messages.                                                   *)

\* What recv() takes from the queue moves over to what it has returned, and
\* what the reader puts there was in its hand.
LEMMA Moves ==
    ASSUME NEW S, NEW s \in Seq(S), NEW t \in Seq(S)
    PROVE  /\ \A e \in S : s \o Append(t, e) = Append(s \o t, e)
           /\ t # <<>> => /\ Append(s, Head(t)) \o Tail(t) = s \o t
                          /\ Len(s) < Len(s \o t)
                          /\ Head(t) = (s \o t)[Len(s) + 1]
<1>1. ASSUME NEW e \in S
      PROVE  s \o Append(t, e) = Append(s \o t, e)
  <2>1. /\ Append(t, e) = t \o <<e>> /\ <<e>> \in Seq(S)
        /\ s \o t \in Seq(S) /\ Append(s \o t, e) = (s \o t) \o <<e>>
    BY AppendIsConcat, ConcatProperties
  <2> QED
    BY <2>1, ConcatAssociative
<1>2. ASSUME t # <<>>
      PROVE  /\ Append(s, Head(t)) \o Tail(t) = s \o t
             /\ Len(s) < Len(s \o t) /\ Head(t) = (s \o t)[Len(s) + 1]
  <2>1. /\ Head(t) \in S /\ Tail(t) \in Seq(S) /\ Len(Tail(t)) = Len(t) - 1
        /\ Len(t) \in Nat \ {0} /\ Len(s) \in Nat /\ Head(t) = t[1]
        /\ \A i \in 1..Len(t) - 1 : Tail(t)[i] = t[i + 1]
    BY <1>2, HeadTailProperties, EmptySeq, LenProperties
  <2>2. /\ Append(s, Head(t)) \in Seq(S) /\ Len(Append(s, Head(t))) = Len(s) + 1
        /\ \A i \in 1..Len(s) : Append(s, Head(t))[i] = s[i]
        /\ Append(s, Head(t))[Len(s) + 1] = t[1]
    BY <2>1, AppendProperties
  <2>3. /\ s \o t \in Seq(S) /\ Len(s \o t) = Len(s) + Len(t)
        /\ \A i \in 1..Len(s) + Len(t) :
              (s \o t)[i] = IF i <= Len(s) THEN s[i] ELSE t[i - Len(s)]
    BY ConcatProperties
  <2> DEFINE u == Append(s, Head(t)) \o Tail(t)
  <2>4. /\ u \in Seq(S) /\ Len(u) = Len(s) + Len(t)
        /\ \A i \in 1..Len(s) + Len(t) :
              u[i] = IF i <= Len(s) + 1 THEN Append(s, Head(t))[i] ELSE Tail(t)[i - (Len(s) + 1)]
    BY <2>1, <2>2, ConcatProperties
  <2>5. ASSUME NEW i \in 1..Len(s) + Len(t)
        PROVE  u[i] = (s \o t)[i]
    <3>1. CASE i <= Len(s)
      BY <3>1, <2>1, <2>2, <2>3, <2>4
    <3>2. CASE i = Len(s) + 1
      BY <3>2, <2>1, <2>2, <2>3, <2>4
    <3>3. CASE i > Len(s) + 1
      <4>1. i - (Len(s) + 1) \in 1..Len(t) - 1
        BY <3>3, <2>1
      <4>2. Tail(t)[i - (Len(s) + 1)] = t[i - Len(s)]
        BY <4>1, <2>1
      <4> QED
        BY <3>3, <4>2, <2>1, <2>3, <2>4
    <3> QED
      BY <3>1, <3>2, <3>3, <2>1
  <2>6. u = s \o t
    BY <2>3, <2>4, <2>5, SeqEqual
  <2> QED
    BY <2>1, <2>3, <2>6
<1> QED
  BY <1>1, <1>2

\* Who leaves the inbound messages and the reader alone.
LEMMA OutsideInbound ==
    ASSUME TypeOK, Application \/ WriterStep, ~Connect, ~Recv, ~DropEnd
    PROVE  UNCHANGED <<inq, reader, rheld, arrived, got>> /\ (client' = "dropped" <=> client = "dropped")
<1> USE DEF readVars, recvVars
<1>1. CASE ConnectFails \/ RecvEnd \/ DropBegin
  BY <1>1 DEF ConnectFails, RecvEnd, DropBegin, DropStep
<1>2. ASSUME NEW c \in Callers, SendBegin(c) \/ CloseFlag(c) \/ CallStep(c)
      PROVE  UNCHANGED <<inq, reader, rheld, arrived, got, client>>
  BY <1>2 DEF SendBegin, SendTo, CloseFlag, CloseTo, CallStep, SendQueue, CloseQueue
<1>3. CASE WriterStep
  BY <1>3 DEF WriterStep, WriterRecv, WriterDrained, WriterWrote, WriterFails,
              Wrote, WriterSinkClosed, WriterStore
<1> QED
  BY <1>1, <1>2, <1>3 DEF Application

\* Every step loses nothing of what was read, and keeps its order.
LEMMA InboundStep ==
    ASSUME TypeOK, StartInv, InboundInv, Next
    PROVE  InboundInv'
<1> USE DEF InboundInv, ServerClosed
<1>1. CASE Connect
  BY <1>1 DEF Connect, StartInv, recvVars
<1>2. CASE Recv
  <2>1. inq # <<>> /\ inq \in Seq(Items) /\ got \in Seq(Items)
    BY <1>2 DEF Recv, TypeOK
  <2>2. got' \o inq' = got \o inq
    BY <1>2, <2>1, Moves DEF Recv
  <2> QED
    BY <1>2, <2>2 DEF Recv, readVars
<1>3. CASE DropEnd
  BY <1>3 DEF DropEnd, DropStep, readVars, recvVars
<1>4. ASSUME NEW m \in Items, ReaderNext(m)
      PROVE  InboundInv'
  <2>1. /\ Append(arrived, m) # <<>>
        /\ Append(arrived, m)[Len(Append(arrived, m))] = m
    BY AppendProperties DEF TypeOK
  <2> QED
    BY <1>4, <2>1 DEF ReaderNext, recvVars
<1>5. CASE ReadFrame \/ ReadClose
  <2>1. CloseItem \in Items /\ (ReadFrame => Len(arrived) + 1 \in Items)
    BY BoundsAssumption, LenProperties DEF Items, CloseItem, ReadFrame, TypeOK
  <2> QED
    BY <1>4, <1>5, <2>1 DEF ReadFrame, ReadClose
<1>6. CASE ReadEnd
  BY <1>6 DEF ReadEnd, recvVars
<1>7. CASE ReaderQueue
  <2>1. got \o Append(inq, rheld) = Append(got \o inq, rheld)
    BY Moves DEF TypeOK
  <2> QED
    BY <1>7, <2>1 DEF ReaderQueue, QueueInbound, recvVars
<1>8. CASE ReaderRefused \/ ReaderStore \/ ReaderDrop
  BY <1>8 DEF ReaderRefused, Refused, InRx, ReaderStore, ReaderEnds, ReaderDrop, recvVars
<1>9. CASE (Application \/ WriterStep) /\ ~Connect /\ ~Recv /\ ~DropEnd
  BY <1>9, OutsideInbound
<1> QED
  BY <1>1, <1>2, <1>3, <1>5, <1>6, <1>7, <1>8, <1>9, NextKinds DEF Reading, ReaderStep

\* InboundInv holds throughout.
LEMMA InboundCorrect == Spec => []InboundInv
<1>1. Init => InboundInv
  BY DEF Init, InboundInv, ServerClosed
<1>2. Base /\ InboundInv /\ [Next]_vars => InboundInv'
  <2>1. InboundInv /\ UNCHANGED vars => InboundInv'
    BY DEF InboundInv, ServerClosed, vars, readVars, recvVars
  <2> QED
    BY <2>1, InboundStep DEF Base
<1> QED
  BY BaseCorrect, <1>1, <1>2, PTL DEF Spec

\* Each step of the client is one of the stream, or changes nothing of it.
LEMMA StreamStep ==
    ASSUME Base, InboundInv, Next
    PROVE  Inbound!Next \/ UNCHANGED <<arrived, got, ended>>
<1>1. CASE Recv
  <2>1. /\ inq # <<>> /\ inq \in Seq(Items) /\ got \in Seq(Items) /\ rheld \in Items
        /\ got \o inq \in Seq(Items) /\ Len(got) \in Nat /\ Len(got \o inq) \in Nat
    BY <1>1, ConcatProperties, LenProperties DEF Recv, Base, TypeOK
  <2>2. Len(got) < Len(got \o inq) /\ Head(inq) = (got \o inq)[Len(got) + 1]
    BY <2>1, Moves
  <2>3. /\ Len(Append(got \o inq, rheld)) = Len(got \o inq) + 1
        /\ \A i \in 1..Len(got \o inq) : Append(got \o inq, rheld)[i] = (got \o inq)[i]
    BY <2>1, AppendProperties
  <2>4. Len(got) < Len(arrived) /\ Head(inq) = arrived[Len(got) + 1]
    <3>1. arrived = got \o inq \/ arrived = Append(got \o inq, rheld)
      BY <1>1 DEF Recv, InboundInv
    <3>2. Len(got) + 1 \in 1..Len(got \o inq)
      BY <2>1, <2>2
    <3> QED
      BY <2>1, <2>2, <2>3, <3>1, <3>2
  <2> QED
    BY <1>1, <2>4 DEF Recv, readVars, Inbound!Next, Inbound!Receive
<1>2. CASE RecvEnd
  <2>1. got \o <<>> = got
    BY ConcatEmptySeq DEF Base, TypeOK
  <2>2. got = arrived
    BY <1>2, <2>1 DEF RecvEnd, InTx, InboundInv
  <2> QED
    BY <1>2, <2>2 DEF RecvEnd, readVars, Inbound!Next, Inbound!End
<1>3. ASSUME NEW m \in Items, ReaderNext(m)
      PROVE  Inbound!Next
  <2>1. ~ended /\ ~ServerClosed
    BY <1>3 DEF ReaderNext, Base, ReaderInv, InboundInv
  <2> QED
    BY <1>3, <2>1 DEF ReaderNext, ServerClosed, recvVars, Inbound!Next, Inbound!Send
<1>4. CASE ReadFrame \/ ReadClose
  <2>1. CloseItem \in Items /\ (ReadFrame => Len(arrived) + 1 \in Items)
    BY BoundsAssumption, LenProperties DEF Items, CloseItem, ReadFrame, Base, TypeOK
  <2> QED
    BY <1>3, <1>4, <2>1 DEF ReadFrame, ReadClose
<1>5. CASE Connect \/ DropEnd
  BY <1>5 DEF Connect, DropEnd, DropStep, readVars, recvVars
<1>6. CASE ReadEnd \/ ReaderStep
  BY <1>6 DEF ReadEnd, ReaderStep, ReaderQueue, QueueInbound, ReaderRefused, Refused,
              ReaderStore, ReaderEnds, ReaderDrop, recvVars
<1>7. CASE (Application \/ WriterStep) /\ ~Connect /\ ~Recv /\ ~DropEnd /\ ~RecvEnd
  <2>1. UNCHANGED <<arrived, got>>
    BY <1>7, OutsideInbound DEF Base
  <2>2. UNCHANGED ended
    BY <1>7 DEF Application, ConnectFails, DropBegin, DropStep, SendBegin, SendTo,
        CloseFlag, CloseTo, CallStep, SendQueue, CloseQueue, WriterStep, WriterRecv,
        WriterDrained, WriterWrote, WriterFails, Wrote, WriterSinkClosed, WriterStore,
        recvVars
  <2> QED
    BY <2>1, <2>2
<1> QED
  BY <1>1, <1>2, <1>4, <1>5, <1>6, <1>7, NextKinds DEF Reading

\* Backpressure loses nothing and reorders nothing, whatever the capacity of
\* the inbound queue, and the end is reported after everything else.
THEOREM StreamCorrect == Spec => InboundStream
<1>1. Init => Inbound!Init
  BY DEF Init, Inbound!Init
<1>2. Base /\ InboundInv /\ [Next]_vars => [Inbound!Next]_<<arrived, got, ended>>
  <2>1. UNCHANGED vars => UNCHANGED <<arrived, got, ended>>
    BY DEF vars, readVars, recvVars
  <2> QED
    BY <2>1, StreamStep
<1> QED
  BY BaseCorrect, InboundCorrect, <1>1, <1>2, PTL DEF Spec, InboundStream, Inbound!Spec

-----------------------------------------------------------------------------
(* The client in a session.                                                *)

\* A step of the session is one of the client or leaves the client alone.
LEMMA SessionStep == [SNext]_svars => [Next]_vars
<1>1. Local => Next
  BY DEF Local, Alone, Next, WriterStep
<1>2. SocketWrite \/ SocketClose => Next
  BY DEF SocketWrite, SocketClose, Next, WriterStep
<1>3. SocketRead => Next
  BY DEF SocketRead, Next
<1>4. ServerSends \/ ServerReads \/ ServerGivesUp \/ ServerCloses \/ Breaks
        => UNCHANGED vars
  BY DEF ServerSends, ServerReads, ServerGivesUp, ServerCloses, Breaks
<1>5. UNCHANGED svars => UNCHANGED vars
  BY DEF svars
<1> QED
  BY <1>1, <1>2, <1>3, <1>4, <1>5 DEF SNext

\* A client whose reads and writes are those of two channels to a server is a
\* client: what is proved of it holds in every session.
THEOREM SessionImplements == SSpec => Spec
<1>1. SInit => Init
  BY DEF SInit
<1> QED
  BY <1>1, SessionStep, PTL DEF SSpec, Spec

\* Whatever the server does and however the connection breaks, the application
\* gets the messages in order, and one Close frame at most is queued.
COROLLARY SessionCorrect ==
    SSpec => InboundStream /\ [](OneClose /\ LateOnce /\ EndImpliesClosed)
BY SessionImplements, StreamCorrect, CloseCorrect, LateCorrect, EndCorrect, PTL

=============================================================================
