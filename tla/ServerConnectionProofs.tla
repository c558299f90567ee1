----------------------- MODULE ServerConnectionProofs -----------------------
(***************************************************************************)
(* The safety properties of ServerConnection, for any number of foreign    *)
(* tasks, any queue capacity and any MAX_MISSED_HEARTBEATS.                *)
(*                                                                         *)
(* TypeOK is not inductive: that missed stays within its bound depends on  *)
(* the verdict ending the loop.  Base is TypeOK together with what the     *)
(* task, the writer and the heartbeat know of each other; it is inductive, *)
(* and the other invariants are inductive relative to it.                  *)
(***************************************************************************)
EXTENDS ServerConnection, TLAPS

\* Until on_connect returns there is no writer, and while the connection is
\* served nobody has asked for its abort.
TaskInv ==
    /\ task \in Prologue => writer = "unspawned"
    /\ Serving => ~abortReq

\* The writer holds a message exactly while it writes, and a Close frame on
\* the wire means that it has left its loop.
WriterInv ==
    /\ writer # "write" => held = "none"
    /\ wire # "broken"
    /\ wire = "closed" => writer \in {"close_sink", "done"}

\* missed counts the pings since the last frame, the one being sent included.
HeartbeatInv ==
    /\ Serving => missed <= MaxMissed
    /\ Serving /\ task \notin {"ping", "on_error"} => missed = pings
    /\ task = "ping" => missed = pings + 1

Base == TypeOK /\ TaskInv /\ WriterInv /\ HeartbeatInv

-----------------------------------------------------------------------------
(* The handle's operations preserve its types.                             *)

\* A call on the handle, begun or continued by any of its holders, keeps the
\* handle well typed; in particular the queue within its capacity.
LEMMA HandleTypes ==
    ASSUME HandleTypeOK, NEW c \in Callers,
           SendBegin(c) \/ CloseMark(c) \/ CallStep(c, Kinds)
    PROVE  HandleTypeOK'
<1>1. CASE SendBegin(c)
  BY <1>1 DEF SendBegin, HandleTypeOK, Goto, Returned, InCall
<1>2. CASE CloseMark(c)
  BY <1>2 DEF CloseMark, HandleTypeOK, Goto, Returned, InCall, States
<1>3. ASSUME NEW m \in Kinds, SendTry(c, m)
      PROVE  HandleTypeOK'
  BY <1>3, CapacityAssumption
     DEF SendTry, HasRoom, HandleTypeOK, Goto, At, Returned, InCall, States
<1>4. CASE EvictMark(c)
  BY <1>4 DEF EvictMark, HandleTypeOK, Goto, At, Returned, InCall, States
<1>5. CASE CloseTry(c)
  BY <1>5, CapacityAssumption
     DEF CloseTry, HasRoom, HandleTypeOK, Goto, At, Returned, InCall, States, Kinds
<1>6. CASE Notify(c)
  BY <1>6 DEF Notify, HandleTypeOK, Goto, At, Returned, InCall, States
<1> QED
  BY <1>1, <1>2, <1>3, <1>4, <1>5, <1>6 DEF CallStep

\* The writer's steps keep the handle and the writer well typed.
LEMMA WriterTypes ==
    ASSUME TypeOK, WriterStep
    PROVE  TypeOK'
<1> USE DEF TypeOK, taskVars
<1>1. CASE WriterRecv
  <2>1. queue \in Seq(Kinds) /\ queue # <<>>
    BY <1>1 DEF WriterRecv, HandleTypeOK
  <2>2. Head(queue) \in Kinds /\ Tail(queue) \in Seq(Kinds)
        /\ Len(Tail(queue)) <= Len(queue)
    BY <2>1
  <2> QED
    BY <1>1, <2>1, <2>2, CapacityAssumption DEF WriterRecv, WriterStep, HandleTypeOK
<1>2. CASE WriterWrote
  BY <1>2 DEF WriterWrote, WroteFrame, WriterStep, HandleTypeOK, handleVars
<1>3. CASE DropReceiver /\ UNCHANGED wire
  <2>1. <<>> \in Seq(Kinds) /\ Len(<<>>) <= Capacity
    BY CapacityAssumption
  <2>2. HandleTypeOK'
    BY <1>3, <2>1 DEF DropReceiver, HandleTypeOK
  <2> QED
    BY <1>3, <2>2 DEF DropReceiver, WriterStep
<1> QED
  BY <1>1, <1>2, <1>3
     DEF WriterStep, WriterFailed, WriterSinkClosed, WriterAborted

-----------------------------------------------------------------------------
(* Base is inductive.                                                      *)

\* The program locations, with the sets of which Loop and Teardown are made.
LEMMA Locations ==
    /\ Prologue \cap Loop = {} /\ Prologue \cap Teardown = {}
    /\ Loop \cap Teardown = {}
BY DEF Prologue, Loop, Teardown

\* Every step of the connection's task, its calls on the handle included,
\* preserves Base.
LEMMA TaskBase ==
    ASSUME Base, TaskProgress \/ TaskEvent
    PROVE  Base'
<1> USE MaxMissedAssumption
    DEF Base, TypeOK, TaskInv, WriterInv, HeartbeatInv, Serving,
        Prologue, Loop, Teardown, writerVars
<1>1. ASSUME NEW from \in Prologue \cup Loop \cup Teardown,
             NEW to \in Prologue \cup Loop \cup Teardown,
             Advance(from, to),
             from = "register" => to = "on_connect",
             from # "register" => to \notin Prologue,
             from # "on_connect", from # "ping",
             from \in Teardown => to \in Teardown,
             to # "ping",
             from = "on_error" => to \in Teardown
      PROVE  Base'
  BY <1>1 DEF Advance, HandleTypeOK, handleVars
<1>2. CASE Register     BY <1>2, <1>1 DEF Register
<1>3. CASE OnConnect
  BY <1>3 DEF OnConnect, HandleTypeOK, handleVars
<1>4. CASE PingReturn
  BY <1>4 DEF PingReturn, HandleTypeOK, handleVars
<1>5. CASE OnPing
  <2>1. HandleTypeOK'
    BY <1>5, HandleTypes, CallersAssumption DEF OnPing
  <2> QED
    BY <1>5, <2>1 DEF OnPing, SendBegin
<1>6. CASE PongReturn   BY <1>6, <1>1 DEF PongReturn
<1>7. CASE OnMessage    BY <1>7, <1>1 DEF OnMessage
<1>8. CASE OnError      BY <1>8, <1>1 DEF OnError
<1>9. CASE Close
  <2>1. HandleTypeOK'
    BY <1>9, HandleTypes, CallersAssumption DEF Close
  <2> QED
    BY <1>9, <2>1 DEF Close, CloseMark
<1>10. CASE CloseReturn  BY <1>10, <1>1 DEF CloseReturn
<1>11. CASE WriterJoined BY <1>11, <1>1 DEF WriterJoined
<1>12. CASE SetClosed
  BY <1>12 DEF SetClosed, HandleTypeOK, States
<1>13. CASE OnDisconnect BY <1>13, <1>1 DEF OnDisconnect
<1>14. CASE Unregister   BY <1>14, <1>1 DEF Unregister
<1>15. CASE TaskCall
  <2>1. CallStep(ConnTask, Kinds)
    BY <1>15 DEF TaskCall, CallStep, Kinds
  <2>2. HandleTypeOK'
    BY <2>1, HandleTypes, CallersAssumption
  <2> QED
    BY <1>15, <2>2 DEF TaskCall, taskVars
<1>16. CASE Tick
  <2>1. HandleTypeOK'
    BY <1>16, HandleTypes, CallersAssumption
       DEF Tick, TickWith, HandleTypeOK, handleVars
  <2> QED
    BY <1>16, <2>1 DEF Tick, TickWith
<1>17. CASE Evicted
  BY <1>17 DEF Evicted, HandleTypeOK
<1>18. CASE Idle         BY <1>18, <1>1 DEF Idle
<1>19. CASE CloseTimeout
  BY <1>19 DEF CloseTimeout, HandleTypeOK, handleVars
<1>20. ASSUME NEW to \in {"on_ping", "callback", "close"}, ReadFrame(to)
       PROVE  Base'
  BY <1>20 DEF ReadFrame, HandleTypeOK, handleVars
<1>21. CASE ReadPing     BY <1>21, <1>20 DEF ReadPing
<1>22. CASE ReadData     BY <1>22, <1>20 DEF ReadData
<1>23. CASE ReadClose    BY <1>23, <1>20 DEF ReadClose
<1>24. CASE ReadEnd      BY <1>24, <1>1 DEF ReadEnd
<1>25. CASE ReadError    BY <1>25, <1>1 DEF ReadError
<1> QED
  BY <1>2, <1>3, <1>4, <1>5, <1>6, <1>7, <1>8, <1>9, <1>10, <1>11, <1>12,
     <1>13, <1>14, <1>15, <1>16, <1>17, <1>18, <1>19, <1>21, <1>22, <1>23,
     <1>24, <1>25 DEF TaskProgress, TaskEvent

\* Every step of the writer preserves Base.
LEMMA WriterBase ==
    ASSUME Base, WriterStep
    PROVE  Base'
<1>1. TypeOK'
  BY WriterTypes DEF Base
<1>2. TaskInv' /\ HeartbeatInv'
  <2>1. task' = task /\ missed' = missed /\ pings' = pings /\ abortReq' = abortReq
    BY DEF WriterStep, taskVars
  <2>2. task \in Prologue => writer' = writer
    <3> SUFFICES ASSUME task \in Prologue
                 PROVE  writer' = writer
      OBVIOUS
    <3>1. writer = "unspawned" /\ ~abortReq
      BY DEF Base, TaskInv, Serving
    <3> QED
      BY <3>1 DEF WriterStep, WriterRecv, WriterWrote, WroteFrame, WriterFailed,
                  WriterSinkClosed, WriterAborted
  <2> QED
    BY <2>1, <2>2 DEF Base, TaskInv, HeartbeatInv, Serving
<1>3. WriterInv'
  <2> USE DEF Base, WriterInv, WriterStep
  <2>1. CASE WriterRecv
    BY <2>1 DEF WriterRecv
  <2>2. CASE WriterWrote
    BY <2>2 DEF WriterWrote, WroteFrame, TypeOK
  <2>3. CASE DropReceiver /\ UNCHANGED wire
    BY <2>3 DEF DropReceiver
  <2> QED
    BY <2>1, <2>2, <2>3 DEF WriterFailed, WriterSinkClosed, WriterAborted
<1> QED
  BY <1>1, <1>2, <1>3 DEF Base

\* So does every step of the system.
LEMMA BaseStep ==
    ASSUME Base, [Next]_vars
    PROVE  Base'
<1>1. CASE TaskProgress \/ TaskEvent
  BY <1>1, TaskBase
<1>2. CASE WriterStep
  BY <1>2, WriterBase
<1>3. ASSUME NEW c \in Senders, SenderBegins(c) \/ SenderCall(c)
      PROVE  Base'
  <2>1. HandleTypeOK'
    BY <1>3, HandleTypes, CallersAssumption DEF SenderBegins, SenderCall, Base, TypeOK
  <2>2. UNCHANGED <<taskVars, writerVars, abortReq, peerGone>>
    BY <1>3 DEF SenderBegins, SenderCall
  <2> QED
    BY <2>1, <2>2 DEF Base, TypeOK, TaskInv, WriterInv, HeartbeatInv, Serving,
                      taskVars, writerVars
<1>4. CASE PeerSilent
  BY <1>4 DEF PeerSilent, Base, TypeOK, HandleTypeOK, TaskInv, WriterInv,
              HeartbeatInv, Serving, handleVars, taskVars, writerVars
<1>5. CASE UNCHANGED vars
  BY <1>5 DEF vars, Base, TypeOK, HandleTypeOK, TaskInv, WriterInv,
              HeartbeatInv, Serving, handleVars, taskVars, writerVars
<1> QED
  BY <1>1, <1>2, <1>3, <1>4, <1>5 DEF Next

\* The initial state satisfies Base.
LEMMA BaseInit == Init => Base
<1> SUFFICES ASSUME Init
             PROVE  Base
  OBVIOUS
<1>1. <<>> \in Seq(Kinds) /\ Len(<<>>) <= Capacity
  BY CapacityAssumption
<1>2. HandleTypeOK
  BY <1>1 DEF Init, HandleInit, HandleTypeOK, States, Returned, InCall
<1>3. TypeOK
  <2>1. missed \in 0..(MaxMissed + 1) /\ pings \in 0..(MaxMissed + 1)
    BY MaxMissedAssumption DEF Init
  <2>2. task \in Prologue
    BY DEF Init, Prologue
  <2> QED
    BY <1>2, <2>1, <2>2 DEF Init, TypeOK
<1>4. TaskInv /\ WriterInv
  BY DEF Init, TaskInv, WriterInv, Serving
<1>5. HeartbeatInv
  BY MaxMissedAssumption DEF Init, HeartbeatInv, Serving
<1> QED
  BY <1>3, <1>4, <1>5 DEF Base

\* Base holds throughout.
THEOREM BaseCorrect == Spec => []Base
<1>1. Base /\ [Next]_vars => Base'
  BY BaseStep
<1> QED
  BY BaseInit, <1>1, PTL DEF Spec

\* Type correctness, the bound on the outbound queue included: no interleaving
\* of send() and close() makes the queue exceed outbound_queue_capacity.
THEOREM TypeCorrect == Spec => []TypeOK
<1>1. Base => TypeOK
  BY DEF Base
<1> QED
  BY BaseCorrect, <1>1, PTL

\* The writer puts nothing on the wire after a Close frame.
THEOREM WireCorrect == Spec => []NothingAfterClose
<1>1. Base => NothingAfterClose
  BY DEF Base, WriterInv, NothingAfterClose
<1> QED
  BY BaseCorrect, <1>1, PTL

-----------------------------------------------------------------------------
(* What the other steps leave alone.                                       *)

\* A call on the handle by one of its holders.
CallOf(c) == SendBegin(c) \/ CloseMark(c) \/ CallStep(c, Kinds)

\* A step of the system is a call on the handle, or it is one of the few
\* that touch the handle otherwise, or it leaves the handle alone.
LEMMA StepKinds ==
    ASSUME [Next]_vars
    PROVE  \/ \E c \in Callers : CallOf(c) /\ UNCHANGED <<writer, held>>
           \/ Evicted \/ SetClosed \/ WriterStep
           \/ UNCHANGED handleVars /\ (UNCHANGED <<writer, held>> \/ OnConnect)
<1> USE CallersAssumption DEF CallOf, writerVars
<1>1. CASE TaskProgress
  <2>1. CASE OnPing   BY <2>1 DEF OnPing
  <2>2. CASE Close    BY <2>2 DEF Close
  <2>3. CASE TaskCall BY <2>3 DEF TaskCall, CallStep, Kinds
  <2> QED
    BY <1>1, <2>1, <2>2, <2>3
       DEF TaskProgress, Advance, Register, OnConnect, PingReturn, PongReturn,
           OnMessage, OnError, CloseReturn, WriterJoined, OnDisconnect, Unregister
<1>2. CASE TaskEvent
  <2>1. CASE Tick     BY <2>1 DEF Tick, TickWith
  <2> QED
    BY <1>2, <2>1
       DEF TaskEvent, Advance, Idle, CloseTimeout, ReadFrame, ReadPing, ReadData,
           ReadClose, ReadEnd, ReadError
<1>3. CASE WriterStep
  BY <1>3
<1>4. ASSUME NEW c \in Senders, SenderBegins(c) \/ SenderCall(c)
      PROVE  CallOf(c) /\ UNCHANGED <<writer, held>>
  BY <1>4 DEF SenderBegins, SenderCall
<1>5. CASE PeerSilent
  BY <1>5 DEF PeerSilent
<1>6. CASE UNCHANGED vars
  BY <1>6 DEF vars
<1> QED
  BY <1>1, <1>2, <1>3, <1>4, <1>5, <1>6 DEF Next

-----------------------------------------------------------------------------
(* Late messages.                                                          *)

\* LateOnce is inductive given the types: the state never returns to Open,
\* so the test in send() never passes again.
LEMMA LateStep ==
    ASSUME TypeOK, LateOnce, [Next]_vars
    PROVE  LateOnce'
<1> USE DEF TypeOK, HandleTypeOK, LateOnce
<1>1. ASSUME NEW c \in Callers, CallOf(c)
      PROVE  LateOnce'
  <2>1. CASE SendBegin(c)
    BY <2>1 DEF SendBegin, Goto
  <2>2. CASE CloseMark(c)
    BY <2>2 DEF CloseMark, Goto
  <2>3. ASSUME NEW m \in Kinds, SendTry(c, m)
        PROVE  LateOnce'
    BY <2>3 DEF SendTry, Goto, At
  <2>4. CASE EvictMark(c)
    BY <2>4 DEF EvictMark, Goto
  <2>5. CASE CloseTry(c)
    BY <2>5 DEF CloseTry, Goto
  <2>6. CASE Notify(c)
    BY <2>6 DEF Notify, Goto
  <2> QED
    BY <1>1, <2>1, <2>2, <2>3, <2>4, <2>5, <2>6 DEF CallOf, CallStep
<1>2. CASE Evicted
  BY <1>2 DEF Evicted
<1>3. CASE SetClosed
  BY <1>3 DEF SetClosed
<1>4. CASE WriterStep
  BY <1>4 DEF WriterStep, WriterRecv, WriterWrote, WroteFrame, WriterFailed,
              WriterSinkClosed, WriterAborted, DropReceiver, handleVars
<1>5. CASE UNCHANGED handleVars
  BY <1>5 DEF handleVars
<1> QED
  BY <1>1, <1>2, <1>3, <1>4, <1>5, StepKinds

\* A message is queued past Open at most once by each task.
THEOREM LateCorrect == Spec => []LateOnce
<1>1. Init => LateOnce
  BY DEF Init, HandleInit, LateOnce
<1>2. TypeOK /\ LateOnce /\ [Next]_vars => LateOnce'
  BY LateStep
<1> QED
  BY TypeCorrect, <1>1, <1>2, PTL DEF Spec

-----------------------------------------------------------------------------
(* Close requests.                                                         *)

\* A connection in teardown is not served again.
LEMMA ServingStep ==
    ASSUME [Next]_vars, Serving'
    PROVE  Serving
<1> USE DEF Serving, Prologue, Loop, Teardown
<1>1. CASE TaskProgress
  BY <1>1 DEF TaskProgress, Advance, Register, OnConnect, PingReturn, OnPing,
              PongReturn, OnMessage, OnError, Close, CloseReturn, WriterJoined,
              SetClosed, OnDisconnect, Unregister, TaskCall, taskVars
<1>2. CASE TaskEvent
  BY <1>2 DEF TaskEvent, Advance, Tick, TickWith, Evicted, Idle, CloseTimeout,
              ReadFrame, ReadPing, ReadData, ReadClose, ReadEnd, ReadError
<1>3. CASE WriterStep
  BY <1>3 DEF WriterStep, taskVars
<1>4. ASSUME NEW c \in Senders, SenderBegins(c) \/ SenderCall(c)
      PROVE  Serving
  BY <1>4 DEF SenderBegins, SenderCall, taskVars
<1>5. CASE PeerSilent \/ UNCHANGED vars
  BY <1>5 DEF PeerSilent, vars, taskVars
<1> QED
  BY <1>1, <1>2, <1>3, <1>4, <1>5 DEF Next

\* A call on the handle that finds a wakeup pending, or makes one necessary,
\* leaves one pending.
LEMMA CallKeepsWakeup ==
    ASSUME HandleTypeOK, NEW c \in Callers, CallOf(c),
           UNCHANGED <<writer, held>>,
           state # "Open" => WakeupPending, state' # "Open"
    PROVE  WakeupPending'
<1> USE DEF WakeupPending, HandleTypeOK, Goto, At, Returned, InCall
<1>1. CASE SendBegin(c)
  BY <1>1 DEF SendBegin
<1>2. CASE CloseMark(c)
  BY <1>2 DEF CloseMark
<1>3. ASSUME NEW m \in Kinds, SendTry(c, m)
      PROVE  WakeupPending'
  <2>1. \A i \in DOMAIN queue : i \in DOMAIN queue' /\ queue'[i] = queue[i]
    BY <1>3 DEF SendTry
  <2> QED
    BY <1>3, <2>1 DEF SendTry
<1>4. CASE EvictMark(c)
  BY <1>4 DEF EvictMark
<1>5. CASE CloseTry(c)
  <2>1. CASE rxAlive /\ HasRoom
    <3>1. queue' = Append(queue, "close")
      BY <1>5, <2>1 DEF CloseTry
    <3>2. Len(queue) + 1 \in DOMAIN queue' /\ queue'[Len(queue) + 1] = "close"
      BY <3>1 DEF Kinds
    <3> QED
      BY <3>2
  <2>2. CASE ~(rxAlive /\ HasRoom)
    BY <1>5, <2>2 DEF CloseTry
  <2> QED
    BY <2>1, <2>2
<1>6. CASE Notify(c)
  BY <1>6 DEF Notify
<1> QED
  BY <1>1, <1>2, <1>3, <1>4, <1>5, <1>6 DEF CallOf, CallStep

\* The writer passes a Close frame on: from the queue to its hand, from its
\* hand to the end of its loop.
LEMMA WriterKeepsWakeup ==
    ASSUME Base, WriterStep, WakeupPending
    PROVE  WakeupPending'
<1> USE DEF WakeupPending, WriterStep
<1>1. CASE WriterRecv
  <2>1. queue \in Seq(Kinds) /\ queue # <<>> /\ queue' = Tail(queue)
    BY <1>1 DEF WriterRecv, Base, TypeOK, HandleTypeOK
  <2>2. ASSUME NEW i \in DOMAIN queue, queue[i] = "close"
        PROVE  Head(queue) = "close"
               \/ \E j \in DOMAIN queue' : queue'[j] = "close"
    <3>1. CASE i = 1
      BY <2>1, <2>2, <3>1
    <3>2. CASE i # 1
      <4>1. i - 1 \in DOMAIN queue' /\ queue'[i - 1] = queue[i]
        BY <2>1, <3>2
      <4> QED
        BY <4>1, <2>2
    <3> QED
      BY <3>1, <3>2
  <2>3. held = "none"
    BY <1>1 DEF WriterRecv, Base, WriterInv
  <2> QED
    BY <1>1, <2>2, <2>3 DEF WriterRecv
<1>2. CASE WriterWrote
  BY <1>2 DEF WriterWrote, WroteFrame, handleVars
<1>3. CASE DropReceiver
  BY <1>3 DEF DropReceiver
<1> QED
  BY <1>1, <1>2, <1>3 DEF WriterFailed, WriterSinkClosed, WriterAborted

\* CloseRequestNotLost is inductive given Base.
LEMMA WakeupStep ==
    ASSUME Base, CloseRequestNotLost, [Next]_vars
    PROVE  CloseRequestNotLost'
<1> SUFFICES ASSUME Serving', state' # "Open"
             PROVE  WakeupPending'
  BY DEF CloseRequestNotLost
<1>1. state # "Open" => WakeupPending
  BY ServingStep DEF CloseRequestNotLost
<1>2. ASSUME NEW c \in Callers, CallOf(c), UNCHANGED <<writer, held>>
      PROVE  WakeupPending'
  BY <1>1, <1>2, CallKeepsWakeup DEF Base, TypeOK
<1>3. CASE Evicted \/ SetClosed
  BY <1>3 DEF Evicted, SetClosed, Serving, Prologue, Loop
<1>4. CASE WriterStep
  <2>1. state' = state
    BY <1>4 DEF WriterStep, WriterRecv, WriterWrote, WroteFrame, WriterFailed,
                WriterSinkClosed, WriterAborted, DropReceiver, handleVars
  <2> QED
    BY <1>1, <1>4, <2>1, WriterKeepsWakeup
<1>5. CASE UNCHANGED handleVars /\ (UNCHANGED <<writer, held>> \/ OnConnect)
  <2>1. OnConnect => writer = "unspawned" /\ held' = held
    BY DEF OnConnect, Base, TaskInv, Prologue
  <2> QED
    BY <1>1, <1>5, <2>1 DEF WakeupPending, handleVars
<1> QED
  BY <1>2, <1>3, <1>4, <1>5, StepKinds

\* A close request is never lost, whatever the tasks that send and close do
\* between each other's steps.
THEOREM CloseRequestCorrect == Spec => []CloseRequestNotLost
<1>1. Init => CloseRequestNotLost
  BY DEF Init, HandleInit, CloseRequestNotLost
<1>2. Base /\ CloseRequestNotLost /\ [Next]_vars => CloseRequestNotLost'
  BY WakeupStep
<1> QED
  BY BaseCorrect, <1>1, <1>2, PTL DEF Spec

-----------------------------------------------------------------------------
(* The heartbeat's verdict.                                                *)

\* Only the tick raises missed, and it closes the connection only when every
\* one of the MAX_MISSED_HEARTBEATS intervals before it has sent its ping.
THEOREM VerdictCorrect == Spec => HeartbeatVerdict
<1> DEFINE Verdict == task = "select" /\ task' = "close" /\ missed' > missed
                        => pings = MaxMissed
<1>1. Base /\ [Next]_vars => [Verdict]_vars
  <2> SUFFICES ASSUME Base, Next, task = "select", task' = "close", missed' > missed
               PROVE  pings = MaxMissed
    BY DEF vars
  <2>1. missed \in Nat
    BY MaxMissedAssumption DEF Base, TypeOK
  <2>2. missed' # missed /\ missed' # 0
    BY <2>1
  <2>3. Tick
    BY <2>2 DEF Next, TaskProgress, TaskEvent, Advance, Register, OnConnect,
         PingReturn, OnPing, PongReturn, OnMessage, OnError, Close, CloseReturn,
         WriterJoined, SetClosed, OnDisconnect, Unregister, TaskCall, Evicted,
         Idle, CloseTimeout, ReadFrame, ReadPing, ReadData, ReadClose, ReadEnd,
         ReadError, WriterStep, SenderBegins, SenderCall, PeerSilent, taskVars
  <2>4. missed + 1 > MaxMissed
    BY <2>3 DEF Tick, TickWith
  <2>5. missed <= MaxMissed /\ missed = pings
    BY DEF Base, HeartbeatInv, Serving, Loop
  <2> QED
    BY <2>1, <2>4, <2>5, MaxMissedAssumption
<1> QED
  BY BaseCorrect, <1>1, PTL DEF Spec, HeartbeatVerdict

=============================================================================
