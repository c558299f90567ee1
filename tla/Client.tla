------------------------------- MODULE Client -------------------------------
(***************************************************************************)
(* The WebSocketClient (src/src/client.rs): the application's calls, the   *)
(* writer task and the reader task, which share the atomic closed flag,    *)
(* the unbounded outgoing queue and the bounded inbound queue.  Each       *)
(* access to one of them is one action.                                    *)
(*                                                                         *)
(* send() and close() take &self: any number of tasks may be inside them.  *)
(* recv() takes &mut self and Drop owns the client, so nobody is in a call *)
(* then.  The server may send frames, close, end the stream or fail        *)
(* whenever it likes, and a write may succeed or fail.                     *)
(***************************************************************************)
EXTENDS Naturals, Sequences, FiniteSets

CONSTANTS
    Callers,         \* the application's tasks
    InboundCapacity, \* inbound_queue_capacity
    MaxOut,          \* bound: a send begins only while fewer are queued
    MaxFrames        \* bound: frames the server sends, besides a Close

\* connect_with_config refuses a zero inbound_queue_capacity.
ASSUME InboundAssumption == InboundCapacity \in Nat \ {0}
ASSUME BoundsAssumption == MaxOut \in Nat /\ MaxFrames \in Nat

VARIABLES
    client,     \* where the WebSocketClient value stands
    closed,     \* the closed flag
    call,       \* where each caller stands in send() or close()
    outq,       \* the outgoing queue
    inq,        \* the inbound queue
    writer,     \* where the writer task stands
    wheld,      \* the message it is writing
    reader,     \* where the reader task stands
    rheld,      \* the message it is queueing
    wire,       \* history: what the frames written amount to
    closes,     \* history: Close frames queued by close() (capped)
    late,       \* history: callers whose message was queued after closed was set
    arrived,    \* history: what the reader has read
    got,        \* history: what recv() has returned
    ended       \* history: recv() has returned None

callVars  == <<call, closes, late>>
recvVars  == <<got, ended>>
writeVars == <<writer, wheld, wire>>
readVars  == <<reader, rheld, arrived>>
vars == <<client, closed, callVars, outq, inq, writeVars, readVars, recvVars>>

(***************************************************************************)
(* Outgoing messages: a Close, a text that is not UTF-8 ("bad"), others.   *)
(* Inbound messages are numbered as they arrive; a Close is CloseItem.     *)
(***************************************************************************)
Kinds     == {"msg", "bad", "close"}
CloseItem == 0
Items     == 0..MaxFrames
Returned  == {"ok", "err"}

TypeOK ==
    /\ client \in {"connecting", "failed", "alive", "dropping", "drop_tx",
                   "drop_rx", "dropped"}
    /\ closed \in BOOLEAN
    /\ call \in [Callers -> Returned \cup {"queue", "queue_close"}]
    /\ outq \in Seq(Kinds)
    /\ inq \in Seq(Items) /\ Len(inq) <= InboundCapacity
    /\ writer \in {"none", "recv", "write", "sink", "store", "done"}
    /\ wheld \in Kinds \cup {"none"}
    /\ reader \in {"none", "next", "queue", "store", "drop", "done"}
    /\ rheld \in Items
    /\ wire \in {"open", "closed", "broken"}
    /\ closes \in 0..2
    /\ late \subseteq Callers
    /\ arrived \in Seq(Items) /\ got \in Seq(Items)
    /\ ended \in BOOLEAN

Init ==
    /\ client = "connecting" /\ closed = FALSE
    /\ call = [c \in Callers |-> "ok"]
    /\ outq = <<>> /\ inq = <<>>
    /\ writer = "none" /\ wheld = "none" /\ wire = "open"
    /\ reader = "none" /\ rheld = CloseItem /\ arrived = <<>>
    /\ closes = 0 /\ late = {} /\ got = <<>> /\ ended = FALSE

\* The ends of the two queues live in the client and in its tasks.  Mutant:
\* the reader gives up its end on leaving the loop, before it sets the flag.
OutTx == client \notin {"drop_rx", "dropped"}
OutRx == writer # "done"
LeavesFirst == reader \notin {"store", "drop", "done"}
InTx  == reader # "done"
InRx  == client # "dropped"

-----------------------------------------------------------------------------
(* connect_with_config: the tasks are spawned, or there is no client.      *)

Connect ==
    /\ client = "connecting"
    /\ client' = "alive" /\ writer' = "recv" /\ reader' = "next"
    /\ UNCHANGED <<closed, callVars, outq, inq, recvVars, wheld, wire, rheld, arrived>>

ConnectFails ==
    /\ client = "connecting" /\ client' = "failed"
    /\ UNCHANGED <<closed, callVars, outq, inq, writeVars, readVars, recvVars>>

-----------------------------------------------------------------------------
(* The application's calls.                                                *)

Goto(c, pc) == call' = [call EXCEPT ![c] = pc]
InCall == {c \in Callers : call[c] \notin Returned}

\* send(): the test of the flag.  Mutant: no test.
SendTo(c, pc) ==
    /\ client = "alive" /\ call[c] \in Returned
    /\ Len(outq) + Cardinality(InCall) < MaxOut
    /\ Goto(c, pc)
    /\ UNCHANGED <<client, closed, closes, late, outq, inq, writeVars, readVars,
                   recvVars>>
UntestedSend(c) == SendTo(c, "queue")
SendBegin(c) == SendTo(c, IF closed THEN "err" ELSE "queue")

\* send(): the message is queued, unless the writer has dropped the queue.
SendQueue(c, m) ==
    /\ call[c] = "queue"
    /\ \/ /\ OutRx
          /\ outq' = Append(outq, m)
          /\ late' = IF closed THEN late \cup {c} ELSE late
          /\ Goto(c, "ok")
       \/ /\ ~OutRx
          /\ Goto(c, "err")
          /\ UNCHANGED <<outq, late>>
    /\ UNCHANGED <<client, closed, closes, inq, writeVars, readVars, recvVars>>

\* close(): compare_exchange, which one caller wins.  Mutant: a plain store.
CloseTo(c, pc) ==
    /\ client \in {"alive", "dropping"} /\ call[c] \in Returned
    /\ Goto(c, pc)
    /\ closed' = TRUE
    /\ UNCHANGED <<client, closes, late, outq, inq, writeVars, readVars, recvVars>>
StoreFlag(c) == CloseTo(c, "queue_close")
CloseFlag(c) == CloseTo(c, IF closed THEN "ok" ELSE "queue_close")

\* close(): the winner queues the Close frame.
CloseQueue(c) ==
    /\ call[c] = "queue_close"
    /\ Goto(c, "ok")
    /\ outq' = IF OutRx THEN Append(outq, "close") ELSE outq
    /\ closes' = IF closes < 2 THEN closes + 1 ELSE closes
    /\ UNCHANGED <<client, closed, late, inq, writeVars, readVars, recvVars>>

\* recv() and try_recv() have a message.
Recv ==
    /\ client = "alive" /\ InCall = {}
    /\ inq # <<>>
    /\ got' = Append(got, Head(inq))
    /\ inq' = Tail(inq)
    /\ UNCHANGED <<client, closed, callVars, outq, writeVars, readVars, ended>>

\* recv() returns None: the queue is empty and the reader has gone.
RecvEnd ==
    /\ client = "alive" /\ InCall = {}
    /\ inq = <<>> /\ ~InTx
    /\ ended' = TRUE
    /\ UNCHANGED <<client, closed, callVars, outq, inq, writeVars, readVars, got>>

\* Drop: close(), then the fields are dropped, tx before rx.
DropStep(from, to) ==
    /\ client = from /\ InCall = {}
    /\ client' = to
    /\ inq' = IF to = "dropped" THEN <<>> ELSE inq
    /\ UNCHANGED <<closed, callVars, outq, writeVars, readVars, recvVars>>
DropBegin == DropStep("alive", "dropping")
DropEnd ==
    \/ closed /\ DropStep("dropping", "drop_tx")
    \/ DropStep("drop_tx", "drop_rx")
    \/ DropStep("drop_rx", "dropped")

-----------------------------------------------------------------------------
(* The writer task.                                                        *)

\* recv() has a message; one that cannot go on the wire is dropped.
WriterRecv ==
    /\ writer = "recv" /\ outq # <<>>
    /\ outq' = Tail(outq)
    /\ \/ Head(outq) = "bad" /\ UNCHANGED <<writer, wheld>>
       \/ /\ Head(outq) # "bad"
          /\ writer' = "write" /\ wheld' = Head(outq)
    /\ UNCHANGED <<client, closed, callVars, inq, readVars, recvVars, wire>>

\* recv() returns None: the client has been dropped and its queue emptied.
WriterDrained ==
    /\ writer = "recv" /\ outq = <<>> /\ ~OutTx
    /\ writer' = "sink"
    /\ UNCHANGED <<client, closed, callVars, outq, inq, readVars, recvVars, wheld, wire>>

\* write.send() has returned; a Close or an error ends the loop.  Once the
\* server's Close has been read, nothing but a Close can be written.  Mutant:
\* a Close does not end the loop.
ServerClosed == arrived # <<>> /\ arrived[Len(arrived)] = CloseItem
Wrote(next, ok) ==
    /\ writer = "write"
    /\ ok /\ ServerClosed => wheld = "close"
    /\ writer' = next /\ wheld' = "none"
    /\ wire' = CASE ~ok             -> wire
                 [] wire # "open"   -> "broken"
                 [] wheld = "close" -> "closed"
                 [] OTHER           -> "open"
    /\ UNCHANGED <<client, closed, callVars, outq, inq, readVars, recvVars>>
WroteOn     == Wrote("recv", TRUE)
WriterWrote == Wrote(IF wheld = "close" THEN "sink" ELSE "recv", TRUE)
WriterFails == Wrote("sink", FALSE)

\* write.close() has returned: a Close frame is sent unless one was, or there
\* was an error, which is ignored.  Either way nothing more is written.
WriterSinkClosed ==
    /\ writer = "sink"
    /\ writer' = "store"
    /\ wire' = "closed"
    /\ UNCHANGED <<client, closed, callVars, outq, inq, readVars, recvVars, wheld>>

\* closed.store(true), and the queue goes with its receiver.
WriterStore ==
    /\ writer = "store"
    /\ closed' = TRUE
    /\ writer' = "done" /\ outq' = <<>>
    /\ UNCHANGED <<client, callVars, inq, readVars, recvVars, wheld, wire>>

WriterStep ==
    \/ WriterRecv \/ WriterDrained \/ WriterWrote \/ WriterFails
    \/ WriterSinkClosed \/ WriterStore

-----------------------------------------------------------------------------
(* The reader task.                                                        *)

\* read.next() yields a message, which is on its way to the queue.
ReaderNext(m) ==
    /\ reader = "next"
    /\ reader' = "queue" /\ rheld' = m
    /\ arrived' = Append(arrived, m)
    /\ UNCHANGED <<client, closed, callVars, outq, inq, writeVars, recvVars>>
ReadFrame == Len(arrived) < MaxFrames /\ ReaderNext(Len(arrived) + 1)
ReadClose == ReaderNext(CloseItem)

\* The stream ends or fails.
ReadEnd ==
    /\ reader = "next" /\ reader' = "store"
    /\ UNCHANGED <<client, closed, callVars, outq, inq, writeVars, recvVars,
                   rheld, arrived>>

\* tx.send(): waits for room; a Close ends the loop.  Mutants: an unbounded
\* queue, try_send().
QueueInbound(q) ==
    /\ reader = "queue" /\ InRx
    /\ inq' = q
    /\ reader' = IF rheld = CloseItem THEN "store" ELSE "next"
    /\ UNCHANGED <<client, closed, callVars, outq, writeVars, recvVars, rheld, arrived>>
ReaderPush  == QueueInbound(Append(inq, rheld))
ReaderTry   == QueueInbound(IF Len(inq) < InboundCapacity THEN Append(inq, rheld) ELSE inq)
ReaderQueue == Len(inq) < InboundCapacity /\ QueueInbound(Append(inq, rheld))

\* tx.send() fails, the client having been dropped: the loop ends.  Mutant:
\* the failure is ignored.
Refused(next) ==
    /\ reader = "queue" /\ ~InRx
    /\ reader' = next
    /\ UNCHANGED <<client, closed, callVars, outq, inq, writeVars, recvVars,
                   rheld, arrived>>
ReaderIgnores == Refused("next")
ReaderRefused == Refused("store")

\* closed.store(true); then the task returns and tx is dropped.  Mutant: the
\* task returns without the store.
ReaderEnds(flag, next) ==
    /\ reader = "store"
    /\ closed' = flag
    /\ reader' = next
    /\ UNCHANGED <<client, callVars, outq, inq, writeVars, recvVars, rheld, arrived>>
ReaderQuits == ReaderEnds(closed, "drop")
ReaderStore == ReaderEnds(TRUE, "drop")
ReaderDrop ==
    /\ reader = "drop" /\ reader' = "done"
    /\ UNCHANGED <<client, closed, callVars, outq, inq, writeVars, recvVars,
                   rheld, arrived>>

ReaderStep == ReaderQueue \/ ReaderRefused \/ ReaderStore \/ ReaderDrop

-----------------------------------------------------------------------------

CallStep(c) == CloseQueue(c) \/ \E m \in Kinds : SendQueue(c, m)

Next ==
    \/ Connect \/ ConnectFails
    \/ \E c \in Callers : SendBegin(c) \/ CloseFlag(c) \/ CallStep(c)
    \/ Recv \/ RecvEnd \/ DropBegin \/ DropEnd
    \/ WriterStep
    \/ ReadFrame \/ ReadClose \/ ReadEnd \/ ReaderStep

Spec == Init /\ [][Next]_vars

-----------------------------------------------------------------------------
(* Properties.                                                             *)

(***************************************************************************)
(* WebSocketClient::close, "only one task sends the close message, even    *)
(* when called concurrently", whichever of close(), Drop and the two tasks *)
(* sets the flag first; and the writer puts nothing behind it on the wire, *)
(* whatever send() has queued there.                                       *)
(***************************************************************************)
OneClose == closes <= 1 /\ wire # "broken"

(***************************************************************************)
(* send() tests the flag and queues in two steps, so a message can be      *)
(* accepted after the client was closed and never be sent; but only by a   *)
(* call that was past the test by then: a caller whom it happened to gets  *)
(* an error from then on.                                                  *)
(***************************************************************************)
LateOnce == \A c \in late : closed /\ call[c] # "queue"

(***************************************************************************)
(* Backpressure loses nothing and reorders nothing: recv() returns what    *)
(* the reader has read, in order, and None only after all of it.           *)
(***************************************************************************)
Inbound == INSTANCE Stream WITH
    Last <- CloseItem, sent <- arrived, received <- got, ended <- ended
InboundStream == Inbound!Spec

\* An application that has seen the end finds is_closed() true: the reader
\* sets the flag before it gives up the queue.
EndImpliesClosed == ended => closed

=============================================================================
