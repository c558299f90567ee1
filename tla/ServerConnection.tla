-------------------------- MODULE ServerConnection --------------------------
(***************************************************************************)
(* One connection of the server (src/src/server.rs, handle_connection)     *)
(* from its registration on: the task that reads, pings and tears down,    *)
(* the writer task that drains the outbound queue (ConnectionWriter::run), *)
(* and the other tasks that use clones of the connection's handle (room    *)
(* broadcasts, handlers of other connections, the application).            *)
(*                                                                         *)
(* Time is abstract: the heartbeat tick, the idle deadline and the close   *)
(* timeout are actions that may happen whenever the code waits for them.   *)
(***************************************************************************)
EXTENDS Connection

CONSTANTS
    Senders,    \* the tasks other than the connection's own that hold a clone
    ConnTask,   \* the task that runs handle_connection
    MaxMissed   \* MAX_MISSED_HEARTBEATS

ASSUME CallersAssumption ==
    /\ ConnTask \notin Senders
    /\ Callers = Senders \cup {ConnTask}
ASSUME MaxMissedAssumption == MaxMissed \in Nat \ {0}

VARIABLES
    task,       \* where the connection's task stands
    missed,     \* its missed_heartbeats
    writer,     \* where the writer task stands
    held,       \* the message the writer is putting on the wire
    abortReq,   \* abort() has been called on the writer's JoinHandle
    peerGone,   \* environment: the peer never sends anything again
    pings,      \* history: pings queued since the last inbound frame (capped)
    wire        \* history: what the writer's frames amount to

taskVars   == <<task, missed, pings>>
writerVars == <<writer, held, wire>>
vars == <<handleVars, taskVars, writerVars, abortReq, peerGone>>

(***************************************************************************)
(* Before Loop the task registers the connection and runs on_connect; in   *)
(* Loop it serves; after that it tears down.                               *)
(***************************************************************************)
Prologue == {"register", "on_connect"}
Loop     == {"select", "ping", "on_ping", "pong", "callback", "on_error"}
Teardown == {"close", "closing", "await_writer", "set_closed",
             "on_disconnect", "unregister", "done"}

TypeOK ==
    /\ HandleTypeOK
    /\ task \in Prologue \cup Loop \cup Teardown
    /\ missed \in 0..(MaxMissed + 1)
    /\ writer \in {"unspawned", "recv", "write", "close_sink", "done"}
    /\ held \in Kinds \cup {"none"}
    /\ abortReq \in BOOLEAN
    /\ peerGone \in BOOLEAN
    /\ pings \in 0..(MaxMissed + 1)
    /\ wire \in {"open", "closed", "broken"}

Init ==
    /\ HandleInit
    /\ task = "register"
    /\ missed = 0
    /\ writer = "unspawned"
    /\ held = "none"
    /\ abortReq = FALSE
    /\ peerGone = FALSE
    /\ pings = 0
    /\ wire = "open"

-----------------------------------------------------------------------------
(* The connection's task.                                                  *)

\* An await that neither reads nor writes the state modelled here.
Advance(from, to) ==
    /\ task = from
    /\ task' = to
    /\ UNCHANGED <<handleVars, writerVars, missed, pings, abortReq, peerGone>>

Register == Advance("register", "on_connect")

\* on_connect returns: the writer is spawned, the first tick consumed.
OnConnect ==
    /\ task = "on_connect"
    /\ task' = "select"
    /\ writer' = "recv"
    /\ UNCHANGED <<handleVars, missed, pings, held, wire, abortReq, peerGone>>

(***************************************************************************)
(* The heartbeat branch: the verdict, or a ping through send().  The       *)
(* mutants close one tick early, and forget to count.                      *)
(***************************************************************************)
TickWith(count, dead) ==
    /\ task = "select"
    /\ missed' = count
    /\ \/ /\ dead
          /\ task' = "close"
          /\ UNCHANGED handleVars
       \/ /\ ~dead
          /\ task' = "ping"
          /\ SendBegin(ConnTask)
    /\ UNCHANGED <<writerVars, pings, abortReq, peerGone>>

EagerTick     == TickWith(missed + 1, missed + 1 >= MaxMissed)
UncountedTick == TickWith(missed, FALSE)
Tick          == TickWith(missed + 1, missed + 1 > MaxMissed)

\* The ping's send() has returned; an error ends the loop.
DeafPingReturn ==
    /\ task = "ping" /\ call[ConnTask] \in Returned
    /\ task' = "select"
    /\ pings' = IF pings > MaxMissed THEN pings ELSE pings + 1
    /\ UNCHANGED <<handleVars, writerVars, missed, abortReq, peerGone>>
PingReturn ==
    /\ task = "ping"
    /\ \/ /\ At(ConnTask, "ok")
          /\ task' = "select"
          /\ pings' = IF pings > MaxMissed THEN pings ELSE pings + 1
       \/ /\ At(ConnTask, "err")
          /\ task' = "close"
          /\ UNCHANGED pings
    /\ UNCHANGED <<handleVars, writerVars, missed, abortReq, peerGone>>

\* The evicted() branch consumes the permit.
Evicted ==
    /\ task = "select" /\ permit
    /\ permit' = FALSE
    /\ task' = "close"
    /\ UNCHANGED <<state, queue, rxAlive, call, late, missed, pings, writerVars,
                   abortReq, peerGone>>

\* The idle deadline has passed.
Idle == Advance("select", "close")

\* A frame arrives: the counter restarts and the frame picks what follows.
ReadFrame(to) ==
    /\ task = "select" /\ ~peerGone
    /\ missed' = 0
    /\ pings' = 0
    /\ task' = to
    /\ UNCHANGED <<handleVars, writerVars, abortReq, peerGone>>

ReadPing  == ReadFrame("on_ping")
ReadData  == ReadFrame("callback")      \* data, and pongs to on_pong
ReadClose == ReadFrame("close")
ReadEnd   == ~peerGone /\ Advance("select", "close")
ReadError == ~peerGone /\ Advance("select", "on_error")

\* on_ping returns the payload of the pong, whose fate is ignored.
OnPing ==
    /\ task = "on_ping"
    /\ task' = "pong"
    /\ SendBegin(ConnTask)
    /\ UNCHANGED <<writerVars, missed, pings, abortReq, peerGone>>
PongReturn == call[ConnTask] \in Returned /\ Advance("pong", "select")

OnMessage == Advance("callback", "select")
OnError   == Advance("on_error", "close")

\* Teardown: close(), wait for the writer, give up on it, Closed, callbacks.
Close ==
    /\ task = "close"
    /\ task' = "closing"
    /\ CloseMark(ConnTask)
    /\ UNCHANGED <<writerVars, missed, pings, abortReq, peerGone>>
CloseReturn  == call[ConnTask] \in Returned /\ Advance("closing", "await_writer")
WriterJoined == writer = "done" /\ Advance("await_writer", "set_closed")

AbandonWriter == Advance("await_writer", "set_closed")
CloseTimeout ==
    /\ task = "await_writer"
    /\ task' = "set_closed"
    /\ abortReq' = TRUE
    /\ UNCHANGED <<handleVars, writerVars, missed, pings, peerGone>>

SetClosed ==
    /\ task = "set_closed"
    /\ task' = "on_disconnect"
    /\ state' = "Closed"
    /\ UNCHANGED <<queue, rxAlive, permit, call, late, missed, pings, writerVars,
                   abortReq, peerGone>>

OnDisconnect == Advance("on_disconnect", "unregister")
Unregister   == Advance("unregister", "done")

\* A step of a call the task is inside of: it only ever sends pings and pongs.
TaskCall ==
    /\ CallStep(ConnTask, {"msg"})
    /\ UNCHANGED <<taskVars, writerVars, abortReq, peerGone>>

-----------------------------------------------------------------------------
(* The writer task.  It owns the queue's receiver: when it ends, whatever   *)
(* is still queued is dropped with it.                                      *)

DropReceiver ==
    /\ writer' = "done"
    /\ held' = "none"
    /\ rxAlive' = FALSE
    /\ queue' = <<>>
    /\ UNCHANGED <<state, permit, call, late>>

\* recv() yields a message; one that cannot go on the wire is dropped.
WriterRecv ==
    /\ writer = "recv" /\ queue # <<>>
    /\ queue' = Tail(queue)
    /\ \/ /\ Head(queue) = "bad"
          /\ UNCHANGED <<writer, held>>
       \/ /\ Head(queue) # "bad"
          /\ writer' = "write"
          /\ held' = Head(queue)
    /\ UNCHANGED <<state, rxAlive, permit, call, late, wire>>

\* sink.send() has written the frame; a Close frame ends the loop.
WroteFrame(next) ==
    /\ writer = "write"
    /\ writer' = next
    /\ held' = "none"
    /\ wire' = CASE wire # "open"  -> "broken"
                 [] held = "close" -> "closed"
                 [] OTHER          -> wire
    /\ UNCHANGED handleVars

WriterWroteOn == WroteFrame("recv")
WriterWrote   == WroteFrame(IF held = "close" THEN "close_sink" ELSE "recv")

\* sink.send() fails: the loop returns the error.
WriterFailed     == writer = "write" /\ DropReceiver /\ UNCHANGED wire
\* sink.close() has returned, well or not.
WriterSinkClosed == writer = "close_sink" /\ DropReceiver /\ UNCHANGED wire
\* The abort takes effect, at an await of the writer.
WriterAborted ==
    /\ abortReq /\ writer # "done"
    /\ DropReceiver /\ UNCHANGED wire

WriterStep ==
    /\ \/ WriterRecv
       \/ WriterWrote
       \/ WriterFailed
       \/ WriterSinkClosed
       \/ WriterAborted
    /\ UNCHANGED <<taskVars, abortReq, peerGone>>

-----------------------------------------------------------------------------
(* The other holders of a clone, from registration on and for ever: a      *)
(* clone outlives the connection.                                          *)

SenderBegins(c) ==
    /\ task # "register"
    /\ SendBegin(c) \/ CloseMark(c)
    /\ UNCHANGED <<taskVars, writerVars, abortReq, peerGone>>

SenderCall(c) ==
    /\ CallStep(c, Kinds)
    /\ UNCHANGED <<taskVars, writerVars, abortReq, peerGone>>

\* The peer falls silent for good.
PeerSilent ==
    /\ ~peerGone
    /\ peerGone' = TRUE
    /\ UNCHANGED <<handleVars, taskVars, writerVars, abortReq>>

-----------------------------------------------------------------------------

\* What the task does without waiting for its peer or for a timer.
TaskProgress ==
    \/ Register \/ OnConnect \/ PingReturn \/ OnPing \/ PongReturn
    \/ OnMessage \/ OnError \/ Close \/ CloseReturn \/ WriterJoined
    \/ SetClosed \/ OnDisconnect \/ Unregister \/ TaskCall

\* What it waits for.
TaskEvent ==
    \/ Tick \/ Evicted \/ Idle \/ CloseTimeout
    \/ ReadPing \/ ReadData \/ ReadClose \/ ReadEnd \/ ReadError

Next ==
    \/ TaskProgress
    \/ TaskEvent
    \/ WriterStep
    \/ \E c \in Senders : SenderBegins(c) \/ SenderCall(c)
    \/ PeerSilent

Spec == Init /\ [][Next]_vars

(***************************************************************************)
(* Fairness.  Calls on the handle never wait, callbacks are assumed to     *)
(* return, and the runtime schedules every task that can run.  select!     *)
(* polls its branches in random order, so a branch that is ready at        *)
(* infinitely many polls is taken: strong fairness of Evicted.  Nothing is *)
(* assumed of the peer, of the network (the writer's writes) or of the     *)
(* idle deadline; a property that counts on the heartbeat says so.         *)
(***************************************************************************)
Fairness ==
    /\ WF_vars(TaskProgress)
    /\ \A c \in Senders : WF_vars(SenderCall(c))
    /\ WF_vars(WriterAborted /\ UNCHANGED <<taskVars, abortReq, peerGone>>)
    /\ WF_vars(CloseTimeout)
    /\ SF_vars(Evicted)

FairSpec == Spec /\ Fairness

-----------------------------------------------------------------------------
(* Safety.                                                                 *)

Serving == task \in Prologue \cup Loop

\* Something that will end the read loop is under way or in the queue.
WakeupPending ==
    \/ permit
    \/ \E c \in Callers : call[c] \in {"try_close", "notify"}
    \/ \E i \in DOMAIN queue : queue[i] = "close"
    \/ held = "close"
    \/ writer \in {"close_sink", "done"}

(***************************************************************************)
(* A close request is never silently lost (Connection::close, evict):      *)
(* whenever a connection that is still served has left Open, its wakeup    *)
(* is on the way, through the Notify or through the Close frame, however   *)
(* the calls of several tasks and the writer interleave.                   *)
(***************************************************************************)
CloseRequestNotLost == Serving /\ state # "Open" => WakeupPending

(***************************************************************************)
(* send() tests the state and queues the message in two steps, so a        *)
(* message can be queued after the connection has left Open; but only the  *)
(* call that was already past the test can do it: a task that did so once  *)
(* is never past the test again.                                           *)
(***************************************************************************)
LateOnce == \A c \in late : state # "Open" /\ call[c] # "try_send"

(***************************************************************************)
(* ConnectionWriter::run puts nothing on the wire after a Close frame,     *)
(* though close() of several tasks may queue several of them and late      *)
(* messages may be queued behind them.                                     *)
(***************************************************************************)
NothingAfterClose == wire # "broken"

(***************************************************************************)
(* The heartbeat's verdict: the tick that closes the connection comes      *)
(* after exactly MAX_MISSED_HEARTBEATS pings have been queued since the    *)
(* last inbound frame, so a ping that could not be sent is not held        *)
(* against the peer.                                                       *)
(***************************************************************************)
HeartbeatVerdict ==
    [][task = "select" /\ task' = "close" /\ missed' > missed
         => pings = MaxMissed]_vars

-----------------------------------------------------------------------------
(* Liveness.                                                               *)

\* The ticker ticks, and its branch of the select! is taken now and then.
HeartbeatTicks == SF_vars(Tick)

\* A sender that finds the queue full gets the connection torn down
\* (Connection::evict, evicted()), without counting on the heartbeat.
EvictionTornDown ==
    \A c \in Callers : call[c] = "evict" ~> task = "done"

\* A connection that has left Open, or whose writer has ended, is torn down
\* even if its peer goes on sending and never answers the Close frame: the
\* next heartbeat's send() fails.
ClosingTornDown ==
    HeartbeatTicks => ((state # "Open" \/ writer = "done") ~> task = "done")

\* A peer that falls silent is found out and its connection torn down, idle
\* deadline or not.
SilentPeerDetected == HeartbeatTicks => (peerGone ~> task = "done")

\* The writer does not outlive the teardown for ever, even if the peer
\* never reads again: close_timeout aborts it.
TeardownStopsWriter == task = "done" ~> writer = "done"

-----------------------------------------------------------------------------
(* What the comments say of the teardown, and the code does not do.        *)

\* server.rs:575 calls Closed "the terminal state": once reached, the state
\* never changes.  close() and evict() overwrite it.
ClosedIsTerminal == [][state = "Closed" => state' = "Closed"]_vars

\* server.rs:571, "Read/write tasks have terminated" when the state becomes
\* Closed.  abort() only requests it, and nothing awaits the writer after.
ClosedMeansWriterDone == state = "Closed" => writer = "done"

=============================================================================
