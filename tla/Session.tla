------------------------------ MODULE Session ------------------------------
(***************************************************************************)
(* A WebSocketClient and the server's task for its connection, over one    *)
(* TCP connection: module Client, whose reads and writes are now those of  *)
(* two channels, and at the other end what module ServerConnection shows   *)
(* of handle_connection (src/src/server.rs): it reads until a Close or a   *)
(* verdict of its own, then closes, or is aborted after close_timeout.     *)
(***************************************************************************)
EXTENDS Client

CONSTANTS MaxTransit  \* bound: frames in transit in either direction

ASSUME TransitAssumption == MaxTransit \in Nat \ {0}

VARIABLES
    server, \* "serving", "closing" or "gone"
    up,     \* frames from the client in transit
    down    \* frames from the server in transit

svars == <<vars, server, up, down>>

SInit == Init /\ server = "serving" /\ up = <<>> /\ down = <<>>

-----------------------------------------------------------------------------
(* The client's steps.                                                     *)

\* Steps that do not touch the socket.
Alone(step) == step /\ UNCHANGED <<server, up, down>>
Local == Alone(
    \/ Connect
    \/ \E c \in Callers : SendBegin(c) \/ CloseFlag(c) \/ CallStep(c)
    \/ Recv \/ RecvEnd \/ DropBegin \/ DropEnd
    \/ WriterRecv \/ WriterDrained \/ WriterStore \/ ReaderStep)

\* What is written arrives, unless the server is gone; a write to a server
\* that does not read waits once the way is full, however long.
CanWrite     == server = "gone" \/ Len(up) < MaxTransit
Carry(frame) == up' = IF server = "gone" THEN up ELSE Append(up, frame)

\* write.send(), which fails only once the connection is broken or closed:
\* there is no limit on what the client writes.
SocketWrite ==
    /\ \/ CanWrite /\ WriterWrote /\ Carry(wheld)
       \/ server = "gone" /\ WriterFails /\ UNCHANGED up
    /\ UNCHANGED <<server, down>>

\* write.close(): a Close frame unless one was sent, with no time limit
\* either; its error, of a broken connection, is ignored.  Mutant: the sink
\* is dropped without it.
SilentSink == Alone(WriterSinkClosed)
SocketClose ==
    /\ WriterSinkClosed
    /\ \/ wire = "closed" /\ UNCHANGED up
       \/ wire # "closed" /\ CanWrite /\ Carry("close")
    /\ UNCHANGED <<server, down>>

\* The reader takes what has arrived, or fails on a frame that is too large
\* or malformed; the stream ends with the server.
SocketRead ==
    \/ /\ down # <<>> /\ down' = Tail(down)
       /\ \/ Head(down) = "close" /\ ReadClose
          \/ Head(down) = "frame" /\ (ReadFrame \/ ReadEnd)
       /\ UNCHANGED <<server, up>>
    \/ /\ down = <<>> /\ server = "gone"
       /\ ReadEnd
       /\ UNCHANGED <<server, up, down>>

-----------------------------------------------------------------------------
(* The server's steps.                                                     *)

ServerSends ==
    /\ server = "serving" /\ Len(down) < MaxTransit
    /\ Len(arrived) + Len(down) < MaxFrames
    /\ down' = Append(down, "frame")
    /\ UNCHANGED <<vars, server, up>>

\* read.next(): a Close ends the read loop.
ServerReads ==
    /\ server = "serving" /\ up # <<>>
    /\ up' = Tail(up)
    /\ server' = IF Head(up) = "close" THEN "closing" ELSE server
    /\ UNCHANGED <<vars, down>>

\* An eviction, a verdict or an error ends it.
ServerGivesUp ==
    /\ server = "serving" /\ server' = "closing"
    /\ UNCHANGED <<vars, up, down>>

\* The connection breaks: the server's task ends, what is in transit is lost,
\* also what a server that is gone already had sent.
Breaks ==
    /\ server # "gone" \/ down # <<>>
    /\ server' = "gone"
    /\ up' = <<>> /\ down' = <<>>
    /\ UNCHANGED vars

\* The Close is written, or the writer aborted: a client that does not read
\* holds it up no longer than close_timeout.
ServerCloses ==
    /\ server = "closing" /\ server' = "gone"
    /\ up' = <<>>
    /\ \/ Len(down) < MaxTransit /\ down' = Append(down, "close")
       \/ UNCHANGED down
    /\ UNCHANGED vars

SNext ==
    \/ Local \/ SocketWrite \/ SocketClose \/ SocketRead
    \/ ServerSends \/ ServerReads \/ ServerGivesUp \/ ServerCloses \/ Breaks

(***************************************************************************)
(* Fairness.  Calls and drops run to their end, and the runtime schedules  *)
(* the client's two tasks: a write that can be made is made, the reader    *)
(* takes what has arrived.  Nothing is assumed of the server or of the     *)
(* network, so a write may wait for ever; nor that the application         *)
(* receives, closes or drops.  A property that counts on any of this says  *)
(* so.                                                                     *)
(***************************************************************************)
SSpec ==
    /\ SInit /\ [][SNext]_svars
    /\ WF_svars(Alone(\E c \in Callers : CallStep(c)))
    /\ WF_svars(Alone(client = "dropping" /\ \E c \in Callers : CloseFlag(c)))
    /\ WF_svars(Alone(DropEnd))
    /\ WF_svars(Alone(WriterRecv \/ WriterDrained \/ WriterStore)
                    \/ SocketWrite \/ SocketClose)
    /\ WF_svars(Alone(ReaderStep) \/ SocketRead)

\* The application calls recv() again and again, between its other calls.
Receiving == SF_svars(Alone(Recv))

\* The way to the server is free again and again: the server reads, however
\* seldom, or the connection ends.
WaysClear == []<>CanWrite

\* The server goes on reading, and ends the connection it has begun to close;
\* it need never give up by itself.
ServerWorks == WF_svars(ServerReads) /\ WF_svars(ServerCloses)

-----------------------------------------------------------------------------
(* Properties.                                                             *)

(***************************************************************************)
(* The closing handshake, for which the client has no timeout of its own:  *)
(* a close() or drop ends both of the client's tasks only because its      *)
(* Close makes the server end the stream, whatever is in transit by then.  *)
(* The Close is that of close(), or that of write.close() when another end *)
(* has set the flag first; a write that fails has found the connection     *)
(* ended.                                                                  *)
(***************************************************************************)
CloseEndsSession ==
    Receiving /\ ServerWorks =>
        ((closes > 0 \/ client = "dropped")
            ~> (writer = "done" /\ reader = "done" /\ server = "gone"))

(***************************************************************************)
(* A server that is gone, with or without a Close frame, ends the reader   *)
(* and shows in is_closed(), if the application goes on receiving: the     *)
(* Close may wait behind a full inbound queue for ever otherwise.  The     *)
(* writer may wait for the application.                                    *)
(***************************************************************************)
ServerCloseShows ==
    Receiving => (server = "gone" /\ client = "alive" ~> closed /\ reader = "done")

(***************************************************************************)
(* A local close or drop ends the writer, though the server never answers  *)
(* and the application never receives, as long as the server reads now and *)
(* then or the connection ends.  This it needs: write.send() and           *)
(* write.close() (client.rs:237, client.rs:246) have no timeout, and with  *)
(* a server that has stopped reading the writer stays for ever.            *)
(***************************************************************************)
CloseEndsWriter ==
    WaysClear => ((closes > 0 \/ client = "dropped") ~> writer = "done")

\* client.rs:325, "Close the connection": once is_closed() is true, and so
\* close() has nothing to do, the connection ends.
ClosedEndsSession == Receiving /\ ServerWorks => (closed ~> server = "gone")

\* Once the client is dropped, a reader waiting for room in the inbound
\* queue does not wait for ever.
DropFreesReader == client = "dropped" /\ reader = "queue" ~> reader = "done"

=============================================================================
