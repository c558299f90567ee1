----------------------------- MODULE Connection -----------------------------
(***************************************************************************)
(* The handle of one server-side connection (src/src/connection.rs):       *)
(* Connection::send and Connection::close as any number of tasks execute   *)
(* them concurrently on clones of one handle.  The clones share three      *)
(* pieces of state: the state behind its RwLock, the bounded outbound      *)
(* mpsc queue, and the Notify that wakes the server's read loop.  Each     *)
(* access to one of them is one action; nothing spans two.                 *)
(*                                                                         *)
(* The module has no specification of its own: ServerConnection composes   *)
(* it with the connection's task and its writer.                           *)
(***************************************************************************)
EXTENDS Naturals, Sequences

CONSTANTS
    Callers,    \* the tasks that hold a clone of the handle
    Capacity    \* outbound_queue_capacity, which validate() keeps above zero

ASSUME CapacityAssumption == Capacity \in Nat \ {0}

VARIABLES
    state,      \* the ConnectionState
    queue,      \* contents of the outbound mpsc queue
    rxAlive,    \* the queue's receiver has not been dropped
    permit,     \* the permit stored in the evict Notify
    call,       \* where each caller stands in send(), evict() or close()
    late        \* history: callers that queued a message past Open

handleVars == <<state, queue, rxAlive, permit, call, late>>

(***************************************************************************)
(* A queued message is a Close frame, a text whose payload is not UTF-8    *)
(* ("bad", which the writer drops), or anything else ("msg").  A caller    *)
(* between two calls remembers the result of the last one.                 *)
(***************************************************************************)
Kinds    == {"msg", "bad", "close"}
States   == {"Open", "Closing", "Closed"}
Returned == {"ok", "err"}
InCall   == {"try_send", "evict", "try_close", "notify"}

HandleTypeOK ==
    /\ state \in States
    /\ queue \in Seq(Kinds)
    /\ Len(queue) <= Capacity
    /\ rxAlive \in BOOLEAN
    /\ permit \in BOOLEAN
    /\ call \in [Callers -> Returned \cup InCall]
    /\ late \subseteq Callers

HandleInit ==
    /\ state = "Open"
    /\ queue = <<>>
    /\ rxAlive = TRUE
    /\ permit = FALSE
    /\ call = [c \in Callers |-> "ok"]
    /\ late = {}

-----------------------------------------------------------------------------

At(c, pc) == call[c] = pc
Goto(c, pc) == call' = [call EXCEPT ![c] = pc]

\* try_send() finds room.  Mutant: the queue is unbounded.
UnboundedRoom == TRUE
HasRoom == Len(queue) < Capacity

\* send(): the is_open() test, which reads the state and releases the lock.
UncheckedSendBegin(c) ==
    /\ call[c] \in Returned
    /\ Goto(c, "try_send")
    /\ UNCHANGED <<state, queue, rxAlive, permit, late>>
SendBegin(c) ==
    /\ call[c] \in Returned
    /\ Goto(c, IF state = "Open" THEN "try_send" ELSE "err")
    /\ UNCHANGED <<state, queue, rxAlive, permit, late>>

\* send(): try_send(m) and the three ways it can end.
SendTry(c, m) ==
    /\ At(c, "try_send")
    /\ \/ /\ rxAlive /\ HasRoom
          /\ queue' = Append(queue, m)
          /\ late' = IF state = "Open" THEN late ELSE late \cup {c}
          /\ Goto(c, "ok")
       \/ /\ rxAlive /\ ~HasRoom
          /\ Goto(c, "evict")
          /\ UNCHANGED <<queue, late>>
       \/ /\ ~rxAlive
          /\ Goto(c, "err")
          /\ UNCHANGED <<queue, late>>
    /\ UNCHANGED <<state, rxAlive, permit>>

\* evict(): the state is overwritten, whatever it is by now.
EvictMark(c) ==
    /\ At(c, "evict")
    /\ state' = "Closing"
    /\ Goto(c, "notify")
    /\ UNCHANGED <<queue, rxAlive, permit, late>>

\* close(): the state is overwritten, whatever it is.
CloseMark(c) ==
    /\ call[c] \in Returned
    /\ state' = "Closing"
    /\ Goto(c, "try_close")
    /\ UNCHANGED <<queue, rxAlive, permit, late>>

\* close(): queue the Close frame, or fall back on waking the read loop.
ForgetfulCloseTry(c) ==
    /\ At(c, "try_close")
    /\ queue' = IF rxAlive /\ HasRoom THEN Append(queue, "close") ELSE queue
    /\ Goto(c, "ok")
    /\ UNCHANGED <<state, rxAlive, permit, late>>
CloseTry(c) ==
    /\ At(c, "try_close")
    /\ \/ /\ rxAlive /\ HasRoom
          /\ queue' = Append(queue, "close")
          /\ Goto(c, "ok")
       \/ /\ ~(rxAlive /\ HasRoom)
          /\ Goto(c, "notify")
          /\ UNCHANGED queue
    /\ UNCHANGED <<state, rxAlive, permit, late>>

\* evict() and close(): notify_one() stores one permit; then the call returns.
LostNotify(c) ==
    /\ At(c, "notify")
    /\ Goto(c, "err")
    /\ UNCHANGED <<state, queue, rxAlive, permit, late>>
Notify(c) ==
    /\ At(c, "notify")
    /\ permit' = TRUE
    /\ Goto(c, "err")
    /\ UNCHANGED <<state, queue, rxAlive, late>>

\* The rest of a call once it has begun; every call returns without waiting.
CallStep(c, msgs) ==
    \/ \E m \in msgs : SendTry(c, m)
    \/ EvictMark(c)
    \/ CloseTry(c)
    \/ Notify(c)

=============================================================================
