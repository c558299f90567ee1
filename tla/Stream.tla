------------------------------- MODULE Stream -------------------------------
(***************************************************************************)
(* What WebSocketClient promises of the messages it receives               *)
(* (src/src/client.rs): recv() yields what the server sent, in order and   *)
(* without gaps, a Close is the last of it, and the end is reported only   *)
(* once all of it has been handed over.                                    *)
(***************************************************************************)
EXTENDS Naturals, Sequences

CONSTANTS
    Items,  \* what the server may send
    Last    \* the item nothing follows, a Close

VARIABLES
    sent,       \* what has been read from the socket
    received,   \* what recv() has returned
    ended       \* recv() has returned None

Init == sent = <<>> /\ received = <<>> /\ ended = FALSE

Send(m) ==
    /\ ~ended
    /\ sent = <<>> \/ sent[Len(sent)] # Last
    /\ sent' = Append(sent, m)
    /\ UNCHANGED <<received, ended>>

Receive ==
    /\ Len(received) < Len(sent)
    /\ received' = Append(received, sent[Len(received) + 1])
    /\ UNCHANGED <<sent, ended>>

End ==
    /\ received = sent
    /\ ended' = TRUE
    /\ UNCHANGED <<sent, received>>

Next == (\E m \in Items : Send(m)) \/ Receive \/ End

Spec == Init /\ [][Next]_<<sent, received, ended>>
=============================================================================
