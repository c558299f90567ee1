------------------------------ MODULE MCServer ------------------------------
(* Small instances of Server for TLC.                                       *)
EXTENDS Server

CONSTANTS p1, p2, p3

ThreePeers == {p1, p2, p3}

Spelt(s, u, l, w) == [site |-> s, upper |-> u, slashed |-> l, padded |-> w]

\* One allowed site, entered in one spelling and sent in another.
OneAllowed == {Spelt("here", TRUE, TRUE, FALSE)}
Here       == Spelt("here", FALSE, FALSE, TRUE)
There      == Spelt("there", FALSE, FALSE, FALSE)
Opaque     == {<<>>, <<Unreadable>>}
Lists      == {<<>>, <<Here>>, <<There>>, <<Here, There>>, <<Unreadable>>}
=============================================================================
