------------------------ MODULE MCServerConnection ------------------------
(* A small instance of ServerConnection for TLC.                            *)
EXTENDS ServerConnection, TLC

CONSTANTS s1, conn

BothCallers == {s1, conn}
===========================================================================
