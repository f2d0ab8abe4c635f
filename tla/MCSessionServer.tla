--------------------------- MODULE MCSessionServer ---------------------------
(* The server model with the events of small instances.                    *)
EXTENDS SessionServer
CONSTANTS k1, c1

MCEvent == SessionEvent
=============================================================================
