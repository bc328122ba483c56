----------------------------- MODULE MCTimedIo ------------------------------
(***************************************************************************)
(* Instance of TimedIo for TLC.  Each client connects once and sends       *)
(* MaxMessages at most; ages stop at expir_delay + 1.                      *)
(***************************************************************************)
EXTENDS TimedIo

CONSTANTS c1, c2, h1, h2

MCClients == {c1, c2}
MCHandles == {h1, h2}
=============================================================================
