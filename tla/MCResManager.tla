---------------------------- MODULE MCResManager ----------------------------
(***************************************************************************)
(* Instance of ResManager for TLC.  Each client connects once and sends    *)
(* MaxMessages at most; ages stop at Expiry + 1.                           *)
(***************************************************************************)
EXTENDS ResManager

CONSTANTS c1, c2, c3, h1, h2

MCClients == {c1, c2, c3}
MCHandles == {h1, h2}
=============================================================================
