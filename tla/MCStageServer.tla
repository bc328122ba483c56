--------------------------- MODULE MCStageServer ---------------------------
(***************************************************************************)
(* Instance of StageServer for TLC.  Everything is bounded by the number   *)
(* of clients and of their requests.  A server whose clients have left or  *)
(* say nothing waits in select.                                            *)
(***************************************************************************)
EXTENDS StageServer

CONSTANTS c1, c2, c3

ThreeClients == {c1, c2, c3}

\* The third client connects, says nothing and stays.
Asks   == [c \in Clients |-> IF c = c1 THEN 2 ELSE IF c = c2 THEN 1 ELSE 0]
Leaves == {c1, c2}

\* A file of two chunks, an empty one.
Files == [c \in Clients |-> IF c = c1 THEN 2 ELSE 0]
=============================================================================
