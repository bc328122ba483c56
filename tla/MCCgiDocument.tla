--------------------------- MODULE MCCgiDocument ---------------------------
(***************************************************************************)
(* Instances of CgiDocument for TLC.  Everything is bounded by the lengths *)
(* of the entity and of the output.  A document that has ended, or hangs   *)
(* in one of the ways DocumentEnds admits, has no step to take.            *)
(***************************************************************************)
EXTENDS CgiDocument
=============================================================================
