------------------------------ MODULE MCServer ------------------------------
(***************************************************************************)
(* Instances of Server for TLC: all that has to be bounded is the listen   *)
(* queue, by MaxWaiting.                                                   *)
(***************************************************************************)
EXTENDS Server
=============================================================================
