---------------------------- MODULE MCThreadPool ----------------------------
(***************************************************************************)
(* Instances of ThreadPool for TLC.  The state space is finite as it is:   *)
(* nothing but NrSlots and Tasks has to be bounded.                        *)
(***************************************************************************)
EXTENDS ThreadPool
=============================================================================
