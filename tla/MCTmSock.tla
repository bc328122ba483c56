------------------------------ MODULE MCTmSock ------------------------------
(***************************************************************************)
(* Instances of TmSock for TLC.  Threads are interchangeable; a connection *)
(* gets the least name nobody knows.  The clock stops at MaxClock, so that *)
(* late entries tie, as entries of the same second do.                     *)
(***************************************************************************)
EXTENDS TmSock, TLC

Symmetry == Permutations(Threads)
=============================================================================
