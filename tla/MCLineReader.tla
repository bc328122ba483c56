---------------------------- MODULE MCLineReader ----------------------------
(***************************************************************************)
(* Instances of LineReader for TLC: three bytes are enough, the code tells *)
(* CR, LF and the others apart.                                            *)
(***************************************************************************)
EXTENDS LineReader
=============================================================================
