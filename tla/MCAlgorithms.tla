---------------------------- MODULE MCAlgorithms ----------------------------
(***************************************************************************)
(* Algorithms for TLC.                                                     *)
(***************************************************************************)
EXTENDS Algorithms, TLC
=============================================================================
