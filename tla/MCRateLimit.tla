---------------------------- MODULE MCRateLimit ----------------------------
(***************************************************************************)
(* RateLimit for TLC.  Requests are interchangeable.                       *)
(***************************************************************************)
EXTENDS RateLimit, TLC

Symmetry == Permutations(Requests)
=============================================================================
