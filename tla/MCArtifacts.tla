---------------------------- MODULE MCArtifacts ----------------------------
(***************************************************************************)
(* Artifacts for TLC.  Requests are interchangeable; jobs are not, they    *)
(* are numbered in the order of the queue.                                 *)
(***************************************************************************)
EXTENDS Artifacts, TLC

Symmetry == Permutations(Requests)
=============================================================================
