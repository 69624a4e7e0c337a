---------------------------- MODULE MCCampaigns ----------------------------
(***************************************************************************)
(* Campaigns for TLC.  Requests are interchangeable, and so are users:     *)
(* none of them is named.                                                  *)
(***************************************************************************)
EXTENDS Campaigns, TLC

Symmetry == Permutations(Requests) \cup Permutations(Users)
=============================================================================
