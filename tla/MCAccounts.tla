----------------------------- MODULE MCAccounts -----------------------------
(***************************************************************************)
(* Accounts for TLC.  Requests and session tokens are interchangeable.     *)
(***************************************************************************)
EXTENDS Accounts, TLC

Set(column, value) == [NoChange EXCEPT ![column] = value]

(* One column at a time.                                                   *)
MCChanges ==
  {Set("status", "active"), Set("status", "inactive"), Set("role", "user")}

Symmetry == Permutations(Requests) \cup Permutations(Tokens)
=============================================================================
