--------------------------- MODULE MCModelSettings ---------------------------
(***************************************************************************)
(* ModelSettings for TLC.  Requests and validation ids are                 *)
(* interchangeable.                                                        *)
(***************************************************************************)
EXTENDS ModelSettings, TLC

CONSTANTS p1, p2, padded, d1, d2, m1, k1

(* padded is p1 with blanks around it. *)
MCPlace == p1 :> d1 @@ p2 :> d2 @@ padded :> d1

Nothing == [col \in Columns |-> Unset]
Set(col, value) == col :> value @@ Nothing
Provider == <<"provider", "summary">>
Path == <<"path", "summary">>
Model == <<"model", "summary">>

MCOldPaths == {<<"summary", p1>>}

MCPatches ==
  {Set(Provider, "local"), Set(Path, p2),
   Provider :> "cloud" @@ Set(Model, m1),
   Provider :> Null @@ Path :> padded @@ Set(Key, k1)}

Symmetry == Permutations(Requests) \cup Permutations(Proofs)
=============================================================================
