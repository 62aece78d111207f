----------------------- MODULE MCClientCommunication -----------------------
(***************************************************************************)
(* Instance of ClientCommunication for TLC.                                *)
(***************************************************************************)
EXTENDS ClientCommunication, TLC

CONSTANTS d1, d2, d3

\* The database takes d1 and d2 for one device.
MCCollated == (d1 :> 1) @@ (d2 :> 1) @@ (d3 :> 3)

Symmetry == Permutations(Sessions) \union Permutations(Users) \union Permutations({d1, d2})
=============================================================================
