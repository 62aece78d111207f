----------------------- MODULE MCClientAuthentication -----------------------
(***************************************************************************)
(* Instance of ClientAuthentication for TLC.                               *)
(***************************************************************************)
EXTENDS ClientAuthentication, TLC

CONSTANTS k1, k2, k3

\* A query takes k1 and k2 for one key.
MCCollated == (k1 :> 1) @@ (k2 :> 1) @@ (k3 :> 3)

Symmetry == Permutations(Mails) \union Permutations(Passwords) \union Permutations({k1, k2})
=============================================================================
