--------------------------- MODULE MCConnections ---------------------------
(***************************************************************************)
(* Instance of Connections for TLC.                                        *)
(***************************************************************************)
EXTENDS Connections, TLC

Symmetry == Permutations(Connections)
=============================================================================
