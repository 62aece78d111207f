---------------------------- MODULE MCClientSend ----------------------------
(***************************************************************************)
(* Instance of ClientSend for TLC.                                         *)
(***************************************************************************)
EXTENDS ClientSend, TLC

Symmetry == Permutations(Messages)
=============================================================================
