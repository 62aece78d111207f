-------------------------- MODULE MCStreamRecieve --------------------------
(***************************************************************************)
(* Instance of StreamRecieve for TLC.                                      *)
(***************************************************************************)
EXTENDS StreamRecieve, TLC

Symmetry == Permutations(Streams)
=============================================================================
