---------------------------- MODULE MCSharedList ----------------------------
(***************************************************************************)
(* Instances of SharedList for TLC.                                        *)
(***************************************************************************)
EXTENDS SharedList, TLC

\* Threads and elements are interchangeable (safety runs only).
Symmetry == Permutations(Threads) \union Permutations(Elements)
=============================================================================
