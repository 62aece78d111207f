----------------------------- MODULE MCJobList -----------------------------
(***************************************************************************)
(* Instances of JobList for TLC.                                           *)
(***************************************************************************)
EXTENDS JobList
=============================================================================
