-------------------------- MODULE MCClientPerform --------------------------
(***************************************************************************)
(* Instances of ClientPerform for TLC.                                     *)
(***************************************************************************)
EXTENDS ClientPerform
=============================================================================
