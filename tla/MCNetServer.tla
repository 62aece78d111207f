--------------------------- MODULE MCNetServer -----------------------------
(***************************************************************************)
(* Instance of NetServer for TLC.                                          *)
(***************************************************************************)
EXTENDS NetServer
=============================================================================
