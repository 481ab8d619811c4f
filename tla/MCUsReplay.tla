----------------------------- MODULE MCUsReplay -----------------------------
(***************************************************************************)
(* The US Application replay with small bounds.                            *)
(***************************************************************************)
EXTENDS UsReplay
=============================================================================
