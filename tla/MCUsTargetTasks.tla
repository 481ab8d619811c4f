--------------------------- MODULE MCUsTargetTasks ---------------------------
(***************************************************************************)
(* The US Application target bulk tasks with small bounds.                 *)
(***************************************************************************)
EXTENDS UsTargetTasks
=============================================================================
