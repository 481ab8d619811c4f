-------------------------- MODULE MCUsTargetCommit --------------------------
(***************************************************************************)
(* Two plans for the same suffix package (the second was frozen by a later *)
(* authority generation); two tables, of which the bridge leaves one empty *)
(* and the suffix package fills one in two blocks.                         *)
(***************************************************************************)
EXTENDS UsTargetCommit

MCPackageOf == [q \in Plans |-> 3]
MCRows == [p \in Packages |-> IF p = Bridge THEN <<1, 0>> ELSE <<1, 2>>]
=============================================================================
