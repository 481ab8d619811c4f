----------------------------- MODULE MCCnReplay -----------------------------
(* Instances of CnReplay for TLC.                                          *)
EXTENDS CnReplay, TLC

\* Runners are interchangeable (not used with liveness properties).
Symmetry == Permutations(Runners)

=============================================================================
