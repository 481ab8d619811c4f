----------------------------- MODULE MCCnIngest -----------------------------
(* TLC instances of CnIngest. *)
EXTENDS CnIngest

CONSTANTS p1, p2

\* The final publish reads all its sources: raw stage, case, scope and party.
MCStageTable == [i \in 1..NumTasks |-> <<"raw", "case", "scope", "party">>[((i - 1) % 4) + 1]]

=============================================================================
