-------------------------- MODULE MCCnFinalPublish --------------------------
(* Instances of CnFinalPublish for TLC: nodes 1 and 2 publish from a stage,     *)
(* node 3 has no legacy ledger (as AGENT), node 4 is the auxiliary node.        *)
EXTENDS CnFinalPublish

=============================================================================
