--------------------------- MODULE MCCaseGovernance ---------------------------
(* Instances of CaseGovernance for the model checker. *)
EXTENDS CaseGovernanceProperties, TLC

CONSTANTS x1, x2, m, p1, p2

Alike == Permutations(Worker)
=============================================================================
