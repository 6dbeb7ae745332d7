---------------------------- MODULE MCLoopLedger ----------------------------
(* Two processes, a loop of two steps and one human gate.                  *)
EXTENDS LoopLedgerProperties, TLC

Symmetry == Permutations(Actor) \cup Permutations(Step)
=============================================================================
