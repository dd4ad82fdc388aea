-------------------------- MODULE MCPredictionSync --------------------------
(***************************************************************************)
(* Small instances of PredictionSync for TLC.                              *)
(***************************************************************************)
EXTENDS PredictionSync, TLC

(* Runs are interchangeable; selections and keys are ordered.              *)
Symmetry == Permutations(Runs)

=============================================================================
