------------------------------ MODULE MCStages ------------------------------
(* Small instances of Stages for TLC.                                         *)
EXTENDS Stages, TLC

Symmetry == Permutations(Txns)

=============================================================================
