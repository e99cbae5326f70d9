---------------------------- MODULE MCPlanBoard ----------------------------
(* Small instances of PlanBoard for TLC.                                      *)
EXTENDS PlanBoard, TLC

Symmetry == Permutations(Jobs) \cup Permutations(Editors) \cup Permutations(Places)

=============================================================================
