---------------------------- MODULE MCRQQueue ----------------------------
(* Small instances of RQQueue for TLC; processes and messages are             *)
(* interchangeable.                                                           *)
EXTENDS RQQueue, TLC

Symmetry == Permutations(Procs) \cup Permutations(Ids)

=============================================================================
