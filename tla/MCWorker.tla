----------------------------- MODULE MCWorker -----------------------------
(* Small instances of Worker for TLC.  Processes are interchangeable, and so  *)
(* are message identities: nothing in Worker orders or names them.            *)
EXTENDS Worker, TLC

Symmetry == Permutations(Workers) \cup Permutations(Msgs)

=============================================================================
