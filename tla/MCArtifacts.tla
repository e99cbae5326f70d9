---------------------------- MODULE MCArtifacts ----------------------------
(* Small instances of Artifacts for TLC.  Episodes are interchangeable as far *)
(* as the bound on deletions does not tell them apart.                        *)
EXTENDS Artifacts, TLC

Symmetry ==
  Permutations(Deletable) \cup Permutations(Episodes \ Deletable)
    \cup Permutations(Audios) \cup Permutations(Bytes) \cup Permutations(Runs)

=============================================================================
