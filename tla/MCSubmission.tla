---------------------------- MODULE MCSubmission ----------------------------
(* Small instances of Submission for TLC: the calls clients really make.      *)
EXTENDS Submission, TLC

CONSTANTS k1, k2

\* complete: the job's key is the uploaded row, named in the body; a retry
\* reuses the key, another attempt has a new one, a confused client sends the
\* body of another upload under the old key.
Complete(key, body) ==
  [key |-> key, route |-> "complete", body |-> body, upload |-> body, job |-> body]

\* plan: no body, the job's key is the Idempotency-Key.
Plan(key) ==
  [key |-> key, route |-> "plan", body |-> "empty", upload |-> None, job |-> key]

\* complete for a final mix: stored, and nothing queued.
FinalMix(key) ==
  [key |-> key, route |-> "complete", body |-> "final", upload |-> "final", job |-> None]

MCCalls == {Complete(k1, "mix1"), Complete(k1, "mix2"), Complete(k2, "mix1"),
            Plan(k1), FinalMix(k2)}

UploadCalls == {Complete(k1, "mix1")}

Symmetry == Permutations(Requests)

=============================================================================
