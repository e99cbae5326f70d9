---------------------------- MODULE JobContract ----------------------------
(* What the job system promises to whoever submits a job, with no queue, no   *)
(* lease and no clock: an accepted job is worked on by one process at a time, *)
(* at most MaxAttempts times, until it succeeds or is given up; that outcome  *)
(* is final.  A submitter can only take the job away with its episode.        *)
EXTENDS Integers

CONSTANTS Jobs, Workers, MaxAttempts

VARIABLES
  phase,   \* "absent", "open", "succeeded", "dead" or "deleted"
  budget,  \* attempts left
  crew     \* the processes at work on the job

contractVars == <<phase, budget, crew>>

Init ==
  /\ phase = [j \in Jobs |-> "absent"]
  /\ budget = [j \in Jobs |-> MaxAttempts]
  /\ crew = [j \in Jobs |-> {}]

Accept(j) ==
  /\ phase[j] = "absent"
  /\ phase' = [phase EXCEPT ![j] = "open"]
  /\ UNCHANGED <<budget, crew>>

\* Nobody is at work on it, and it has not used up its attempts.
Begin(j, w) ==
  /\ phase[j] = "open" /\ crew[j] = {} /\ budget[j] > 0
  /\ crew' = [crew EXCEPT ![j] = {w}]
  /\ budget' = [budget EXCEPT ![j] = @ - 1]
  /\ UNCHANGED phase

\* The attempt ends without an outcome: it failed, or its process died, or the
\* job was deleted under it.
Abandon(j, w) ==
  /\ w \in crew[j]
  /\ crew' = [crew EXCEPT ![j] = @ \ {w}]
  /\ UNCHANGED <<phase, budget>>

Finish(j, w, outcome) ==
  /\ phase[j] = "open" /\ crew[j] = {w}
  /\ phase' = [phase EXCEPT ![j] = outcome]
  /\ crew' = [crew EXCEPT ![j] = {}]
  /\ UNCHANGED budget

\* Nobody can do this kind of work: given up without an attempt.
Reject(j) ==
  /\ phase[j] = "open" /\ crew[j] = {}
  /\ phase' = [phase EXCEPT ![j] = "dead"]
  /\ UNCHANGED <<budget, crew>>

Delete(j) ==
  /\ phase[j] \in {"open", "succeeded", "dead"}
  /\ phase' = [phase EXCEPT ![j] = "deleted"]
  /\ UNCHANGED <<budget, crew>>

Next ==
  \E j \in Jobs :
    \/ Accept(j) \/ Reject(j) \/ Delete(j)
    \/ \E w \in Workers :
         \/ Begin(j, w) \/ Abandon(j, w)
         \/ \E outcome \in {"succeeded", "dead"} : Finish(j, w, outcome)

Spec == Init /\ [][Next]_contractVars

=============================================================================
