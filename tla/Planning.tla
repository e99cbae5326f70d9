------------------------------ MODULE Planning -----------------------------
(* One plan job from its transcript to the plan it saves: generate_plan of    *)
(* edlo/jobs/plan.py over the windows, the gateway's calls (ai/gateway.py)    *)
(* and the grounding of what they answer, while people flag (routes/flags.py).*)
(* How a saved plan replaces the last one is PlanBoard.                       *)
EXTENDS Grounding, SequencesExt

CONSTANTS
  Transcripts,             \* artifacts an episode may have
  Flags,                   \* flags people may add
  CutAnswers, ColdAnswers, \* lists of candidates the model may answer
  Errors,                  \* what a call may raise: a status code or the like
  MaxCuts, MaxColds,       \* the caps of the settings
  MaxCutSpan, MaxColdSpan, \* the longest spans validate accepts
  MaxTries,                \* executions of the job before it is dead
  None

ASSUME PlanningAssumption ==
  /\ MaxCuts \in Nat /\ MaxColds \in Nat /\ MaxTries \in Nat
  /\ "violation" \notin Errors
  /\ \A list \in CutAnswers \cup ColdAnswers : list \in Seq(Candidates)
  /\ \A t \in Transcripts :
       /\ t.duration \in Nat \ {0}
       /\ \A i \in DOMAIN t.segments :
            t.segments[i].start \in Nat /\ t.segments[i].end \in Nat

VARIABLES
  ai,          \* the setting ai_enabled
  flags,       \* the flags of the episode, and those the job read, in order
  flagsRead,
  phase,       \* where the job is
  tries,
  at,          \* the window it asks about
  call,        \* "cuts", then "colds"
  attempt,     \* 0, then 1
  answer,      \* the cuts of the window, while its cold opens are asked for
  cuts, colds, \* what the model proposed
  valid,       \* what is left of the two lists after the rules
  plan,        \* the plan saved
  heard        \* history: the two answers of each window, or the last error

asking == <<at, call, attempt, answer, cuts, colds, valid, heard>>
vars == <<windowVars, ai, flags, flagsRead, phase, tries, asking, plan>>

NoneValid == [cuts |-> <<>>, colds |-> <<>>]

NotAsked ==
  /\ at = 1 /\ call = "cuts" /\ attempt = 0 /\ answer = <<>>
  /\ cuts = <<>> /\ colds = <<>> /\ heard = <<>> /\ valid = NoneValid

Init ==
  /\ transcript \in Transcripts /\ start = 0 /\ wins = <<>>
  /\ ai \in BOOLEAN
  /\ flags = {} /\ flagsRead = <<>>
  /\ phase = "loading" /\ tries = 1
  /\ NotAsked
  /\ plan = None

-----------------------------------------------------------------------------

\* People flag while the job runs; what they flag after it no one here reads.
Running == phase \notin {"saved", "failed"}

AddFlag(f) ==
  /\ Running /\ f \notin flags
  /\ flags' = flags \cup {f}
  /\ UNCHANGED <<windowVars, ai, flagsRead, phase, tries, asking, plan>>

RemoveFlag(f) ==
  /\ Running /\ f \in flags
  /\ flags' = flags \ {f}
  /\ UNCHANGED <<windowVars, ai, flagsRead, phase, tries, asking, plan>>

InOrder(s) == \A i, j \in DOMAIN s : i < j => s[i] # s[j] /\ s[i].start <= s[j].start

\* load_transcript takes the last transcript, and the flags are read once.
Load ==
  /\ phase = "loading"
  /\ \E t \in Transcripts : transcript' = t
  /\ start' = 0 /\ wins' = <<>>
  /\ \E s \in [1..Cardinality(flags) -> flags] : InOrder(s) /\ flagsRead' = s
  /\ phase' = "windowing"
  /\ UNCHANGED <<ai, flags, tries, asking, plan>>

\* No transcript: a PermanentFailure.
LoadNothing ==
  /\ phase = "loading"
  /\ phase' = "failed"
  /\ UNCHANGED <<windowVars, ai, flags, flagsRead, tries, asking, plan>>

MakeWindow ==
  /\ phase = "windowing"
  /\ WindowStep
  /\ UNCHANGED <<ai, flags, flagsRead, phase, tries, asking, plan>>

Ask ==
  /\ phase = "windowing" /\ start = transcript.duration
  /\ phase' = IF ai THEN "asking" ELSE "checking"
  /\ UNCHANGED <<windowVars, ai, flags, flagsRead, tries, asking, plan>>

-----------------------------------------------------------------------------
(* _propose: two calls for each window, each of at most two attempts.  What    *)
(* was already answered of the window is dropped when a call raises.          *)

Asking == phase = "asking" /\ at <= Len(wins)

NextWindow(outcome) ==
  /\ at' = at + 1 /\ call' = "cuts" /\ attempt' = 0 /\ answer' = <<>>
  /\ heard' = Append(heard, outcome)

\* Mutant of Answered: each list grows when its call returns.
AnsweredOneByOne(answers) ==
  IF call = "cuts"
  THEN /\ answer' = answers /\ call' = "colds" /\ attempt' = 0
       /\ cuts' = cuts \o answers
       /\ UNCHANGED <<at, colds, heard>>
  ELSE /\ NextWindow([cuts |-> answer, colds |-> answers, error |-> "none"])
       /\ colds' = colds \o answers
       /\ UNCHANGED cuts

Answered(answers) ==
  IF call = "cuts"
  THEN /\ answer' = answers /\ call' = "colds" /\ attempt' = 0
       /\ UNCHANGED <<at, cuts, colds, heard>>
  ELSE /\ NextWindow([cuts |-> answer, colds |-> answers, error |-> "none"])
       /\ cuts' = cuts \o answer
       /\ colds' = colds \o answers

Answer ==
  /\ Asking
  /\ \E answers \in IF call = "cuts" THEN CutAnswers ELSE ColdAnswers : Answered(answers)
  /\ UNCHANGED <<windowVars, ai, flags, flagsRead, phase, tries, plan, valid>>

Retryable == {"429", "500", "502", "503", "504", "529", "no status"}

\* Mutant of Classify: too many requests is an answer like another.
ClassifyStrictly(error) ==
  CASE error = "timeout" -> "ModelTimeout"
    [] error \in Retryable \ {"429"} -> "ModelUnavailable"
    [] OTHER -> "ModelInvalidOutput"

Classify(error) ==
  CASE error = "timeout" -> "ModelTimeout"
    [] error \in Retryable -> "ModelUnavailable"
    [] OTHER -> "ModelInvalidOutput"

Structural(error) == Classify(error) = "ModelInvalidOutput"

\* Mutant of NextAttempt: a corrected prompt begins anew.
NextAttemptCorrected(error) == IF error = "violation" THEN 0 ELSE attempt + 1

NextAttempt(error) == attempt + 1

\* An answer that does not match the schema gets the second attempt, as a
\* transient error does; a structural error is raised at once.  The error of the
\* last attempt says what becomes of the call.
GivesUp(error) ==
  NextAttempt(error) = 2 \/ (error # "violation" /\ Structural(error))

TryAgain(error) ==
  /\ Asking /\ ~GivesUp(error)
  /\ attempt' = NextAttempt(error)
  /\ UNCHANGED <<windowVars, ai, flags, flagsRead, phase, tries, at, call, answer,
                 cuts, colds, valid, plan, heard>>

SkipWindow(error) ==
  /\ Asking /\ GivesUp(error) /\ Structural(error)
  /\ NextWindow([cuts |-> <<>>, colds |-> <<>>, error |-> error])
  /\ UNCHANGED <<windowVars, ai, flags, flagsRead, phase, tries, cuts, colds, valid, plan>>

\* This execution is over.
Stopped ==
  /\ at' = 1 /\ call' = "cuts" /\ attempt' = 0 /\ answer' = <<>>
  /\ cuts' = <<>> /\ colds' = <<>> /\ heard' = <<>> /\ valid' = NoneValid
  /\ UNCHANGED <<windowVars, ai, flags, flagsRead, tries, plan>>

\* A transient failure: the job is marked failed, or dead after its last try.
ModelUnavailable(error) ==
  /\ Asking /\ GivesUp(error) /\ ~Structural(error)
  /\ phase' = IF tries < MaxTries THEN "stopped" ELSE "failed"
  /\ Stopped

\* The transcript cannot be downloaded, or the process dies.
Die ==
  /\ Running /\ phase # "stopped"
  /\ phase' = "stopped"
  /\ Stopped

\* The job starts over, if its message comes back and is claimed (Worker).
Redelivered ==
  /\ phase = "stopped" /\ tries < MaxTries
  /\ phase' = "loading" /\ tries' = tries + 1
  /\ UNCHANGED <<windowVars, ai, flags, flagsRead, asking, plan>>

Asked ==
  /\ phase = "asking" /\ at = Len(wins) + 1
  /\ phase' = "checking"
  /\ UNCHANGED <<windowVars, ai, flags, flagsRead, tries, asking, plan>>

-----------------------------------------------------------------------------

\* validate, of each list by itself.
Check ==
  /\ phase = "checking"
  /\ valid' = [cuts |-> Grounded(cuts, transcript, MaxCutSpan),
               colds |-> Grounded(colds, transcript, MaxColdSpan)]
  /\ phase' = "saving"
  /\ UNCHANGED <<windowVars, ai, flags, flagsRead, tries, at, call, attempt, answer,
                 cuts, colds, heard, plan>>

RejectedCuts ==
  Rejected(cuts, valid.cuts, transcript, CapLeft(MaxCuts, flagsRead), MaxCutSpan)
RejectedColds == Rejected(colds, valid.colds, transcript, MaxColds, MaxColdSpan)

\* Mutant of Rejections: the cold opens that fail are not counted.
RejectionsOfCuts == RejectedCuts

\* One counter over both lists.
Rejections == [r \in RuleNames |-> RejectedCuts[r] + RejectedColds[r]]

Save ==
  /\ phase = "saving"
  /\ plan' = [status |-> IF ai THEN "ready" ELSE "ai_disabled",
              windows |-> Len(wins),
              proposed |-> Len(cuts) + Len(colds),
              rejections |-> Rejections,
              items |-> Merge(flagsRead, valid.cuts, MaxCuts),
              colds |-> Kept(valid.colds, MaxColds)]
  /\ phase' = "saved"
  /\ UNCHANGED <<windowVars, ai, flags, flagsRead, tries, asking>>

Failing(error) == TryAgain(error) \/ SkipWindow(error) \/ ModelUnavailable(error)

Progress ==
  \/ Load \/ LoadNothing \/ MakeWindow \/ Ask \/ Answer
  \/ \E error \in Errors \cup {"violation"} : Failing(error)
  \/ Asked \/ Check \/ Save

Next == Progress \/ Die \/ Redelivered \/ \E f \in Flags : AddFlag(f) \/ RemoveFlag(f)

\* A process that executes the handler goes on with it, and every call returns
\* or times out.  It need not die, and nothing says that the job of one that
\* died, or failed, is ever executed again.
Spec == Init /\ [][Next]_vars /\ WF_vars(Progress)

-----------------------------------------------------------------------------

ModelItems == {i \in DOMAIN plan.items : plan.items[i].source = "model"}

Total(r) ==
  r.timecode_out_of_range + r.timecode_inverted + r.quote_too_short
    + r.quote_not_in_transcript + r.quote_not_at_timecode + r.span_too_long + r.over_cap

\* Every candidate the model proposed is in the plan or was rejected by exactly
\* one rule, cuts and cold opens together: the counters are "the regression
\* detector" (jobs/plan.py).
Accounted ==
  plan # None =>
    plan.proposed = Cardinality(ModelItems) + Len(plan.colds) + Total(plan.rejections)

\* Flags all come first, more of them than the cap if need be; the model fills
\* what is left, and no candidate the cap left out was surer than one it kept.
CapIsFair ==
  plan # None =>
    /\ SubSeq(plan.items, 1, Len(flagsRead)) = Proposed("human", flagsRead)
    /\ ModelItems # {} => Len(plan.items) <= MaxCuts
    /\ \A c \in ToSet(valid.cuts) :
         \/ \E i \in ModelItems : plan.items[i].item = c
         \/ /\ Len(plan.items) >= MaxCuts
            /\ \A i \in ModelItems : plan.items[i].item.confidence >= c.confidence

\* A plan is made of the windows for which both calls were answered, and no
\* window is lost to a provider that was only busy: "one window of bad output
\* does not sink the plan" (jobs/plan.py), and a transient error is retried.
AllOrNothing ==
  plan # None =>
    /\ cuts = FlattenSeq([w \in DOMAIN heard |-> heard[w].cuts])
    /\ colds = FlattenSeq([w \in DOMAIN heard |-> heard[w].colds])
    /\ ai => Len(heard) = Len(wins)
    /\ \A w \in DOMAIN heard : heard[w].error \notin Retryable \cup {"timeout"}

\* Refuted (moment_lost.cfg): of every moment that validate would accept as a
\* cold open, some window shows all that is said; "thirty seconds is longer than
\* any cold open we would accept, so nothing is lost" (windows.py), yet plan.py
\* accepts sixty and the prompt asks for up to forty.
NothingLost ==
  phase \in {"asking", "checking"} =>
    \A from, to \in 0..transcript.duration :
      Moment(from, to, MaxColdSpan) =>
        \E i \in DOMAIN wins :
          Speaking(transcript, from, to)
            \subseteq Speaking(transcript, wins[i].start, wins[i].end)

\* Every execution ends: no answer of the model makes it ask for ever.
GenerationEnds == []<>(phase \in {"saved", "failed", "stopped"})

=============================================================================
