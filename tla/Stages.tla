------------------------------- MODULE Stages -------------------------------
(* The workflow of one episode (edlo/services/workflow.py): its stage, its    *)
(* history, and the transactions that move or remove it: the stage route, the *)
(* approval with its policy gate, the jobs that persist a transcript, a plan  *)
(* or a publishing pack, and the deletion.  A transaction reads the episode,  *)
(* decides on what it read, and commits later; the ORM writes the stage by    *)
(* primary key, whatever the row says by then, and fails if the row is gone.  *)
EXTENDS Naturals, FiniteSets

CONSTANTS
  Txns,            \* transactions at one time
  MaxMoves,        \* bound on the rows of stage_transitions
  MaxTranscripts,  \* bound on the transcripts
  MaxPacks,        \* bound on the publishing packs
  Targets,         \* the stages that are asked for, known or not
  None

STAGES == {"registered", "mixing", "plan_ready", "editing", "review",
           "published", "blocked"}

LEGAL ==
  [registered |-> {"mixing", "blocked"},
   mixing |-> {"plan_ready", "blocked"},
   plan_ready |-> {"editing", "mixing", "blocked"},
   editing |-> {"review", "plan_ready", "blocked"},
   review |-> {"published", "editing", "blocked"},
   published |-> {},
   blocked |-> {"registered", "mixing", "plan_ready", "editing", "review"}]

Role == {"audio_editor", "video_editor", "owner"}

\* Who may move an episode into a stage; nobody into "registered".
OWNERS ==
  [mixing |-> {"audio_editor", "owner"},
   plan_ready |-> {"video_editor", "owner"},
   editing |-> {"video_editor", "owner"},
   review |-> {"video_editor", "owner"},
   published |-> {"owner"},
   blocked |-> Role]

Moves == [n : 1..MaxMoves, from : STAGES, to : STAGES]
Transcripts == 1..MaxTranscripts

\* A pack: the transcripts under which check_pack finds no violation, and
\* whether violations are written on it.
Packs == [no : 1..MaxPacks, clean : SUBSET Transcripts, violations : BOOLEAN]

ASSUME StagesAssumption ==
  /\ MaxMoves \in Nat /\ MaxTranscripts \in Nat /\ MaxPacks \in Nat
  /\ None \notin STAGES \cup Packs
  /\ None \notin [stage : STAGES, published_at : BOOLEAN]

VARIABLES
  ep,           \* the committed row of the episode, None when deleted
  moves,        \* the rows of stage_transitions, numbered as committed
  moved,        \* their number so far
  transcripts,  \* the transcript rows, numbered as created
  made,         \* their number so far
  pack,         \* the latest publishing pack
  pc,           \* where a transaction is
  seen, to,     \* the stage it read, the stage it moves to
  read,         \* the pack it read
  latest,       \* the transcript it read, 0 for none
  found,        \* the rows a deletion has deleted and not committed
  torn          \* history: some commit was made on a stage that had moved since
                \* its transaction read it

txnVars == <<pc, seen, to, read, latest, found>>
stagesVars == <<ep, moves, moved, transcripts, made, pack, txnVars, torn>>

NoRows == [moves |-> {}, transcripts |-> {}]

TypeOK ==
  /\ ep \in [stage : STAGES, published_at : BOOLEAN] \cup {None}
  /\ moves \subseteq Moves /\ moved \in 0..MaxMoves
  /\ transcripts \subseteq 1..made /\ made \in 0..MaxTranscripts
  /\ pack \in Packs \cup {None}
  /\ pc \in [Txns -> {"idle", "moving", "persisting", "gate", "checking", "refusing",
                      "drafting", "deleting", "deleted"}]
  /\ seen \in [Txns -> STAGES \cup {None}]
  /\ to \in [Txns -> STAGES \cup {None}]
  /\ read \in [Txns -> Packs \cup {None}]
  /\ latest \in [Txns -> 0..MaxTranscripts]
  /\ found \in [Txns -> [moves : SUBSET Moves, transcripts : SUBSET Transcripts]]
  /\ torn \in BOOLEAN

Init ==
  /\ ep = [stage |-> "registered", published_at |-> FALSE]
  /\ moves = {} /\ moved = 0
  /\ transcripts = {} /\ made = 0
  /\ pack = None
  /\ pc = [t \in Txns |-> "idle"]
  /\ seen = [t \in Txns |-> None]
  /\ to = [t \in Txns |-> None]
  /\ read = [t \in Txns |-> None]
  /\ latest = [t \in Txns |-> 0]
  /\ found = [t \in Txns |-> NoRows]
  /\ torn = FALSE

-----------------------------------------------------------------------------
Latest == CHOOSE n \in transcripts : \A m \in transcripts : m <= n

Alone == UNCHANGED <<ep, moves, moved, transcripts, made, pack, torn>>

\* The transaction is over: committed, rolled back, refused, or its process
\* died.
Over(t) ==
  /\ pc' = [pc EXCEPT ![t] = "idle"]
  /\ seen' = [seen EXCEPT ![t] = None]
  /\ to' = [to EXCEPT ![t] = None]
  /\ read' = [read EXCEPT ![t] = None]
  /\ latest' = [latest EXCEPT ![t] = 0]
  /\ found' = [found EXCEPT ![t] = NoRows]

Rollback(t) == pc[t] # "idle" /\ Over(t) /\ Alone

MayMoveInto(target, role) == target \in DOMAIN OWNERS /\ role \in OWNERS[target]

\* Mutant of MayMove: the stage it is in is not looked at.
MayMoveAnywhere(stage, target, role) == MayMoveInto(target, role)

\* The checks of WorkflowService.transition.
MayMove(stage, target, role) == target \in LEGAL[stage] /\ MayMoveInto(target, role)

Reading(t, label, target) ==
  /\ pc[t] = "idle"
  /\ pc' = [pc EXCEPT ![t] = label]
  /\ seen' = [seen EXCEPT ![t] = IF ep = None THEN None ELSE ep.stage]
  /\ to' = [to EXCEPT ![t] = target]

\* The stage route, which leaves publishing to the approval.
ChangeStage(t, target, role) ==
  /\ ep # None /\ target # "published"
  /\ MayMove(ep.stage, target, role)
  /\ Reading(t, "moving", target)
  /\ UNCHANGED <<read, latest, found>> /\ Alone

\* generate_plan, as it saves; it loaded a transcript before.
PlanReady(t) ==
  /\ ep # None /\ ep.stage = "mixing" /\ transcripts # {}
  /\ Reading(t, "moving", "plan_ready")
  /\ UNCHANGED <<read, latest, found>> /\ Alone

\* _persist, in a transcription job or on a cache hit; the audio row is there
\* as long as the episode.
Transcribed(t) ==
  /\ ep # None
  /\ Reading(t, "persisting", IF ep.stage = "registered" THEN "mixing" ELSE None)
  /\ UNCHANGED <<read, latest, found>> /\ Alone

\* generate_pack: it works on the transcript that is now the latest.
Draft(t) ==
  /\ ep # None /\ transcripts # {}
  /\ Reading(t, "drafting", None)
  /\ latest' = [latest EXCEPT ![t] = Latest]
  /\ UNCHANGED <<read, found>> /\ Alone

\* The approval reads the episode, ...
Approve(t) ==
  /\ ep # None
  /\ Reading(t, "gate", "published")
  /\ UNCHANGED <<read, latest, found>> /\ Alone

\* ... then the latest pack, ...
ReadPack(t) ==
  /\ pc[t] = "gate"
  /\ IF pack = None THEN Over(t)
     ELSE /\ pc' = [pc EXCEPT ![t] = "checking"]
          /\ read' = [read EXCEPT ![t] = pack]
          /\ UNCHANGED <<seen, to, latest, found>>
  /\ Alone

\* Mutant of Passes: the verdict written when the pack was drafted is taken.
PassesAsDrafted(draft, transcript) == ~draft.violations

\* check_pack finds no violation.
Passes(draft, transcript) == transcript \in draft.clean

\* ... then the latest transcript, on which policy runs again.
CheckPack(t) ==
  /\ pc[t] = "checking"
  /\ IF transcripts = {} THEN Over(t)
     ELSE IF ~Passes(read[t], Latest) THEN
       /\ pc' = [pc EXCEPT ![t] = "refusing"]
       /\ UNCHANGED <<seen, to, read, latest, found>>
     ELSE IF ~MayMove(seen[t], "published", "owner") THEN Over(t)
     ELSE
       /\ pc' = [pc EXCEPT ![t] = "moving"]
       /\ latest' = [latest EXCEPT ![t] = Latest]
       /\ UNCHANGED <<seen, to, read, found>>
  /\ Alone

\* delete_episode.
Delete(t) ==
  /\ ep # None /\ ep.stage # "published"
  /\ Reading(t, "deleting", None)
  /\ UNCHANGED <<read, latest, found>> /\ Alone

DeleteRows(t) ==
  /\ pc[t] = "deleting"
  /\ pc' = [pc EXCEPT ![t] = "deleted"]
  /\ found' = [found EXCEPT ![t] = [moves |-> moves, transcripts |-> transcripts]]
  /\ UNCHANGED <<seen, to, read, latest>> /\ Alone

-----------------------------------------------------------------------------
(* The commits.                                                               *)

\* Mutant of Recorded: the history is not written.
RecordedNot(t) == UNCHANGED <<moves, moved>>

Recorded(t) ==
  /\ moved < MaxMoves
  /\ moved' = moved + 1
  /\ moves' = moves \cup {[n |-> moved + 1, from |-> seen[t], to |-> to[t]]}

\* Mutant of Stamped: published_at is left to a later request.
StampedLater(t) == [stage |-> to[t], published_at |-> ep.published_at]

\* The row as the commit leaves it.
Stamped(t) ==
  [stage |-> to[t], published_at |-> to[t] = "published" \/ ep.published_at]

\* The stage, as one UPDATE by primary key, and the row of the history.
WriteStage(t) ==
  /\ ep # None
  /\ ep' = Stamped(t)
  /\ Recorded(t)
  /\ torn' = (torn \/ ep.stage # seen[t])

\* Mutant of CommitMove: the UPDATE is not checked to have found the row.
CommitMoveUnchecked(t) ==
  /\ pc[t] = "moving"
  /\ IF ep = None THEN Recorded(t) /\ UNCHANGED <<ep, torn>> ELSE WriteStage(t)
  /\ UNCHANGED <<transcripts, made, pack>>
  /\ Over(t)

\* The UPDATE that finds no row fails the commit, history included.
CommitMove(t) ==
  /\ pc[t] = "moving"
  /\ IF ep = None THEN Alone
     ELSE WriteStage(t) /\ UNCHANGED <<transcripts, made, pack>>
  /\ Over(t)

\* Without a stage to move, the transcript is written even for an episode that
\* is gone.
CommitTranscript(t) ==
  /\ pc[t] = "persisting" /\ made < MaxTranscripts
  /\ IF to[t] # None /\ ep = None THEN Alone
     ELSE
       /\ made' = made + 1
       /\ transcripts' = transcripts \cup {made + 1}
       /\ IF to[t] # None THEN WriteStage(t)
          ELSE UNCHANGED <<ep, moves, moved, torn>>
       /\ UNCHANGED pack
  /\ Over(t)

\* The pack replaces the packs before it.
CommitPack(t, clean) ==
  LET no == IF pack = None THEN 1 ELSE pack.no + 1 IN
  /\ pc[t] = "drafting" /\ no <= MaxPacks
  /\ pack' = [no |-> no, clean |-> clean, violations |-> latest[t] \notin clean]
  /\ UNCHANGED <<ep, moves, moved, transcripts, made, torn>>
  /\ Over(t)

\* A refused approval writes what it found on the pack, if that is still there.
CommitViolations(t) ==
  /\ pc[t] = "refusing"
  /\ pack' = IF pack.no = read[t].no THEN [pack EXCEPT !.violations = TRUE] ELSE pack
  /\ UNCHANGED <<ep, moves, moved, transcripts, made, torn>>
  /\ Over(t)

\* The rows of the episode that the statements of the deletion found, and the
\* episode, whatever stage it is in by now.
CommitDelete(t) ==
  /\ pc[t] = "deleted"
  /\ ep' = None
  /\ moves' = moves \ found[t].moves
  /\ transcripts' = transcripts \ found[t].transcripts
  /\ torn' = (torn \/ (ep # None /\ ep.stage # seen[t]))
  /\ UNCHANGED <<moved, made, pack>>
  /\ Over(t)

Step(t) ==
  \/ \E target \in Targets, role \in Role : ChangeStage(t, target, role)
  \/ PlanReady(t) \/ Transcribed(t) \/ Draft(t)
  \/ Approve(t) \/ ReadPack(t) \/ CheckPack(t)
  \/ Delete(t) \/ DeleteRows(t)
  \/ CommitMove(t) \/ CommitTranscript(t) \/ CommitViolations(t) \/ CommitDelete(t)
  \/ \E clean \in SUBSET Transcripts : CommitPack(t, clean)
  \/ Rollback(t)

Next == \E t \in Txns : Step(t)

Spec == Init /\ [][Next]_stagesVars

-----------------------------------------------------------------------------
\* The history tells how the episode came to its stage: its moves start at
\* registered, each begins where the one before it ended, and the last ends at
\* the stage of the row; unless some commit was made on a stage that had moved.
HistoryIsTheStage ==
  ~torn /\ ep # None =>
    /\ \A m \in moves :
         IF m.n = 1 THEN m.from = "registered"
         ELSE \E p \in moves : p.n = m.n - 1 /\ p.to = m.from
    /\ IF moved = 0 THEN ep.stage = "registered"
       ELSE \E m \in moves : m.n = moved /\ m.to = ep.stage

\* In every interleaving a published episode has its date, a transcript and a
\* pack: nothing reaches published around the approval, and what the approval
\* stood on is not taken away from under it.
PublishedIsBacked ==
  ep # None /\ ep.stage = "published" =>
    ep.published_at /\ transcripts # {} /\ pack # None

\* An episode is published only with a pack that policy passes on the latest
\* transcript, unless a pack or a transcript arrived after the approval read
\* them.
GateHolds ==
  [][\A t \in Txns :
       /\ pc[t] = "moving" /\ to[t] = "published" /\ moved' # moved /\ pc'[t] = "idle"
       /\ pack.no = read[t].no /\ Latest = latest[t]
       => Latest \in pack.clean]_stagesVars

\* A published episode stays published and stays there, unless some commit was
\* made on a stage that had moved.
PublishedIsKept ==
  [][ep # None /\ ep.stage = "published" /\ ~torn' => ep' = ep]_stagesVars

\* A deletion is final for the workflow: a stage change, an approval or a job
\* that read the episode before neither brings it back nor adds to its history.
DeletedStaysDeleted ==
  [][ep = None => ep' = None /\ moves' \subseteq moves]_stagesVars

\* Deleting an episode removes everything it owns: no history and no transcript
\* is left of it.
DeletedIsGone == ep = None => moves = {} /\ transcripts = {}

\* Append-only history: a move that was recorded stays.
HistoryIsAppendOnly == [][moves \subseteq moves']_stagesVars

\* test_published_is_terminal: no move leads out of published.
PublishedIsTerminal ==
  [][ep # None /\ ep.stage = "published" =>
       ep' # None /\ ep'.stage = "published"]_stagesVars

=============================================================================
