---------------------------- MODULE StagesProofs ----------------------------
(* Stages: types, and that whatever overlaps, a published episode is backed;  *)
(* that its gate holds, that a deletion is final, that the history explains   *)
(* the stage and published stays, unless a commit was made on a stage that    *)
(* had moved.                                                                 *)
EXTENDS Stages, WellFoundedInduction, TLAPS

USE StagesAssumption DEF StagesAssumption

\* There is a latest transcript when there is one.
LEMMA LatestIsOne ==
  ASSUME TypeOK, transcripts # {} PROVE Latest \in transcripts
<1> DEFINE below == OpToRel(<, Nat)
           left == {made - n : n \in transcripts}
<1>1. IsWellFoundedOn(below, Nat)
  BY NatLessThanWellFounded
<1>2. \A l, k \in Nat : l < k => <<l, k>> \in below
  BY DEF OpToRel
<1>3. made \in Nat /\ transcripts \subseteq 1..made
  BY DEF TypeOK
<1>4. left \subseteq Nat /\ left # {}
  BY <1>3
<1> HIDE DEF below, left
<1>5. PICK least \in left : \A l \in left : <<l, least>> \notin below
  BY <1>1, <1>4, WFMin
<1>6. \A l \in left : least <= l
  <2> SUFFICES ASSUME NEW l \in left PROVE least <= l
    OBVIOUS
  <2>1. l \in Nat /\ least \in Nat
    BY <1>4, <1>5
  <2>2. ~ (l < least)
    BY <1>2, <1>5, <2>1
  <2> QED BY <2>1, <2>2
<1>7. PICK n \in transcripts : least = made - n
  BY <1>5 DEF left
<1>8. \A m \in transcripts : made - m \in left
  BY DEF left
<1>9. \A m \in transcripts : m <= n
  BY <1>3, <1>6, <1>7, <1>8
<1> QED BY <1>7, <1>9 DEF Latest

LEMMA LatestTyped ==
  ASSUME TypeOK, transcripts # {} PROVE Latest \in 0..MaxTranscripts
<1>1. made \in 0..MaxTranscripts /\ transcripts \subseteq 1..made
  BY DEF TypeOK
<1> QED BY <1>1, LatestIsOne

\* An approval that policy has passed and that will publish.
Approved(t) == pc[t] = "moving" /\ to[t] = "published"

\* A transaction moves the stage it read as LEGAL allows, and only an approval
\* publishes.
MovesOK ==
  \A t \in Txns :
    /\ pc[t] = "moving" => to[t] # None
    /\ pc[t] \in {"moving", "persisting"} /\ to[t] # None =>
         seen[t] \in STAGES /\ to[t] \in LEGAL[seen[t]]
    /\ pc[t] \in {"gate", "checking"} => seen[t] \in STAGES /\ to[t] = "published"
    /\ pc[t] = "persisting" => to[t] # "published"
    /\ pc[t] \in {"deleting", "deleted"} => seen[t] # "published"

\* The pack an approval read is the latest or older, and the verdict is about
\* it and the transcript it read.
GateOK ==
  \A t \in Txns :
    /\ pc[t] \in {"checking", "refusing"} \/ Approved(t) =>
         /\ read[t] \in Packs /\ pack \in Packs
         /\ read[t].no <= pack.no
         /\ read[t].no = pack.no => read[t].clean = pack.clean
    /\ Approved(t) =>
         /\ latest[t] \in read[t].clean
         /\ ep # None => transcripts # {}

IInv == TypeOK /\ MovesOK /\ GateOK

LEMMA InitHolds == Init => IInv
<1> SUFFICES ASSUME Init PROVE IInv
  OBVIOUS
<1>1. NoRows \in [moves : SUBSET Moves, transcripts : SUBSET Transcripts]
  BY DEF NoRows
<1>2. ep \in [stage : STAGES, published_at : BOOLEAN]
  BY DEF Init, STAGES
<1>3. moves \subseteq Moves /\ transcripts \subseteq 1..made /\ moved \in 0..MaxMoves
      /\ made \in 0..MaxTranscripts
  BY DEF Init
<1>4. TypeOK
  BY <1>1, <1>2, <1>3 DEF Init, TypeOK
<1>5. MovesOK /\ GateOK
  BY DEF Init, MovesOK, GateOK, Approved
<1> QED BY <1>4, <1>5 DEF IInv

LEMMA ReadsHold ==
  ASSUME IInv, NEW t \in Txns,
         \/ \E target \in Targets, role \in Role : ChangeStage(t, target, role)
         \/ PlanReady(t) \/ Transcribed(t) \/ Draft(t) \/ Approve(t) \/ Delete(t)
  PROVE  IInv'
<1> DEFINE Read(label, target) ==
      ep # None /\ Reading(t, label, target) /\ UNCHANGED <<read, found>> /\ Alone
<1>0. ep # None /\ ep.stage \in STAGES
  BY DEF IInv, TypeOK, ChangeStage, PlanReady, Transcribed, Draft, Approve, Delete
<1>1. CASE \E target \in STAGES \ {"published"} :
             Read("moving", target) /\ target \in LEGAL[ep.stage] /\ UNCHANGED latest
  BY <1>0, <1>1 DEF IInv, TypeOK, MovesOK, GateOK, Approved, Reading, Alone
<1>2. CASE \E target \in {None, "mixing"} :
             /\ Read("persisting", target) /\ UNCHANGED latest
             /\ target # None => target \in LEGAL[ep.stage]
  BY <1>0, <1>2 DEF IInv, TypeOK, MovesOK, GateOK, Approved, Reading, Alone, STAGES
<1>3. CASE Read("drafting", None) /\ latest' = [latest EXCEPT ![t] = Latest]
           /\ transcripts # {}
  <2>1. Latest \in 0..MaxTranscripts
    BY <1>3, LatestTyped DEF IInv
  <2> QED BY <1>0, <1>3, <2>1 DEF IInv, TypeOK, MovesOK, GateOK, Approved, Reading, Alone
<1>4. CASE Read("gate", "published") /\ UNCHANGED latest
  BY <1>0, <1>4 DEF IInv, TypeOK, MovesOK, GateOK, Approved, Reading, Alone, STAGES
<1>5. CASE Read("deleting", None) /\ UNCHANGED latest /\ ep.stage # "published"
  BY <1>0, <1>5 DEF IInv, TypeOK, MovesOK, GateOK, Approved, Reading, Alone
<1>6. ASSUME NEW target \in Targets, NEW role \in Role, ChangeStage(t, target, role)
      PROVE  target \in STAGES \ {"published"} /\ target \in LEGAL[ep.stage]
  BY <1>6 DEF ChangeStage, MayMove, MayMoveInto, OWNERS, STAGES
<1>7. "plan_ready" \in LEGAL["mixing"] /\ "plan_ready" \in STAGES /\ "mixing" \in LEGAL["registered"]
  BY DEF LEGAL, STAGES
<1> QED
  BY <1>0, <1>1, <1>2, <1>3, <1>4, <1>5, <1>6, <1>7
     DEF ChangeStage, PlanReady, Transcribed, Draft, Approve, Delete

LEMMA OverTyped ==
  ASSUME TypeOK, NEW t \in Txns, Over(t)
  PROVE  /\ pc' \in [Txns -> {"idle", "moving", "persisting", "gate", "checking", "refusing",
                              "drafting", "deleting", "deleted"}]
         /\ seen' \in [Txns -> STAGES \cup {None}] /\ to' \in [Txns -> STAGES \cup {None}]
         /\ read' \in [Txns -> Packs \cup {None}] /\ latest' \in [Txns -> 0..MaxTranscripts]
         /\ found' \in [Txns -> [moves : SUBSET Moves, transcripts : SUBSET Transcripts]]
<1>1. NoRows \in [moves : SUBSET Moves, transcripts : SUBSET Transcripts]
  BY DEF NoRows
<1> QED BY <1>1 DEF TypeOK, Over

\* A transaction that is over is about nothing.
LEMMA OverHolds ==
  ASSUME IInv, NEW t \in Txns, Over(t), Alone PROVE IInv'
  BY DEF IInv, TypeOK, MovesOK, GateOK, Approved, Over, Alone, NoRows

LEMMA ReadPackHolds ==
  ASSUME IInv, NEW t \in Txns, ReadPack(t) PROVE IInv'
<1>1. CASE pack = None
  BY <1>1, OverHolds DEF ReadPack
<1>2. CASE pack # None
  <2>1. pack \in Packs /\ pack.no \in Nat
    BY <1>2 DEF IInv, TypeOK, Packs
  <2>2. /\ pc[t] = "gate" /\ pc' = [pc EXCEPT ![t] = "checking"]
        /\ read' = [read EXCEPT ![t] = pack]
        /\ UNCHANGED <<seen, to, latest, found>>
        /\ Alone
    BY <1>2 DEF ReadPack
  <2>3. TypeOK'
    BY <2>1, <2>2 DEF IInv, TypeOK, Alone
  <2>4. MovesOK'
    BY <2>2 DEF IInv, TypeOK, MovesOK, Alone
  <2>5. GateOK'
    BY <2>1, <2>2 DEF IInv, TypeOK, GateOK, Approved, Alone
  <2> QED BY <2>3, <2>4, <2>5 DEF IInv
<1> QED BY <1>1, <1>2

LEMMA CheckPackHolds ==
  ASSUME IInv, NEW t \in Txns, CheckPack(t) PROVE IInv'
<1>1. CASE Over(t)
  BY <1>1, OverHolds DEF CheckPack
<1>2. CASE /\ pc' = [pc EXCEPT ![t] = "refusing"]
           /\ UNCHANGED <<seen, to, read, latest, found>>
  BY <1>2 DEF CheckPack, IInv, TypeOK, MovesOK, GateOK, Approved, Alone
<1>3. CASE /\ transcripts # {} /\ Passes(read[t], Latest)
           /\ MayMove(seen[t], "published", "owner")
           /\ pc' = [pc EXCEPT ![t] = "moving"]
           /\ latest' = [latest EXCEPT ![t] = Latest]
           /\ UNCHANGED <<seen, to, read, found>>
  <2>1. Latest \in 0..MaxTranscripts
    BY <1>3, LatestTyped DEF IInv
  <2>2. TypeOK'
    BY <1>3, <2>1 DEF CheckPack, IInv, TypeOK, Alone
  <2>3. MovesOK'
    BY <1>3 DEF CheckPack, IInv, TypeOK, MovesOK, MayMove, STAGES
  <2>4. GateOK'
    BY <1>3 DEF CheckPack, IInv, TypeOK, GateOK, Approved, Alone, Passes
  <2> QED BY <2>2, <2>3, <2>4 DEF IInv
<1> QED BY <1>1, <1>2, <1>3 DEF CheckPack

LEMMA DeleteRowsHolds ==
  ASSUME IInv, NEW t \in Txns, DeleteRows(t) PROVE IInv'
<1>1. [moves |-> moves, transcripts |-> transcripts]
        \in [moves : SUBSET Moves, transcripts : SUBSET Transcripts]
  BY DEF IInv, TypeOK, Transcripts
<1>2. TypeOK'
  BY <1>1 DEF DeleteRows, IInv, TypeOK, Alone
<1> QED BY <1>2 DEF DeleteRows, IInv, TypeOK, MovesOK, GateOK, Approved, Alone

\* What a commit writes of the episode and its history.
LEMMA WriteStageTyped ==
  ASSUME IInv, NEW t \in Txns, pc[t] \in {"moving", "persisting"}, to[t] # None,
         WriteStage(t)
  PROVE  /\ ep' \in [stage : STAGES, published_at : BOOLEAN] /\ ep # None
         /\ moves' \subseteq Moves /\ moved' \in 0..MaxMoves
         /\ torn' \in BOOLEAN
<1>1. to[t] \in STAGES /\ seen[t] \in STAGES /\ ep \in [stage : STAGES, published_at : BOOLEAN]
  BY DEF IInv, TypeOK, MovesOK, WriteStage
<1>2. moved + 1 \in 1..MaxMoves
  BY DEF IInv, TypeOK, WriteStage, Recorded
<1> QED BY <1>1, <1>2 DEF IInv, TypeOK, WriteStage, Stamped, Recorded, Moves

LEMMA CommitMoveHolds ==
  ASSUME IInv, NEW t \in Txns, CommitMove(t) PROVE IInv'
<1>1. CASE Alone
  BY <1>1, OverHolds DEF CommitMove
<1>2. CASE WriteStage(t) /\ UNCHANGED <<transcripts, made, pack>>
  <2>1. TypeOK' /\ ep # None
    BY <1>2, WriteStageTyped DEF CommitMove, IInv, TypeOK, MovesOK, Over, NoRows
  <2> QED BY <1>2, <2>1 DEF CommitMove, IInv, TypeOK, MovesOK, GateOK, Approved, Over
<1> QED BY <1>1, <1>2 DEF CommitMove

LEMMA CommitTranscriptHolds ==
  ASSUME IInv, NEW t \in Txns, CommitTranscript(t) PROVE IInv'
<1>1. CASE Alone
  BY <1>1, OverHolds DEF CommitTranscript
<1>2. CASE /\ made' = made + 1 /\ transcripts' = transcripts \cup {made + 1}
           /\ UNCHANGED pack
           /\ IF to[t] # None THEN WriteStage(t)
              ELSE UNCHANGED <<ep, moves, moved, torn>>
  <2>1. /\ ep' \in [stage : STAGES, published_at : BOOLEAN] \cup {None}
        /\ moves' \subseteq Moves /\ moved' \in 0..MaxMoves /\ torn' \in BOOLEAN
        /\ ep' # None => ep # None
    BY <1>2, WriteStageTyped DEF CommitTranscript, IInv, TypeOK
  <2>2. made' \in 0..MaxTranscripts /\ transcripts' \subseteq 1..made'
    BY <1>2 DEF CommitTranscript, IInv, TypeOK
  <2>3. TypeOK'
    BY <1>2, <2>1, <2>2 DEF CommitTranscript, IInv, TypeOK, Over, NoRows
  <2> QED BY <1>2, <2>1, <2>3 DEF CommitTranscript, IInv, TypeOK, MovesOK, GateOK, Approved, Over
<1> QED BY <1>1, <1>2 DEF CommitTranscript

\* A new pack comes after the one it replaces.
LEMMA CommitPackTyped ==
  ASSUME IInv, NEW t \in Txns, NEW clean \in SUBSET Transcripts, CommitPack(t, clean)
  PROVE  pack' # None /\ pack' \in Packs /\ (pack \in Packs => pack.no < pack'.no)
<1>1. pack \in Packs => pack.no \in 1..MaxPacks
  BY DEF Packs
<1>2. pack = None \/ pack \in Packs
  BY DEF IInv, TypeOK
<1> DEFINE no == IF pack = None THEN 1 ELSE pack.no + 1
<1>3. no \in 1..MaxPacks
  BY <1>1, <1>2 DEF CommitPack
<1>4. pack' = [no |-> no, clean |-> clean, violations |-> latest[t] \notin clean]
  BY DEF CommitPack
<1> HIDE DEF no
<1>5. pack' \in Packs /\ pack'.no = no
  BY <1>3, <1>4 DEF Packs
<1>6. pack' # None
  BY <1>5
<1>7. pack \in Packs => no = pack.no + 1
  BY DEF no
<1> QED BY <1>1, <1>5, <1>6, <1>7

LEMMA CommitPackHolds ==
  ASSUME IInv, NEW t \in Txns, NEW clean \in SUBSET Transcripts, CommitPack(t, clean)
  PROVE  IInv'
<1>1. pack' \in Packs /\ (pack \in Packs => pack.no < pack'.no)
  BY CommitPackTyped
<1>2. TypeOK'
  BY <1>1 DEF CommitPack, IInv, TypeOK, Over, NoRows
<1>3. \A u \in Txns : read[u] \in Packs => read[u].no \in Nat
  BY DEF Packs
<1>4. pack \in Packs => pack.no \in Nat
  BY DEF Packs
<1>5. pack'.no \in Nat
  BY <1>1 DEF Packs
<1> QED BY <1>1, <1>2, <1>3, <1>4, <1>5
        DEF CommitPack, IInv, TypeOK, MovesOK, GateOK, Approved, Over

LEMMA CommitViolationsTyped ==
  ASSUME IInv, NEW t \in Txns, CommitViolations(t)
  PROVE  pack \in Packs /\ pack' \in Packs /\ pack' # None
         /\ pack'.no = pack.no /\ pack'.clean = pack.clean
<1>1. pack \in Packs
  BY DEF CommitViolations, IInv, GateOK
<1>2. pack' \in Packs /\ pack'.no = pack.no /\ pack'.clean = pack.clean
  BY <1>1 DEF CommitViolations, Packs
<1> QED BY <1>1, <1>2

LEMMA CommitViolationsHolds ==
  ASSUME IInv, NEW t \in Txns, CommitViolations(t) PROVE IInv'
<1>1. pack \in Packs
  BY CommitViolationsTyped
<1>2. pack' \in Packs /\ pack'.no = pack.no /\ pack'.clean = pack.clean
  BY CommitViolationsTyped
<1>3. TypeOK'
  BY <1>2, OverTyped DEF CommitViolations, IInv, TypeOK
<1>4. MovesOK'
  BY DEF CommitViolations, IInv, TypeOK, MovesOK, Over
<1>5. ASSUME NEW u \in Txns, pc'[u] \in {"checking", "refusing"} \/ Approved(u)'
      PROVE  u # t /\ read'[u] = read[u] /\ to'[u] = to[u] /\ pc'[u] = pc[u]
             /\ latest'[u] = latest[u]
  BY <1>5 DEF CommitViolations, IInv, TypeOK, Approved, Over
<1>6. GateOK'
  BY <1>1, <1>2, <1>5 DEF CommitViolations, IInv, GateOK, Approved
<1> QED BY <1>3, <1>4, <1>6 DEF IInv

LEMMA CommitDeleteHolds ==
  ASSUME IInv, NEW t \in Txns, CommitDelete(t) PROVE IInv'
<1>1. ep' = None /\ moves' \subseteq moves /\ transcripts' \subseteq transcripts /\ torn' \in BOOLEAN
  BY DEF CommitDelete, IInv, TypeOK
<1>2. TypeOK'
  BY <1>1, OverTyped DEF CommitDelete, IInv, TypeOK
<1> QED BY <1>1, <1>2 DEF CommitDelete, IInv, TypeOK, MovesOK, GateOK, Approved, Over

LEMMA StepHolds == IInv /\ [Next]_stagesVars => IInv'
<1> SUFFICES ASSUME IInv, [Next]_stagesVars PROVE IInv'
  OBVIOUS
<1>1. CASE UNCHANGED stagesVars
  BY <1>1 DEF IInv, TypeOK, MovesOK, GateOK, Approved, stagesVars, txnVars
<1>2. ASSUME NEW t \in Txns, Step(t) PROVE IInv'
  BY <1>2, ReadsHold, ReadPackHolds, CheckPackHolds, DeleteRowsHolds, CommitMoveHolds,
     CommitTranscriptHolds, CommitPackHolds, CommitViolationsHolds, CommitDeleteHolds,
     OverHolds DEF Step, Rollback
<1> QED BY <1>1, <1>2 DEF Next

LEMMA InvariantHolds == Spec => []IInv
  BY InitHolds, StepHolds, PTL DEF Spec

\* The row, the history, the packs and the transactions are of their types.
THEOREM TypeCorrect == Spec => []TypeOK
<1>1. IInv => TypeOK
  BY DEF IInv
<1> QED BY <1>1, InvariantHolds, PTL

-----------------------------------------------------------------------------
\* Whatever overlaps, a published episode has its date, a transcript and a pack:
\* only an approval publishes, it has read both, a pack is only ever replaced,
\* and the one commit that removes transcripts removes the episode.
THEOREM PublishedBacked == Spec => []PublishedIsBacked
<1>1. Init => PublishedIsBacked
  BY DEF Init, PublishedIsBacked
<1>2. IInv /\ PublishedIsBacked /\ [Next]_stagesVars => PublishedIsBacked'
  <2> SUFFICES ASSUME IInv, PublishedIsBacked, [Next]_stagesVars PROVE PublishedIsBacked'
    OBVIOUS
  <2>1. CASE UNCHANGED <<ep, transcripts, pack>>
    BY <2>1 DEF PublishedIsBacked
  <2>2. ASSUME NEW t \in Txns, WriteStage(t), pc[t] \in {"moving", "persisting"},
               to[t] # None
        PROVE  /\ ep # None /\ ep'.stage = to[t]
               /\ ep'.published_at = (to[t] = "published" \/ ep.published_at)
               /\ ep'.stage = "published" =>
                    ep'.published_at /\ transcripts # {} /\ pack # None
    <3>1. ep # None /\ ep'.stage = to[t]
          /\ ep'.published_at = (to[t] = "published" \/ ep.published_at)
      BY <2>2 DEF WriteStage, Stamped
    <3>2. ASSUME to[t] = "published" PROVE transcripts # {} /\ pack # None
      <4>1. Approved(t)
        BY <2>2, <3>2 DEF IInv, MovesOK, Approved
      <4> QED BY <3>1, <4>1 DEF IInv, GateOK
    <3> QED BY <3>1, <3>2
  <2>3. ASSUME NEW t \in Txns, CommitMove(t) PROVE PublishedIsBacked'
    <3>1. CASE Alone
      BY <3>1 DEF Alone, PublishedIsBacked
    <3>2. CASE WriteStage(t) /\ UNCHANGED <<transcripts, made, pack>>
      <4>1. pc[t] = "moving" /\ to[t] # None
        BY <2>3 DEF CommitMove, IInv, MovesOK
      <4> QED BY <2>2, <3>2, <4>1 DEF PublishedIsBacked
    <3> QED BY <2>3, <3>1, <3>2 DEF CommitMove
  <2>4. ASSUME NEW t \in Txns, CommitTranscript(t) PROVE PublishedIsBacked'
    <3>1. CASE Alone
      BY <3>1 DEF Alone, PublishedIsBacked
    <3>2. CASE /\ transcripts' = transcripts \cup {made + 1} /\ UNCHANGED pack
               /\ to[t] # None /\ WriteStage(t)
      BY <2>2, <2>4, <3>2 DEF CommitTranscript, PublishedIsBacked
    <3>3. CASE /\ transcripts' = transcripts \cup {made + 1} /\ UNCHANGED <<ep, pack>>
      BY <3>3 DEF PublishedIsBacked
    <3> QED BY <2>4, <3>1, <3>2, <3>3 DEF CommitTranscript
  <2>5. ASSUME NEW t \in Txns, NEW clean \in SUBSET Transcripts, CommitPack(t, clean)
        PROVE  PublishedIsBacked'
    <3>1. pack' # None
      BY <2>5, CommitPackTyped
    <3> QED BY <2>5, <3>1 DEF CommitPack, PublishedIsBacked
  <2>6. ASSUME NEW t \in Txns, CommitViolations(t) PROVE PublishedIsBacked'
    <3>1. pack' # None
      BY <2>6, CommitViolationsTyped
    <3> QED BY <2>6, <3>1 DEF CommitViolations, PublishedIsBacked
  <2>7. ASSUME NEW t \in Txns, CommitDelete(t) PROVE PublishedIsBacked'
    BY <2>7 DEF CommitDelete, PublishedIsBacked
  <2> QED
    BY <2>1, <2>3, <2>4, <2>5, <2>6, <2>7
       DEF Next, Step, ChangeStage, PlanReady, Transcribed, Draft, Approve, ReadPack,
           CheckPack, Delete, DeleteRows, Rollback, Alone, stagesVars
<1> QED BY <1>1, <1>2, InvariantHolds, PTL DEF Spec

\* The gate: an approval that publishes with the pack and the transcript it
\* read, still the latest, publishes a pack that policy passes on it.
THEOREM GateIsKept == Spec => GateHolds
<1>1. IInv /\ [Next]_stagesVars =>
        [\A t \in Txns :
           /\ pc[t] = "moving" /\ to[t] = "published" /\ moved' # moved /\ pc'[t] = "idle"
           /\ pack.no = read[t].no /\ Latest = latest[t]
           => Latest \in pack.clean]_stagesVars
  BY DEF IInv, GateOK, Approved
<1> QED BY <1>1, InvariantHolds, PTL DEF Spec, GateHolds

\* Published is the end: a move out of it, or a deletion, decided on a stage
\* that was not yet published, and then it is a commit on a stage that had moved.
THEOREM PublishedKept == Spec => PublishedIsKept
<1>1. IInv /\ [Next]_stagesVars =>
        [ep # None /\ ep.stage = "published" /\ ~torn' => ep' = ep]_stagesVars
  <2> SUFFICES ASSUME IInv, [Next]_stagesVars, ep # None, ep.stage = "published", ~torn',
                      ep' # ep
               PROVE  FALSE
    OBVIOUS
  <2>1. ASSUME NEW t \in Txns, WriteStage(t), pc[t] \in {"moving", "persisting"},
               to[t] # None
        PROVE  FALSE
    <3>1. seen[t] = "published"
      BY <2>1 DEF WriteStage
    <3>2. to[t] \in LEGAL["published"]
      BY <2>1, <3>1 DEF IInv, MovesOK
    <3> QED BY <3>2 DEF LEGAL
  <2>2. ASSUME NEW t \in Txns, CommitMove(t) PROVE FALSE
    BY <2>1, <2>2 DEF CommitMove, IInv, MovesOK, Alone
  <2>3. ASSUME NEW t \in Txns, CommitTranscript(t) PROVE FALSE
    BY <2>1, <2>3 DEF CommitTranscript, Alone
  <2>4. ASSUME NEW t \in Txns, CommitDelete(t) PROVE FALSE
    BY <2>4 DEF CommitDelete, IInv, MovesOK
  <2> QED
    BY <2>2, <2>3, <2>4
       DEF Next, Step, ChangeStage, PlanReady, Transcribed, Draft, Approve, ReadPack,
           CheckPack, Delete, DeleteRows, Rollback, CommitPack, CommitViolations, Alone,
           stagesVars
<1> QED BY <1>1, InvariantHolds, PTL DEF Spec, PublishedIsKept

\* A deletion is final: every commit of a stage needs the row it updates, and
\* one that fails writes no history either.
THEOREM DeletionIsFinal == Spec => DeletedStaysDeleted
<1>1. IInv /\ [Next]_stagesVars =>
        [ep = None => ep' = None /\ moves' \subseteq moves]_stagesVars
  <2> SUFFICES ASSUME IInv, [Next]_stagesVars, ep = None
               PROVE  ep' = None /\ moves' \subseteq moves
    OBVIOUS
  <2>1. ASSUME NEW t \in Txns, CommitMove(t) PROVE UNCHANGED <<ep, moves>>
    BY <2>1 DEF CommitMove, Alone
  <2>2. ASSUME NEW t \in Txns, CommitTranscript(t) PROVE UNCHANGED <<ep, moves>>
    BY <2>2 DEF CommitTranscript, Alone
  <2>3. ASSUME NEW t \in Txns, CommitDelete(t) PROVE ep' = None /\ moves' \subseteq moves
    BY <2>3 DEF CommitDelete
  <2> QED
    BY <2>1, <2>2, <2>3
       DEF Next, Step, ChangeStage, PlanReady, Transcribed, Draft, Approve, ReadPack,
           CheckPack, Delete, DeleteRows, Rollback, CommitPack, CommitViolations, Alone,
           stagesVars
<1> QED BY <1>1, InvariantHolds, PTL DEF Spec, DeletedStaysDeleted

\* The history: a commit that is not torn writes a move from the stage of the
\* row, which is where the last move of the history ended.
THEOREM HistoryTold == Spec => []HistoryIsTheStage
<1>1. Init => HistoryIsTheStage
  BY DEF Init, HistoryIsTheStage
<1>2. IInv /\ HistoryIsTheStage /\ [Next]_stagesVars => HistoryIsTheStage'
  <2> SUFFICES ASSUME IInv, HistoryIsTheStage, [Next]_stagesVars PROVE HistoryIsTheStage'
    OBVIOUS
  <2>1. CASE UNCHANGED <<ep, moves, moved>> /\ (torn => torn')
    BY <2>1 DEF HistoryIsTheStage
  <2>2. ASSUME NEW t \in Txns, WriteStage(t) PROVE HistoryIsTheStage'
    <3> SUFFICES ASSUME ~torn' PROVE HistoryIsTheStage'
      BY DEF HistoryIsTheStage
    <3> DEFINE move == [n |-> moved + 1, from |-> seen[t], to |-> to[t]]
    <3>0. ~torn /\ ep.stage = seen[t]
      BY <2>2, Zenon DEF WriteStage
    <3>1. ~torn /\ ep # None /\ ep.stage = seen[t] /\ ep'.stage = to[t]
          /\ moved \in Nat /\ moved' = moved + 1 /\ moves' = moves \cup {move}
      BY <2>2, <3>0 DEF WriteStage, Stamped, Recorded, IInv, TypeOK
    <3>2. move.n = moved + 1 /\ move.from = ep.stage /\ move.to = ep'.stage /\ move \in moves'
      BY <3>1
    <3> HIDE DEF move
    <3>3. IF moved = 0 THEN move.from = "registered"
          ELSE \E m \in moves' : m.n = move.n - 1 /\ m.to = move.from
      BY <3>1, <3>2 DEF HistoryIsTheStage
    <3>4. \A m \in moves :
            IF m.n = 1 THEN m.from = "registered"
            ELSE \E p \in moves' : p.n = m.n - 1 /\ p.to = m.from
      BY <3>1 DEF HistoryIsTheStage
    <3>5. \A m \in moves' :
            IF m.n = 1 THEN m.from = "registered"
            ELSE \E p \in moves' : p.n = m.n - 1 /\ p.to = m.from
      BY <3>1, <3>2, <3>3, <3>4
    <3> QED BY <3>1, <3>2, <3>5 DEF HistoryIsTheStage
  <2>3. ASSUME NEW t \in Txns, CommitMove(t) PROVE HistoryIsTheStage'
    BY <2>1, <2>2, <2>3 DEF CommitMove, Alone
  <2>4. ASSUME NEW t \in Txns, CommitTranscript(t) PROVE HistoryIsTheStage'
    BY <2>1, <2>2, <2>4 DEF CommitTranscript, Alone
  <2>5. ASSUME NEW t \in Txns, CommitDelete(t) PROVE HistoryIsTheStage'
    BY <2>5 DEF CommitDelete, HistoryIsTheStage
  <2> QED
    BY <2>1, <2>3, <2>4, <2>5
       DEF Next, Step, ChangeStage, PlanReady, Transcribed, Draft, Approve, ReadPack,
           CheckPack, Delete, DeleteRows, Rollback, CommitPack, CommitViolations, Alone,
           stagesVars
<1> QED BY <1>1, <1>2, InvariantHolds, PTL DEF Spec

=============================================================================
