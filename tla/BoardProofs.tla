----------------------------- MODULE BoardProofs -----------------------------
(* PlanBoard: whatever saves and requests overlap, no plan loses what belongs *)
(* to it, one cold open at most is picked and the edited cuts go forward; and *)
(* saves that do not overlap leave one plan.                                  *)
EXTENDS PlanBoard, FiniteSetTheorems, TLAPS

USE BoardAssumption DEF BoardAssumption

Typed ==
  /\ rows \in [TableNames -> SUBSET Gens]
  /\ cut \in [Gens -> Cuts]
  /\ pick \in [Gens -> SUBSET Places]
  /\ checklists \in Nat
  /\ last \in 0..MaxGens
  /\ pc \in [Jobs -> {"idle", "deleting", "waiting", "filling", "filled"}]
  /\ at \in [Jobs -> 1..3]
  /\ seen \in [Jobs -> SUBSET Gens]
  /\ held \in [Jobs -> [TableNames -> SUBSET Gens]]
  /\ gen \in [Jobs -> Gens \cup {None}]
  /\ lists \in [Jobs -> BOOLEAN]
  /\ asks \in [Editors -> Asks \cup {None}]
  /\ overlapped \in BOOLEAN
  /\ crossed \in SUBSET Gens

\* The generations that no job is about to write.
Settled == {g \in 1..last : \A j \in Jobs : pc[j] = "filled" => gen[j] # g}

\* What is there, what a job found and what an editor asks about is settled; a
\* job writes a generation of its own.
Fresh ==
  /\ \A t \in TableNames : rows[t] \subseteq Settled
  /\ \A j \in Jobs :
       /\ seen[j] \subseteq Settled
       /\ \A t \in TableNames : held[j][t] \subseteq Settled
       /\ pc[j] = "filled" => gen[j] \in 1..last
       /\ \A k \in Jobs : j # k /\ pc[j] = "filled" /\ pc[k] = "filled" => gen[j] # gen[k]
  /\ \A e \in Editors : asks[e] # None => asks[e].gen \in Settled

\* A job that has deleted rows of a generation has its plan too, or waits for
\* it, if the plan is still there.
Whole ==
  \A j \in Jobs, t \in {"cuts", "colds"} : \A g \in held[j][t] :
    /\ pc[j] = "waiting" /\ at[j] = 3 => g \in seen[j] \/ g \notin rows["plans"]
    /\ pc[j] \in {"filling", "filled"} => g \in held[j]["plans"] \/ g \notin rows["plans"]

PicksOK == \A g \in Gens : pick[g] = {} \/ \E place \in Places : pick[g] = {place}

Decides(e, g) == asks[e] # None /\ asks[e].kind = "decide" /\ asks[e].gen = g

\* The one request that edits a cut makes a span of it that goes forward.
SpansOK ==
  \A g \in Gens \ crossed :
    /\ Forward(cut[g])
    /\ g \in rows["cuts"] =>
         /\ \A e, f \in Editors : Decides(e, g) /\ Decides(f, g) => e = f
         /\ \A e \in Editors : Decides(e, g) => Forward(Updated(cut[g], asks[e].writes))

IdleOK ==
  \A j \in Jobs : pc[j] = "idle" => at[j] = 1 /\ \A t \in TableNames : held[j][t] = {}

\* Saves that do not overlap: one at a time, it holds all that is there.
CleanOK ==
  ~overlapped =>
    /\ \A j, k \in Jobs : j # k => pc[j] = "idle" \/ pc[k] = "idle"
    /\ \A j \in Jobs :
         /\ pc[j] # "waiting"
         /\ pc[j] = "deleting" /\ at[j] > 1 => held[j]["cuts"] = rows["cuts"]
         /\ pc[j] = "deleting" /\ at[j] > 2 => held[j]["colds"] = rows["colds"]
         /\ pc[j] \in {"filling", "filled"} => \A t \in TableNames : held[j][t] = rows[t]
         /\ pc[j] = "filled" /\ lists[j] => checklists = 0
    /\ checklists <= 1
    /\ rows["plans"] = {} \/ \E p \in Gens : rows["plans"] = {p}
    /\ rows["cuts"] \subseteq rows["plans"] /\ rows["colds"] \subseteq rows["plans"]

IInv == Typed /\ Fresh /\ Whole /\ PicksOK /\ SpansOK /\ IdleOK /\ CleanOK

LEMMA InitHolds == Init => IInv
<1> SUFFICES ASSUME Init PROVE IInv
  OBVIOUS
<1>1. NewCut \in Cuts /\ Forward(NewCut)
  BY DEF NewCut, Cuts, Times, Forward
<1>2. Typed
  <2>1. rows \in [TableNames -> SUBSET Gens] /\ held \in [Jobs -> [TableNames -> SUBSET Gens]]
    BY DEF Init, Nothing
  <2>2. cut \in [Gens -> Cuts] /\ pick \in [Gens -> SUBSET Places] /\ crossed \in SUBSET Gens
    BY <1>1 DEF Init
  <2>3. last \in 0..MaxGens
    BY DEF Init
  <2>4. checklists \in Nat
    BY DEF Init
  <2>5. overlapped \in BOOLEAN
    BY DEF Init
  <2>6. /\ pc \in [Jobs -> {"idle", "deleting", "waiting", "filling", "filled"}]
        /\ at \in [Jobs -> 1..3] /\ seen \in [Jobs -> SUBSET Gens]
    BY DEF Init
  <2>7. gen \in [Jobs -> Gens \cup {None}] /\ asks \in [Editors -> Asks \cup {None}]
    BY DEF Init
  <2>8. lists \in [Jobs -> BOOLEAN]
    BY DEF Init
  <2> QED BY <2>1, <2>2, <2>3, <2>4, <2>5, <2>6, <2>7, <2>8 DEF Typed
<1>3. Fresh /\ Whole /\ IdleOK /\ PicksOK
  BY DEF Init, Fresh, Whole, IdleOK, PicksOK, Nothing, TableNames
<1>4. SpansOK
  BY <1>1 DEF Init, SpansOK, Nothing, TableNames, Decides
<1>5. CleanOK
  BY DEF Init, CleanOK, Nothing, TableNames
<1> QED BY <1>2, <1>3, <1>4, <1>5 DEF IInv

LEMMA TableTyped ==
  ASSUME Typed, NEW j \in Jobs
  PROVE  /\ Table(j) \in TableNames
         /\ at[j] = 1 => Table(j) = "cuts"
         /\ at[j] = 2 => Table(j) = "colds"
         /\ at[j] = 3 => Table(j) = "plans"
<1>1. at[j] \in {1, 2, 3}
  BY DEF Typed
<1> QED BY <1>1 DEF Table, Tables, TableNames

Others == UNCHANGED <<rows, cut, pick, checklists, last, gen, lists, asks, crossed>>

\* A delete statement that has its rows.
LEMMA DeletedHolds ==
  ASSUME IInv, NEW j \in Jobs, NEW gens \in SUBSET Settled,
         Deleted(j, gens), Others, overlapped' \in BOOLEAN, overlapped => overlapped',
         pc[j] \in {"idle", "deleting", "waiting"},
         at[j] = 3 => \A t \in {"cuts", "colds"} : \A g \in held[j][t] :
                        g \in gens \/ g \notin rows["plans"],
         ~overlapped' => /\ pc[j] # "waiting" /\ gens = rows[Table(j)]
                         /\ \A k \in Jobs : k # j => pc[k] = "idle"
  PROVE  IInv'
<1>1. gens \in SUBSET Gens /\ Table(j) \in TableNames
  BY TableTyped DEF IInv, Settled, Typed, Gens
<1>2. Typed'
  <2>1. held' \in [Jobs -> [TableNames -> SUBSET Gens]]
    <3>1. [held[j] EXCEPT ![Table(j)] = gens] \in [TableNames -> SUBSET Gens]
      BY <1>1 DEF IInv, Typed
    <3>2. held' = [held EXCEPT ![j] = [held[j] EXCEPT ![Table(j)] = gens]]
      BY DEF Deleted, IInv, Typed
    <3> QED BY <3>1, <3>2 DEF IInv, Typed
  <2>2. seen' \in [Jobs -> SUBSET Gens]
    BY DEF Deleted, IInv, Typed
  <2>3. at' \in [Jobs -> 1..3]
    BY DEF Deleted, IInv, Typed
  <2>4. pc' \in [Jobs -> {"idle", "deleting", "waiting", "filling", "filled"}]
    BY DEF Deleted, Goto, IInv, Typed
  <2> QED BY <2>1, <2>2, <2>3, <2>4 DEF Others, IInv, Typed
<1>3. \A k \in Jobs : pc'[k] = "filled" <=> pc[k] = "filled"
  BY DEF Deleted, Goto, IInv, Typed
<1>4. Settled' = Settled
  BY <1>3 DEF Settled, Others
<1>5. \A k \in Jobs, t \in TableNames :
        held'[k][t] = IF k = j /\ t = Table(j) THEN gens ELSE held[k][t]
  BY <1>1 DEF Deleted, IInv, Typed
<1>6. \A k \in Jobs : seen'[k] = IF k = j THEN {} ELSE seen[k]
  BY DEF Deleted, IInv, Typed
<1>7. Fresh'
  BY <1>3, <1>4, <1>5, <1>6 DEF Fresh, Others, IInv
<1>8. Whole'
  <2> SUFFICES ASSUME NEW k \in Jobs, NEW t \in {"cuts", "colds"}, NEW g \in held'[k][t]
               PROVE  /\ pc'[k] = "waiting" /\ at'[k] = 3 => g \in seen'[k] \/ g \notin rows'["plans"]
                      /\ pc'[k] \in {"filling", "filled"} =>
                           g \in held'[k]["plans"] \/ g \notin rows'["plans"]
    BY DEF Whole
  <2>1. CASE k # j
    BY <2>1, <1>5, <1>6 DEF Deleted, Goto, Others, IInv, Typed, Whole, TableNames
  <2>2. CASE k = j /\ at[j] = 3
    BY <2>2, <1>5, <1>6, TableTyped DEF Deleted, Goto, Others, IInv, Typed, TableNames
  <2>3. CASE k = j /\ at[j] < 3
    BY <2>3 DEF Deleted, Goto, IInv, Typed
  <2> QED BY <2>1, <2>2, <2>3 DEF IInv, Typed
<1>9. PicksOK' /\ SpansOK'
  BY DEF Others, IInv, PicksOK, SpansOK, Decides
<1>10. IdleOK'
  BY <1>5 DEF Deleted, Goto, IInv, Typed, IdleOK
<1>11. CleanOK'
  <2> SUFFICES ASSUME ~overlapped' PROVE CleanOK'
    BY DEF CleanOK
  <2>1. ~overlapped /\ gens = rows[Table(j)] /\ \A k \in Jobs : k # j => pc'[k] = "idle"
    BY DEF Deleted, Goto, IInv, Typed
  <2>2. pc[j] \in {"idle", "deleting"} /\ (pc[j] = "idle" => at[j] = 1)
    BY DEF IInv, IdleOK
  <2>3. CASE at[j] = 1
    <3>1. pc'[j] = "deleting" /\ at'[j] = 2 /\ held'[j]["cuts"] = rows'["cuts"]
      BY <2>1, <2>3, <1>5, TableTyped DEF Deleted, Goto, IInv, Typed, TableNames, Others
    <3> QED BY <2>1, <3>1 DEF CleanOK, IInv, Others
  <2>4. CASE at[j] = 2
    <3>1. pc'[j] = "deleting" /\ at'[j] = 3 /\ held'[j]["cuts"] = rows'["cuts"]
          /\ held'[j]["colds"] = rows'["colds"]
      BY <2>1, <2>2, <2>4, <1>5, TableTyped
         DEF Deleted, Goto, IInv, Typed, TableNames, Others, CleanOK
    <3> QED BY <2>1, <3>1 DEF CleanOK, IInv, Others
  <2>5. CASE at[j] = 3
    <3>1. pc'[j] = "filling" /\ \A t \in TableNames : held'[j][t] = rows'[t]
      BY <2>1, <2>2, <2>5, <1>5, TableTyped
         DEF Deleted, Goto, IInv, Typed, TableNames, Others, CleanOK
    <3> QED BY <2>1, <3>1 DEF CleanOK, IInv, Others
  <2> QED BY <2>3, <2>4, <2>5 DEF IInv, Typed
<1> QED BY <1>2, <1>7, <1>8, <1>9, <1>10, <1>11 DEF IInv

LEMMA DeleteHolds == ASSUME IInv, NEW j \in Jobs, Delete(j) PROVE IInv'
<1>1. Table(j) \in TableNames /\ rows[Table(j)] \in SUBSET Settled
  BY TableTyped DEF IInv, Fresh
<1>2. overlapped' \in BOOLEAN /\ (overlapped => overlapped')
  BY DEF Delete, IInv, Typed
<1>3. ~overlapped' => \A k \in Jobs : k # j => pc[k] = "idle"
  BY DEF Delete
<1>4. CASE Deletable(j, rows[Table(j)])
  <2>1. Deleted(j, rows[Table(j)]) /\ Others /\ pc[j] \in {"idle", "deleting"}
    BY <1>4 DEF Delete, Others
  <2>2. at[j] = 3 => \A t \in {"cuts", "colds"} : \A g \in held[j][t] :
                       g \in rows[Table(j)] \/ g \notin rows["plans"]
    BY TableTyped DEF IInv
  <2> QED BY <1>1, <1>2, <1>3, <2>1, <2>2, DeletedHolds
<1>5. CASE ~Deletable(j, rows[Table(j)])
  <2>1. seen' = [seen EXCEPT ![j] = rows[Table(j)]] /\ pc' = [pc EXCEPT ![j] = "waiting"]
        /\ UNCHANGED <<at, held>> /\ Others /\ pc[j] \in {"idle", "deleting"}
    BY <1>5 DEF Delete, Others, Goto
  <2>2. overlapped'
    <3>1. PICK k \in Jobs \ {j} : held[k][Table(j)] # {}
      BY <1>5 DEF Deletable
    <3> QED BY <1>1, <1>3, <3>1, <1>2 DEF IInv, IdleOK
  <2>3. Typed'
    BY <1>1, <1>2, <2>1 DEF IInv, Typed, Others
  <2>4. Settled' = Settled
    BY <2>1 DEF Settled, Others, IInv, Typed
  <2>5. Fresh'
    BY <1>1, <2>1, <2>4 DEF IInv, Typed, Fresh, Others
  <2>6. Whole'
    BY <2>1, TableTyped DEF IInv, Typed, Whole, Others
  <2>7. PicksOK' /\ SpansOK' /\ IdleOK'
    BY <2>1 DEF IInv, Typed, PicksOK, SpansOK, IdleOK, Others, Decides
  <2> QED BY <2>2, <2>3, <2>5, <2>6, <2>7 DEF IInv, CleanOK
<1> QED BY <1>4, <1>5

LEMMA WakeHolds == ASSUME IInv, NEW j \in Jobs, Wake(j) PROVE IInv'
<1>1. pc[j] = "waiting" /\ Deleted(j, seen[j]) /\ Others /\ overlapped' = overlapped
  BY DEF Wake, Others
<1>2. seen[j] \in SUBSET Settled /\ overlapped
  BY <1>1 DEF IInv, Fresh, CleanOK
<1>3. at[j] = 3 => \A t \in {"cuts", "colds"} : \A g \in held[j][t] :
                     g \in seen[j] \/ g \notin rows["plans"]
  BY <1>1 DEF IInv, Whole
<1> QED BY <1>1, <1>2, <1>3, DeletedHolds DEF IInv, Typed

LEMMA FillHolds == ASSUME IInv, NEW j \in Jobs, Fill(j) PROVE IInv'
<1>1. last \in Nat /\ last' = last + 1 /\ last' \in 0..MaxGens /\ last' \in Gens
  BY DEF Fill, IInv, Typed, Gens
<1>2. Typed'
  BY <1>1 DEF Fill, Goto, IInv, Typed
<1>3. Settled' = Settled
  <2>1. \A k \in Jobs : pc'[k] = "filled" <=> k = j \/ pc[k] = "filled"
    BY DEF Fill, Goto, IInv, Typed
  <2>2. \A k \in Jobs : gen'[k] = IF k = j THEN last + 1 ELSE gen[k]
    BY DEF Fill, IInv, Typed
  <2>3. pc[j] # "filled"
    BY DEF Fill
  <2>4. ASSUME NEW g \in Settled PROVE g \in Settled'
    BY <1>1, <2>1, <2>2, <2>4 DEF Settled
  <2>5. ASSUME NEW g \in Settled' PROVE g \in Settled
    <3>1. g \in 1..(last + 1) /\ g # last + 1
      BY <1>1, <2>1, <2>2, <2>5 DEF Settled
    <3>2. g \in 1..last
      BY <1>1, <3>1
    <3> QED BY <2>1, <2>2, <2>3, <2>5, <3>2 DEF Settled
  <2> QED BY <2>4, <2>5
<1>4. Fresh'
  BY <1>1, <1>3 DEF Fresh, Fill, Goto, IInv, Typed
<1>5. Whole' /\ PicksOK' /\ SpansOK' /\ IdleOK'
  BY DEF Fill, Goto, IInv, Typed, Whole, PicksOK, SpansOK, IdleOK, Decides
<1>6. CleanOK'
  BY DEF Fill, Goto, IInv, Typed, CleanOK
<1> QED BY <1>2, <1>4, <1>5, <1>6 DEF IInv

\* What is left when a transaction ends: its generation becomes settled, and
\* what it deleted is no longer looked for.
LEMMA EndFacts ==
  ASSUME IInv, NEW j \in Jobs, NEW deleted, End(j, deleted)
  PROVE  /\ Settled \subseteq Settled'
         /\ pc[j] = "filled" => gen[j] \in Settled'
         /\ \A k \in Jobs : pc'[k] = IF k = j THEN "idle" ELSE pc[k]
         /\ \A k \in Jobs : at'[k] = IF k = j THEN 1 ELSE at[k]
         /\ \A k \in Jobs, t \in TableNames : held'[k][t] = IF k = j THEN {} ELSE held[k][t]
         /\ \A k \in Jobs : k # j => gen'[k] = gen[k] /\ lists'[k] = lists[k]
         /\ \A k \in Jobs :
              seen'[k] = IF k = j THEN {}
                         ELSE IF pc[k] = "waiting" THEN seen[k] \ deleted[Table(k)]
                         ELSE seen[k]
<1>1. \A k \in Jobs : pc'[k] = IF k = j THEN "idle" ELSE pc[k]
  BY DEF End, Goto, IInv, Typed
<1>2. \A k \in Jobs : gen'[k] = IF k = j THEN None ELSE gen[k]
  BY DEF End, IInv, Typed
<1>3. \A k \in Jobs, t \in TableNames : held'[k][t] = IF k = j THEN {} ELSE held[k][t]
  BY DEF End, Nothing, IInv, Typed
<1>4. Settled \subseteq Settled'
  BY <1>1, <1>2 DEF Settled, End
<1>5. pc[j] = "filled" => gen[j] \in Settled'
  BY <1>1, <1>2 DEF Settled, End, IInv, Fresh
<1> QED BY <1>1, <1>2, <1>3, <1>4, <1>5 DEF End, IInv, Typed

LEMMA EndTyped ==
  ASSUME IInv, NEW j \in Jobs, NEW deleted, End(j, deleted)
  PROVE  /\ pc' \in [Jobs -> {"idle", "deleting", "waiting", "filling", "filled"}]
         /\ at' \in [Jobs -> 1..3] /\ seen' \in [Jobs -> SUBSET Gens]
         /\ held' \in [Jobs -> [TableNames -> SUBSET Gens]]
         /\ gen' \in [Jobs -> Gens \cup {None}] /\ lists' \in [Jobs -> BOOLEAN]
<1>1. Nothing \in [TableNames -> SUBSET Gens]
  BY DEF Nothing
<1>2. seen' \in [Jobs -> SUBSET Gens]
  BY DEF End, IInv, Typed
<1>3. at' \in [Jobs -> 1..3]
  BY DEF End, IInv, Typed
<1> QED BY <1>1, <1>2, <1>3 DEF End, Goto, IInv, Typed

LEMMA AbortHolds == ASSUME IInv, NEW j \in Jobs, Abort(j) PROVE IInv'
<1>1. End(j, Nothing) /\ UNCHANGED <<rows, cut, pick, checklists, crossed>>
      /\ UNCHANGED <<last, asks, overlapped>>
  BY DEF Abort, End
<1>2. Typed'
  BY <1>1, EndTyped DEF IInv, Typed
<1>3. \A k \in Jobs : seen'[k] = IF k = j THEN {} ELSE seen[k]
  <2>1. \A t \in TableNames : Nothing[t] = {}
    BY DEF Nothing
  <2>2. \A k \in Jobs : Table(k) \in TableNames
    BY TableTyped DEF IInv
  <2>3. \A k \in Jobs :
          seen'[k] = IF k = j THEN {}
                     ELSE IF pc[k] = "waiting" THEN seen[k] \ Nothing[Table(k)] ELSE seen[k]
    BY <1>1 DEF End
  <2>4. \A k \in Jobs : seen[k] \ {} = seen[k]
    OBVIOUS
  <2> QED BY <2>1, <2>2, <2>3, <2>4
<1>4. Fresh'
  BY <1>1, <1>3, EndFacts DEF IInv, Fresh
<1>5. Whole'
  BY <1>1, <1>3, EndFacts DEF IInv, Whole, TableNames
<1>6. PicksOK' /\ SpansOK'
  BY <1>1 DEF IInv, PicksOK, SpansOK, Decides
<1>7. IdleOK'
  BY <1>1, EndFacts DEF IInv, IdleOK
<1>8. CleanOK'
  BY <1>1, EndFacts DEF IInv, CleanOK, TableNames
<1> QED BY <1>2, <1>4, <1>5, <1>6, <1>7, <1>8 DEF IInv

\* What a save leaves: its own generation, and of the others what it had not
\* deleted.
LEMMA CommitFacts ==
  ASSUME IInv, NEW j \in Jobs, NEW bare \in BOOLEAN, Commit(j, bare)
  PROVE  /\ gen[j] \in Gens /\ gen[j] \notin Settled /\ pc[j] = "filled"
         /\ \A t \in TableNames :
              /\ rows'[t] \subseteq (rows[t] \ held[j][t]) \cup {gen[j]}
              /\ rows[t] \ held[j][t] \subseteq rows'[t]
         /\ rows'["plans"] = (rows["plans"] \ held[j]["plans"]) \cup {gen[j]}
         /\ \A g \in Gens : g \notin held[j]["cuts"] => cut'[g] = cut[g]
         /\ \A g \in held[j]["cuts"] : cut'[g] = NewCut
         /\ \A g \in Gens : pick'[g] \in {{}, pick[g]}
<1>1. gen[j] \in Gens /\ gen[j] \notin Settled /\ pc[j] = "filled"
  BY DEF Commit, IInv, Fresh, Typed, Settled, Gens
<1>2. "plans" \in TableNames /\ held[j]["cuts"] \subseteq Gens
  BY DEF TableNames, IInv, Typed
<1> QED BY <1>1, <1>2 DEF Commit

LEMMA CommitHolds ==
  ASSUME IInv, NEW j \in Jobs, NEW bare \in BOOLEAN, Commit(j, bare) PROVE IInv'
<1>1. End(j, held[j]) /\ UNCHANGED <<last, asks, overlapped>>
  BY DEF Commit, End
<1>1a. \A k \in Jobs :
        seen'[k] = IF k = j THEN {}
                   ELSE IF pc[k] = "waiting" THEN seen[k] \ held[j][Table(k)] ELSE seen[k]
  BY DEF Commit, End, IInv, Typed
<1>2. Typed'
  <2>1. rows' \in [TableNames -> SUBSET Gens]
    <3>1. \A t \in TableNames : rows[t] \ held[j][t] \subseteq Gens
      BY DEF IInv, Typed
    <3> QED BY <3>1, CommitFacts DEF Commit
  <2>2. cut' \in [Gens -> Cuts]
    <3>1. NewCut \in Cuts
      BY DEF NewCut, Cuts, Times
    <3> QED BY <3>1 DEF Commit, IInv, Typed
  <2>3. pick' \in [Gens -> SUBSET Places] /\ crossed' \in SUBSET Gens
    BY DEF Commit, IInv, Typed
  <2>4. checklists' \in Nat
    BY DEF Commit, Written, IInv, Typed
  <2> QED BY <1>1, <2>1, <2>2, <2>3, <2>4, EndTyped DEF IInv, Typed
<1>3. Fresh'
  <2>1. \A t \in TableNames : rows'[t] \subseteq Settled'
    BY <1>1, CommitFacts, EndFacts DEF IInv, Fresh
  <2>2. \A k \in Jobs : seen'[k] \subseteq Settled'
    <3>1. \A k \in Jobs : seen'[k] \subseteq seen[k]
      BY <1>1a
    <3>2. Settled \subseteq Settled'
      BY <1>1, EndFacts
    <3>3. \A k \in Jobs : seen[k] \subseteq Settled
      BY DEF IInv, Fresh
    <3> QED BY <3>1, <3>2, <3>3
  <2>3. \A k \in Jobs, t \in TableNames : held'[k][t] \subseteq Settled'
    BY <1>1, EndFacts DEF IInv, Fresh
  <2>4. \A e \in Editors : asks'[e] # None => asks'[e].gen \in Settled'
    BY <1>1, EndFacts DEF IInv, Fresh
  <2> QED BY <1>1, <2>1, <2>2, <2>3, <2>4, EndFacts DEF IInv, Fresh
<1>4. Whole'
  <2> SUFFICES ASSUME NEW k \in Jobs, NEW t \in {"cuts", "colds"}, NEW g \in held'[k][t]
               PROVE  /\ pc'[k] = "waiting" /\ at'[k] = 3 => g \in seen'[k] \/ g \notin rows'["plans"]
                      /\ pc'[k] \in {"filling", "filled"} =>
                           g \in held'[k]["plans"] \/ g \notin rows'["plans"]
    BY DEF Whole
  <2>1. k # j /\ g \in held[k][t] /\ t \in TableNames /\ "plans" \in TableNames
    BY <1>1, EndFacts DEF TableNames
  <2>2. g # gen[j]
    BY <2>1, CommitFacts DEF IInv, Fresh
  <2>3. g \in rows'["plans"] => g \in rows["plans"] /\ g \notin held[j]["plans"]
    BY <2>2, CommitFacts
  <2>4. pc'[k] = pc[k] /\ at'[k] = at[k] /\ held'[k]["plans"] = held[k]["plans"]
    BY <1>1, <2>1, EndFacts
  <2>5. pc[k] = "waiting" /\ at[k] = 3 => seen'[k] = seen[k] \ held[j]["plans"]
    BY <1>1a, <2>1, TableTyped DEF IInv
  <2>6. /\ pc[k] = "waiting" /\ at[k] = 3 => g \in seen[k] \/ g \notin rows["plans"]
        /\ pc[k] \in {"filling", "filled"} => g \in held[k]["plans"] \/ g \notin rows["plans"]
    BY <2>1 DEF IInv, Whole
  <2> QED BY <2>3, <2>4, <2>5, <2>6
<1>5. PicksOK'
  BY CommitFacts DEF IInv, PicksOK
<1>6. SpansOK'
  <2> SUFFICES ASSUME NEW g \in Gens \ crossed'
               PROVE  /\ Forward(cut'[g])
                      /\ g \in rows'["cuts"] =>
                           /\ \A e, f \in Editors : Decides(e, g) /\ Decides(f, g) => e = f
                           /\ \A e \in Editors :
                                Decides(e, g) => Forward(Updated(cut'[g], asks[e].writes))
    BY <1>1 DEF SpansOK, Decides
  <2>1. CASE g \in held[j]["cuts"]
    <3>1. Forward(cut'[g])
      BY <2>1, CommitFacts DEF Forward, NewCut
    <3>2. g \notin rows'["cuts"]
      BY <2>1, CommitFacts DEF IInv, Fresh, TableNames
    <3> QED BY <3>1, <3>2
  <2>2. CASE g \notin held[j]["cuts"]
    <3>1. g \notin crossed /\ cut'[g] = cut[g]
      BY <2>2, CommitFacts DEF Commit
    <3>2. g \in rows'["cuts"] => g \in rows["cuts"] \/ g = gen[j]
      BY CommitFacts DEF TableNames
    <3>3. \A e \in Editors : Decides(e, g) => g # gen[j]
      BY CommitFacts DEF IInv, Fresh, Decides
    <3> QED BY <3>1, <3>2, <3>3 DEF IInv, SpansOK
  <2> QED BY <2>1, <2>2
<1>7. IdleOK'
  BY <1>1, EndFacts DEF IInv, IdleOK
<1>8. CleanOK'
  <2> SUFFICES ASSUME ~overlapped PROVE CleanOK'
    BY <1>1 DEF CleanOK
  <2>1. \A k \in Jobs : pc'[k] = "idle"
    BY <1>1, CommitFacts, EndFacts DEF IInv, CleanOK
  <2>2. \A t \in TableNames : held[j][t] = rows[t]
    BY CommitFacts DEF IInv, CleanOK
  <2>3. rows'["plans"] = {gen[j]} /\ rows'["cuts"] \subseteq {gen[j]}
        /\ rows'["colds"] \subseteq {gen[j]} /\ gen[j] \in Gens
    BY <2>2, CommitFacts DEF TableNames
  <2>4. checklists' <= 1
    BY CommitFacts DEF Commit, Written, IInv, CleanOK, Typed
  <2> QED BY <2>1, <2>3, <2>4 DEF CleanOK
<1> QED BY <1>2, <1>3, <1>4, <1>5, <1>6, <1>7, <1>8 DEF IInv

-----------------------------------------------------------------------------
\* What a request makes of the cut it loaded, if nobody else edited it.
LEMMA EditApplies ==
  ASSUME NEW old \in Cuts, NEW span \in [start : Times, end : Times]
  PROVE  /\ Differing(old, span) \in Cuts
         /\ Updated(old, Differing(old, span)).start = span.start
         /\ Updated(old, Differing(old, span)).end = span.end
<1> DEFINE writes == Differing(old, span)
<1>1. writes = [start |-> writes["start"], end |-> writes["end"]]
  BY DEF Differing
<1>2. writes["start"] = IF span.start = old.start THEN None ELSE span.start
  BY DEF Differing
<1>3. writes["end"] = IF span.end = old.end THEN None ELSE span.end
  BY DEF Differing
<1>4. writes["start"] \in Times \cup {None} /\ writes["end"] \in Times \cup {None}
  BY <1>2, <1>3
<1>5. writes \in Cuts
  BY <1>1, <1>4 DEF Cuts
<1> HIDE DEF writes
<1>6. span.start # None /\ span.end # None
  BY DEF Times
<1>7. Updated(old, writes).start = span.start
  BY <1>2, <1>6 DEF Updated
<1>8. Updated(old, writes).end = span.end
  BY <1>3, <1>6 DEF Updated
<1> QED BY <1>5, <1>7, <1>8 DEF writes

LEMMA UpdatedTyped ==
  ASSUME NEW row \in Cuts, NEW writes \in Cuts PROVE Updated(row, writes) \in Cuts
  BY DEF Updated, Cuts

LEMMA SpanTyped ==
  ASSUME NEW old \in Cuts, NEW start \in Starts \cup {None}, NEW end \in Ends \cup {None}
  PROVE  Span(old, start, end) \in [start : Times, end : Times]
  BY DEF Span, Cuts, Times

LEMMA DecideLoadHolds ==
  ASSUME IInv, NEW e \in Editors, NEW g \in Gens, NEW start \in Starts \cup {None},
         NEW end \in Ends \cup {None}, DecideLoad(e, g, start, end)
  PROVE  IInv'
<1> DEFINE span == Span(cut[g], start, end)
           ask == [kind |-> "decide", gen |-> g, writes |-> Differing(cut[g], span)]
<1>1. cut[g] \in Cuts /\ span \in [start : Times, end : Times] /\ g \in Settled
  BY SpanTyped DEF IInv, Typed, Fresh, DecideLoad, TableNames
<1>2. ask \in Asks
  BY <1>1, EditApplies DEF Asks
<1>3. Forward(Updated(cut[g], ask.writes))
  <2>1. span.start \in Times /\ span.end \in Times
    BY <1>1
  <2>2. Times \subseteq Nat
    BY DEF Times
  <2>3. ~(span.end <= span.start)
    BY DEF DecideLoad, Refused
  <2>4. Updated(cut[g], ask.writes).start = span.start
        /\ Updated(cut[g], ask.writes).end = span.end
    BY <1>1, EditApplies
  <2> HIDE DEF span, ask
  <2>5. span.start \in Nat /\ span.end \in Nat
    BY <2>1, <2>2
  <2>6. span.start # None /\ span.end # None /\ span.start < span.end
    BY <2>3, <2>5
  <2> QED BY <2>4, <2>6 DEF Forward
<1>4. asks' = [asks EXCEPT ![e] = ask] /\ asks[e] = None /\ g \in rows["cuts"]
      /\ UNCHANGED <<rows, cut, pick, checklists, last, jobVars, overlapped>>
  BY DEF DecideLoad
<1>5. crossed' = IF \E f \in Editors : Decides(f, g) THEN crossed \cup {g} ELSE crossed
  BY DEF DecideLoad, Decides
<1> HIDE DEF ask, span
<1>6. Typed'
  BY <1>2, <1>4, <1>5 DEF IInv, Typed, jobVars
<1>7. Settled' = Settled
  BY <1>4 DEF Settled, jobVars
<1>8. ask.gen = g /\ ask.kind = "decide"
  BY DEF ask
<1>9. Fresh'
  BY <1>1, <1>4, <1>7, <1>8 DEF IInv, Typed, Fresh, jobVars
<1>10. SpansOK'
  <2> SUFFICES ASSUME NEW h \in Gens \ crossed'
               PROVE  /\ Forward(cut[h])
                      /\ h \in rows["cuts"] =>
                           /\ \A i, f \in Editors : Decides(i, h)' /\ Decides(f, h)' => i = f
                           /\ \A f \in Editors :
                                Decides(f, h)' => Forward(Updated(cut[h], asks'[f].writes))
    BY <1>4 DEF SpansOK, Decides
  <2>1. h \notin crossed /\ (h = g => \A f \in Editors : ~Decides(f, g))
    BY <1>5
  <2>2. \A f \in Editors : f # e => (Decides(f, h)' <=> Decides(f, h)) /\ asks'[f] = asks[f]
    BY <1>4 DEF Decides, IInv, Typed
  <2>3. Decides(e, h)' => h = g /\ asks'[e] = ask
    BY <1>4, <1>8 DEF Decides, IInv, Typed
  <2> QED BY <1>3, <2>1, <2>2, <2>3 DEF IInv, SpansOK
<1>11. Whole' /\ PicksOK' /\ IdleOK' /\ CleanOK'
  BY <1>4 DEF IInv, Whole, PicksOK, IdleOK, CleanOK, jobVars
<1> QED BY <1>6, <1>9, <1>10, <1>11 DEF IInv

\* An editor's request is over: what the others ask stays.
LEMMA AnsweredFacts ==
  ASSUME IInv, NEW e \in Editors, Answered(e)
  PROVE  /\ asks' \in [Editors -> Asks \cup {None}] /\ asks'[e] = None
         /\ \A f \in Editors : f # e => asks'[f] = asks[f]
         /\ Settled' = Settled /\ Fresh' /\ IdleOK'
<1>1. asks' = [asks EXCEPT ![e] = None]
  BY DEF Answered
<1>2. Settled' = Settled
  BY DEF Answered, Settled, jobVars
<1>3. \A f \in Editors : asks'[f] = IF f = e THEN None ELSE asks[f]
  BY <1>1 DEF IInv, Typed
<1>4. Fresh'
  BY <1>2, <1>3 DEF IInv, Fresh, Answered, jobVars
<1>5. IdleOK'
  BY DEF IInv, IdleOK, Answered, jobVars
<1> QED BY <1>1, <1>2, <1>3, <1>4, <1>5 DEF IInv, Typed

LEMMA DecideCommitHolds == ASSUME IInv, NEW e \in Editors, DecideCommit(e) PROVE IInv'
<1> DEFINE h == asks[e].gen
<1>1. Answered(e) /\ UNCHANGED pick /\ Decides(e, h)
  BY DEF DecideCommit, Decides
<1>2. asks[e].writes \in Cuts /\ h \in Gens
  BY DEF DecideCommit, IInv, Typed, Asks
<1>3. \A g \in Gens : cut'[g] = IF g = h /\ h \in rows["cuts"]
                                THEN Updated(cut[h], asks[e].writes) ELSE cut[g]
  BY <1>2 DEF DecideCommit, IInv, Typed
<1>4. Typed'
  <2>1. cut' \in [Gens -> Cuts]
    BY <1>2, UpdatedTyped DEF DecideCommit, IInv, Typed
  <2> QED BY <1>1, <2>1, AnsweredFacts DEF IInv, Typed, Answered, jobVars
<1> HIDE DEF h
<1>5. SpansOK'
  <2> SUFFICES ASSUME NEW g \in Gens \ crossed
               PROVE  /\ Forward(cut'[g])
                      /\ g \in rows["cuts"] =>
                           /\ \A i, f \in Editors : Decides(i, g)' /\ Decides(f, g)' => i = f
                           /\ \A f \in Editors :
                                Decides(f, g)' => Forward(Updated(cut'[g], asks'[f].writes))
    BY <1>1 DEF SpansOK, Decides, Answered
  <2>1. \A f \in Editors : Decides(f, g)' => f # e /\ Decides(f, g) /\ asks'[f] = asks[f]
    BY <1>1, AnsweredFacts DEF Decides
  <2>2. CASE g = h /\ h \in rows["cuts"]
    <3>1. Forward(cut'[g])
      BY <1>1, <1>3, <2>2 DEF IInv, SpansOK
    <3>2. \A f \in Editors : ~Decides(f, g)'
      BY <1>1, <2>1, <2>2 DEF IInv, SpansOK
    <3> QED BY <3>1, <3>2
  <2>3. CASE ~(g = h /\ h \in rows["cuts"])
    BY <1>3, <2>1, <2>3 DEF IInv, SpansOK
  <2> QED BY <2>2, <2>3
<1>6. Whole' /\ PicksOK' /\ CleanOK'
  BY <1>1 DEF IInv, Whole, PicksOK, CleanOK, Answered, jobVars
<1> QED BY <1>1, <1>4, <1>5, <1>6, AnsweredFacts DEF IInv

LEMMA PickLoadHolds ==
  ASSUME IInv, NEW e \in Editors, NEW g \in Gens, NEW place \in Places,
         NEW kind \in {"pick", "unpick"}, PickLoad(e, g, place, kind)
  PROVE  IInv'
<1> DEFINE ask == [kind |-> kind, gen |-> g, place |-> place]
<1>1. ask \in Asks /\ ask.gen = g /\ ask.kind # "decide" /\ g \in Settled
  BY DEF Asks, IInv, Fresh, PickLoad, TableNames
<1>2. asks' = [asks EXCEPT ![e] = ask]
      /\ UNCHANGED <<rows, cut, pick, checklists, last, jobVars, overlapped, crossed>>
  BY DEF PickLoad
<1> HIDE DEF ask
<1>3. Typed'
  BY <1>1, <1>2 DEF IInv, Typed, jobVars
<1>4. Settled' = Settled
  BY <1>2 DEF Settled, jobVars
<1>5. Fresh'
  BY <1>1, <1>2, <1>4 DEF IInv, Typed, Fresh, jobVars
<1>6. \A f \in Editors, h \in Gens : Decides(f, h)' => Decides(f, h) /\ asks'[f] = asks[f]
  BY <1>1, <1>2 DEF Decides, IInv, Typed
<1>7. SpansOK'
  BY <1>2, <1>6 DEF IInv, SpansOK
<1>8. Whole' /\ PicksOK' /\ IdleOK' /\ CleanOK'
  BY <1>2 DEF IInv, Whole, PicksOK, IdleOK, CleanOK, jobVars
<1> QED BY <1>3, <1>5, <1>7, <1>8 DEF IInv

LEMMA PickCommitHolds == ASSUME IInv, NEW e \in Editors, PickCommit(e) PROVE IInv'
<1> DEFINE h == asks[e].gen
<1>1. Answered(e) /\ UNCHANGED cut
  BY DEF PickCommit
<1>2. asks[e].place \in Places /\ h \in Gens /\ pick[h] \in SUBSET Places
  BY DEF PickCommit, IInv, Typed, Asks
<1>3. /\ Repicked(asks[e], pick[h]) \in SUBSET Places
      /\ \/ Repicked(asks[e], pick[h]) = {}
         \/ \E place \in Places : Repicked(asks[e], pick[h]) = {place}
  <2>1. CASE asks[e].kind = "pick"
    BY <1>2, <2>1 DEF Repicked
  <2>2. CASE asks[e].kind # "pick"
    BY <1>2, <2>2 DEF Repicked, IInv, PicksOK
  <2> QED BY <2>1, <2>2
<1>4. pick' = pick \/ pick' = [pick EXCEPT ![h] = Repicked(asks[e], pick[h])]
  BY <1>2 DEF PickCommit, IInv, Typed
<1> HIDE DEF h
<1>5. Typed' /\ PicksOK'
  <2>1. pick' \in [Gens -> SUBSET Places]
    BY <1>2, <1>3, <1>4 DEF IInv, Typed
  <2>2. Typed'
    BY <1>1, <2>1, AnsweredFacts DEF IInv, Typed, Answered, jobVars
  <2>3. PicksOK'
    BY <1>2, <1>3, <1>4 DEF IInv, Typed, PicksOK
  <2> QED BY <2>2, <2>3
<1>6. \A f \in Editors, g \in Gens : Decides(f, g)' => Decides(f, g) /\ asks'[f] = asks[f]
  BY <1>1, AnsweredFacts DEF Decides
<1>7. SpansOK'
  BY <1>1, <1>6 DEF IInv, SpansOK, Answered
<1>8. Whole' /\ CleanOK'
  BY <1>1 DEF IInv, Whole, CleanOK, Answered, jobVars
<1> QED BY <1>1, <1>5, <1>7, <1>8, AnsweredFacts DEF IInv

LEMMA StepHolds == IInv /\ [Next]_boardVars => IInv'
<1> SUFFICES ASSUME IInv, [Next]_boardVars PROVE IInv'
  OBVIOUS
<1>1. CASE UNCHANGED boardVars
  BY <1>1 DEF boardVars, jobVars, IInv, Typed, Fresh, Settled, Whole, PicksOK, SpansOK,
              Decides, IdleOK, CleanOK
<1>2. ASSUME NEW j \in Jobs, JobStep(j) PROVE IInv'
  BY <1>2, DeleteHolds, WakeHolds, FillHolds, AbortHolds, CommitHolds DEF JobStep
<1>3. ASSUME NEW e \in Editors, EditorStep(e) PROVE IInv'
  BY <1>3, DecideLoadHolds, DecideCommitHolds, PickLoadHolds, PickCommitHolds
     DEF EditorStep
<1> QED BY <1>1, <1>2, <1>3 DEF Next

LEMMA InvariantHolds == Spec => []IInv
  BY InitHolds, StepHolds, PTL DEF Spec

-----------------------------------------------------------------------------
\* One cold open at most is picked in a plan.
THEOREM OnePickKept == Spec => []OnePick
<1>1. IInv => OnePick
  <2> SUFFICES ASSUME IInv, NEW g \in Gens PROVE Cardinality(pick[g]) <= 1
    BY DEF OnePick
  <2>1. CASE pick[g] = {}
    BY <2>1, FS_EmptySet
  <2>2. ASSUME NEW place \in Places, pick[g] = {place} PROVE Cardinality(pick[g]) <= 1
    <3>1. Cardinality({place}) = 1
      BY FS_Singleton
    <3> QED BY <2>2, <3>1
  <2> QED BY <2>1, <2>2 DEF IInv, PicksOK
<1> QED BY <1>1, InvariantHolds, PTL

\* An edited cut goes forward unless two requests edited it at once.
THEOREM SpansKept == Spec => []SpansGoForward
<1>1. IInv => SpansGoForward
  BY DEF IInv, SpansOK, SpansGoForward
<1> QED BY <1>1, InvariantHolds, PTL

\* Saves that do not overlap leave one plan, what belongs to it and one
\* checklist.
THEOREM BoardKeptClean == Spec => []BoardIsClean
<1>1. IInv => BoardIsClean
  <2> SUFFICES ASSUME IInv, ~overlapped PROVE BoardIsClean
    BY DEF BoardIsClean
  <2>1. Cardinality(rows["plans"]) <= 1
    <3>1. CASE rows["plans"] = {}
      BY <3>1, FS_EmptySet
    <3>2. ASSUME NEW p \in Gens, rows["plans"] = {p} PROVE Cardinality(rows["plans"]) <= 1
      BY <3>2, FS_Singleton
    <3> QED BY <3>1, <3>2 DEF IInv, CleanOK
  <2> QED BY <2>1 DEF IInv, CleanOK, BoardIsClean
<1> QED BY <1>1, InvariantHolds, PTL

\* However saves overlap, a plan that stays keeps its cuts and its cold opens.
THEOREM PlansKeptWhole == Spec => PlansAreWhole
<1>1. IInv /\ [Next]_boardVars =>
        [\A t \in {"cuts", "colds"}, g \in Gens :
           g \in rows[t] /\ g \notin rows'[t] => g \notin rows'["plans"]]_boardVars
  <2> SUFFICES ASSUME IInv, [Next]_boardVars, NEW t \in {"cuts", "colds"}, NEW g \in Gens,
                      g \in rows[t], g \notin rows'[t]
               PROVE  g \notin rows'["plans"]
    OBVIOUS
  <2>1. ASSUME NEW j \in Jobs, NEW bare \in BOOLEAN, Commit(j, bare)
        PROVE  g \notin rows'["plans"]
    <3>1. g \in held[j][t] /\ g # gen[j]
      BY <2>1, CommitFacts DEF IInv, Fresh, TableNames
    <3>2. g \in held[j]["plans"] \/ g \notin rows["plans"]
      BY <2>1, <3>1, CommitFacts DEF IInv, Whole
    <3> QED BY <2>1, <3>1, <3>2, CommitFacts
  <2>2. rows' # rows
    OBVIOUS
  <2>3. \E j \in Jobs, bare \in BOOLEAN : Commit(j, bare)
    BY <2>2 DEF Next, JobStep, EditorStep, Delete, Wake, Fill, Abort, DecideLoad,
                DecideCommit, PickLoad, PickCommit, Answered, boardVars
  <2> QED BY <2>1, <2>3
<1> QED BY <1>1, InvariantHolds, PTL DEF Spec, PlansAreWhole

=============================================================================
