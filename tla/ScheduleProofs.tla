--------------------------- MODULE ScheduleProofs ---------------------------
(* Schedule: types, that no race takes an episode's last slot, and that an    *)
(* uncontested episode and the calendar stay in step.                         *)
EXTENDS Schedule, TLAPS

\* What a transaction has found or deleted are slots of its own episode.
OwnRows ==
  \A r \in Requests :
    /\ pc[r] = "idle" => seen[r] = {} /\ held[r] = {}
    /\ pc[r] # "idle" => /\ seen[r] \subseteq SlotsOf(ask[r].episode)
                         /\ held[r] \subseteq SlotsOf(ask[r].episode)

Inserted(r) == pc[r] = "flushed" /\ Assigns(r)

\* A deleted row is deleted by one transaction, an inserted one is alone on
\* its day.
Locks ==
  /\ \A r, q \in Requests : r # q => held[r] \cap held[q] = {}
  /\ \A r \in Requests : Inserted(r) => ~Conflict(r)
  /\ \A r, q \in Requests :
       r # q /\ Inserted(r) /\ Inserted(q) => ask[r].date # ask[q].date

IInv == TypeOK /\ OwnRows /\ Locks /\ NeverSlotless

USE ScheduleAssumption

LEMMA InitHolds == Init => IInv
  BY DEF Init, IInv, TypeOK, OwnRows, Locks, Inserted, NeverSlotless, Asks, Kinds

\* A request under way, with its types.
LEMMA AskTyped ==
  ASSUME TypeOK, NEW r \in Requests, pc[r] # "idle"
  PROVE  /\ ask[r].kind \in Kinds /\ ask[r].episode \in Episodes
         /\ ask[r].kind # "remove" => ask[r].date \in Dates
  BY DEF TypeOK, Asks

LEMMA StepTyped == TypeOK /\ [Next]_calVars => TypeOK'
<1> SUFFICES ASSUME TypeOK, [Next]_calVars PROVE TypeOK'
  OBVIOUS
<1> USE DEF TypeOK, Asks, Kinds, Goto
<1>1. CASE UNCHANGED calVars
  BY <1>1 DEF calVars
<1>2. ASSUME NEW r \in Requests, NEW e \in Episodes, NEW d \in Dates,
             NEW recordedOn \in Dates, Create(r, e, recordedOn, d)
      PROVE  TypeOK'
  <2>1. CASE Ask(r, "create", e, d) /\ Goto(r, "loaded")
             /\ UNCHANGED <<life, publishOn, slots, loaded, seen, held>>
    BY <2>1 DEF Ask
  <2>2. CASE End(r, {}, "500") /\ UNCHANGED <<life, publishOn, slots>>
    BY <2>2 DEF End
  <2> QED BY <1>2, <2>1, <2>2 DEF Create
<1>3. ASSUME NEW r \in Requests, NEW e \in Episodes, NEW d \in Dates,
             Move(r, e, d)
      PROVE  TypeOK'
  BY <1>3 DEF Move, Ask
<1>4. ASSUME NEW r \in Requests, NEW e \in Episodes, Remove(r, e) PROVE TypeOK'
  BY <1>4 DEF Remove, Ask
<1>5. ASSUME NEW r \in Requests, FindSlots(r) PROVE TypeOK'
  BY <1>5 DEF FindSlots, SlotsOf
<1>6. ASSUME NEW r \in Requests, ReleaseSlots(r) PROVE TypeOK'
  BY <1>6 DEF ReleaseSlots, AfterRelease
<1>7. ASSUME NEW r \in Requests, InsertSlot(r) PROVE TypeOK'
  <2>1. CASE Conflict(r)
    BY <1>7, <2>1 DEF InsertSlot, Rollback, End
  <2>2. CASE ~Conflict(r)
    BY <1>7, <2>2 DEF InsertSlot
  <2> QED BY <2>1, <2>2
<1>8. ASSUME NEW r \in Requests, CommitCreate(r) PROVE TypeOK'
  <2>1. ask[r].episode \in Episodes /\ ask[r].date \in Dates
    BY <1>8, AskTyped DEF CommitCreate
  <2> QED BY <1>8, <2>1 DEF CommitCreate, End, Released
<1>9. ASSUME NEW r \in Requests, CommitMove(r) PROVE TypeOK'
  <2>1. ask[r].episode \in Episodes /\ ask[r].date \in Dates
    BY <1>9, AskTyped DEF CommitMove
  <2> QED BY <1>9, <2>1 DEF CommitMove, End, Released
<1>10. ASSUME NEW r \in Requests, StaleMove(r) PROVE TypeOK'
  BY <1>10 DEF StaleMove, Rollback, End
<1>11. ASSUME NEW r \in Requests, CommitRemove(r) PROVE TypeOK'
  <2>1. ask[r].episode \in Episodes
    BY <1>11, AskTyped DEF CommitRemove
  <2> QED BY <1>11, <2>1 DEF CommitRemove, End, Released
<1>12. ASSUME NEW r \in Requests, DeadlockVictim(r) PROVE TypeOK'
  BY <1>12 DEF DeadlockVictim, Rollback, End
<1> QED
  BY <1>1, <1>2, <1>3, <1>4, <1>5, <1>6, <1>7, <1>8, <1>9, <1>10, <1>11, <1>12
     DEF Next, Step

\* The steps that commit: rows of the episode of r are released and the row of
\* r, if it assigns, is added.
Commits(r) ==
  /\ pc[r] = "flushed"
  /\ End(r, held[r], "ok")
  /\ slots' = IF Assigns(r)
              THEN [Released(r) EXCEPT ![ask[r].date] = ask[r].episode]
              ELSE Released(r)

LEMMA CommitSteps ==
  ASSUME NEW r \in Requests, CommitCreate(r) \/ CommitMove(r) \/ CommitRemove(r)
  PROVE  Commits(r)
  BY DEF CommitCreate, CommitMove, CommitRemove, Commits, Assigns

\* The rows that are not of the episode of r stay as they are, and those it
\* does not hold.
LEMMA CommitKeeps ==
  ASSUME TypeOK, OwnRows, Locks, NEW r \in Requests, Commits(r),
         NEW d \in Dates, slots[d] # None, d \notin held[r]
  PROVE  slots'[d] = slots[d]
<1>1. ask[r].date # d \/ ~Assigns(r)
  BY DEF Locks, Inserted, Conflict, Commits
<1> QED BY <1>1 DEF Commits, Released, TypeOK

LEMMA CommitAdds ==
  ASSUME TypeOK, NEW r \in Requests, Commits(r), NEW d \in Dates
  PROVE  /\ Assigns(r) => slots'[ask[r].date] = ask[r].episode
         /\ ~Assigns(r) \/ d # ask[r].date => slots'[d] \in {None, slots[d]}
<1>1. Assigns(r) => ask[r].date \in Dates
  BY AskTyped DEF Commits, Assigns
<1> QED BY <1>1 DEF Commits, Released, TypeOK

LEMMA CommitPreserves ==
  ASSUME TypeOK, OwnRows, Locks, NEW r \in Requests, Commits(r)
  PROVE  OwnRows' /\ Locks'
<1> USE DEF TypeOK
<1>1. /\ \A q \in Requests \ {r} : /\ pc'[q] = pc[q] /\ ask'[q] = ask[q]
                                   /\ held'[q] = held[q]
                                   /\ seen'[q] = seen[q] \ held[r]
      /\ pc'[r] = "idle" /\ held'[r] = {} /\ seen'[r] = {}
  BY DEF Commits, End, Goto
<1>2. \A q \in Requests \ {r} : pc[q] # "idle" =>
        /\ seen[q] \ held[r] \subseteq SlotsOf(ask[q].episode)'
        /\ held[q] \subseteq SlotsOf(ask[q].episode)'
  <2> SUFFICES ASSUME NEW q \in Requests \ {r}, pc[q] # "idle", NEW d \in Dates,
                      d \in seen[q] \ held[r] \/ d \in held[q]
               PROVE  slots'[d] = ask[q].episode
    BY <1>1 DEF SlotsOf, OwnRows
  <2>1. slots[d] = ask[q].episode /\ ask[q].episode # None /\ d \notin held[r]
    BY AskTyped DEF OwnRows, SlotsOf, Locks
  <2> QED BY <2>1, CommitKeeps
<1>3. OwnRows'
  BY <1>1, <1>2 DEF OwnRows
<1>4. \A q, p \in Requests : q # p => held'[q] \cap held'[p] = {}
  BY <1>1 DEF Locks
<1>5. \A q \in Requests : Inserted(q)' =>
        q # r /\ Inserted(q) /\ ask'[q] = ask[q] /\ held'[q] = held[q]
  BY <1>1 DEF Inserted, Assigns
<1>6. \A q \in Requests : Inserted(q)' => ~Conflict(q)'
  <2> SUFFICES ASSUME NEW q \in Requests \ {r}, Inserted(q),
                      ask'[q] = ask[q], held'[q] = held[q]
               PROVE  slots'[ask[q].date] = None \/ ask[q].date \in held[q]
    BY <1>5 DEF Conflict
  <2>1. ask[q].date \in Dates /\ ~Conflict(q)
    BY AskTyped DEF Inserted, Assigns, Locks
  <2>2. Assigns(r) => ask[q].date # ask[r].date
    BY DEF Locks, Inserted, Commits
  <2> QED BY <2>1, <2>2, CommitAdds DEF Conflict
<1> QED BY <1>3, <1>4, <1>5, <1>6 DEF Locks

LEMMA RollbackPreserves ==
  ASSUME TypeOK, OwnRows, Locks, NEW r \in Requests, NEW s,
         End(r, {}, s), UNCHANGED slots
  PROVE  OwnRows' /\ Locks'
  BY DEF TypeOK, OwnRows, Locks, Inserted, Assigns, Conflict, SlotsOf, End, Goto

LEMMA StepLocks == TypeOK /\ OwnRows /\ Locks /\ [Next]_calVars => OwnRows' /\ Locks'
<1> SUFFICES ASSUME TypeOK, OwnRows, Locks, [Next]_calVars
             PROVE  OwnRows' /\ Locks'
  OBVIOUS
<1>1. CASE UNCHANGED calVars
  BY <1>1 DEF calVars, OwnRows, Locks, Inserted, Assigns, Conflict, SlotsOf
<1>2. ASSUME NEW r \in Requests, NEW kind, NEW e \in Episodes, NEW d,
             Ask(r, kind, e, d), Goto(r, "loaded"),
             UNCHANGED <<slots, seen, held>>
      PROVE  OwnRows' /\ Locks'
  BY <1>2 DEF Ask, Goto, TypeOK, OwnRows, Locks, Inserted, Assigns, Conflict, SlotsOf
<1>3. ASSUME NEW r \in Requests, NEW e \in Episodes, NEW d \in Dates,
             NEW recordedOn \in Dates, Create(r, e, recordedOn, d)
      PROVE  OwnRows' /\ Locks'
  BY <1>2, <1>3, RollbackPreserves DEF Create
<1>4. ASSUME NEW r \in Requests, NEW e \in Episodes, NEW d \in Dates,
             Move(r, e, d)
      PROVE  OwnRows' /\ Locks'
  BY <1>2, <1>4 DEF Move
<1>5. ASSUME NEW r \in Requests, NEW e \in Episodes, Remove(r, e)
      PROVE  OwnRows' /\ Locks'
  BY <1>2, <1>5 DEF Remove
<1>6. ASSUME NEW r \in Requests, FindSlots(r) PROVE OwnRows' /\ Locks'
  BY <1>6 DEF FindSlots, Goto, TypeOK, OwnRows, Locks, Inserted, Assigns, Conflict,
              SlotsOf
<1>7. ASSUME NEW r \in Requests, ReleaseSlots(r) PROVE OwnRows' /\ Locks'
  <2>1. \A q \in Requests \ {r} : held[q] \cap seen[r] = {}
    BY <1>7 DEF ReleaseSlots, Blockers
  <2>2. /\ held' = [held EXCEPT ![r] = seen[r]] /\ seen' = [seen EXCEPT ![r] = {}]
        /\ UNCHANGED <<slots, ask>> /\ pc[r] = "releasing"
        /\ pc' = [pc EXCEPT ![r] = IF Assigns(r) THEN "inserting" ELSE "flushed"]
    BY <1>7 DEF ReleaseSlots, AfterRelease, Goto
  <2>3. OwnRows'
    BY <2>2 DEF TypeOK, OwnRows, SlotsOf
  <2>4. \A q \in Requests : Inserted(q)' => Inserted(q) /\ q # r
    BY <2>2 DEF TypeOK, Inserted, Assigns
  <2>5. Locks'
    BY <2>1, <2>2, <2>4 DEF TypeOK, Locks, Conflict
  <2> QED BY <2>3, <2>5
<1>8. ASSUME NEW r \in Requests, InsertSlot(r) PROVE OwnRows' /\ Locks'
  <2>1. CASE Conflict(r)
    BY <1>8, <2>1, RollbackPreserves DEF InsertSlot, Rollback
  <2>2. CASE ~Conflict(r)
    <3>1. /\ pc' = [pc EXCEPT ![r] = "flushed"] /\ pc[r] = "inserting"
          /\ UNCHANGED <<slots, ask, seen, held>>
      BY <1>8, <2>2 DEF InsertSlot, Goto
    <3>2. OwnRows'
      BY <3>1 DEF TypeOK, OwnRows, SlotsOf
    <3>3. \A q \in Requests \ {r} : Inserted(q) => ask[q].date # ask[r].date
      BY <1>8 DEF InsertSlot, Blockers, Inserted
    <3>4. \A q \in Requests : Inserted(q)' => q = r \/ Inserted(q)
      BY <3>1 DEF TypeOK, Inserted, Assigns
    <3>5. Locks'
      BY <2>2, <3>1, <3>3, <3>4 DEF Locks, Conflict
    <3> QED BY <3>2, <3>5
  <2> QED BY <2>1, <2>2
<1>9. ASSUME NEW r \in Requests,
             CommitCreate(r) \/ CommitMove(r) \/ CommitRemove(r)
      PROVE  OwnRows' /\ Locks'
  BY <1>9, CommitSteps, CommitPreserves
<1>10. ASSUME NEW r \in Requests, StaleMove(r) \/ DeadlockVictim(r)
       PROVE  OwnRows' /\ Locks'
  BY <1>10, RollbackPreserves DEF StaleMove, DeadlockVictim, Rollback
<1> QED
  BY <1>1, <1>3, <1>4, <1>5, <1>6, <1>7, <1>8, <1>9, <1>10 DEF Next, Step

LEMMA StepSlotless == IInv /\ [Next]_calVars => NeverSlotless'
<1> SUFFICES ASSUME IInv, [Next]_calVars PROVE NeverSlotless'
  OBVIOUS
<1> USE DEF IInv
<1>1. CASE slots' = slots /\ life' = life
  BY <1>1 DEF NeverSlotless, SlotsOf
<1>2. ASSUME NEW r \in Requests,
             CommitCreate(r) \/ CommitMove(r) \/ CommitRemove(r)
      PROVE  NeverSlotless'
  <2> DEFINE e == ask[r].episode
  <2>1. Commits(r) /\ e \in Episodes /\ (Assigns(r) => ask[r].date \in Dates)
    BY <1>2, CommitSteps, AskTyped DEF Commits, Assigns
  <2>2. Assigns(r) => slots'[ask[r].date] = e
    BY <2>1, CommitAdds
  <2>3. \A f \in Episodes \ {e} : life'[f] = life[f]
    BY <1>2, <2>1 DEF CommitCreate, CommitMove, CommitRemove, TypeOK
  <2>4. ~Assigns(r) => life'[e] # "alive"
    BY <1>2, <2>1 DEF CommitCreate, CommitMove, CommitRemove, Assigns, TypeOK
  <2>5. \A f \in Episodes \ {e} : SlotsOf(f) \subseteq SlotsOf(f)'
    <3> SUFFICES ASSUME NEW f \in Episodes \ {e}, NEW d \in Dates, slots[d] = f
                 PROVE  slots'[d] = f
      BY DEF SlotsOf
    <3>1. d \notin held[r]
      BY <2>1 DEF OwnRows, SlotsOf, Commits
    <3> QED BY <2>1, <3>1, CommitKeeps
  <2> QED BY <2>1, <2>2, <2>3, <2>4, <2>5 DEF NeverSlotless, SlotsOf
<1>3. ASSUME NEW r \in Requests,
             \/ FindSlots(r) \/ ReleaseSlots(r) \/ InsertSlot(r) \/ StaleMove(r)
             \/ DeadlockVictim(r)
      PROVE  slots' = slots /\ life' = life
  BY <1>3 DEF FindSlots, ReleaseSlots, InsertSlot, StaleMove, DeadlockVictim, Rollback
<1>4. ASSUME NEW r \in Requests, NEW e \in Episodes, NEW d \in Dates,
             NEW recordedOn \in Dates,
             Create(r, e, recordedOn, d) \/ Move(r, e, d) \/ Remove(r, e)
      PROVE  slots' = slots /\ life' = life
  BY <1>4 DEF Create, Move, Remove
<1> QED
  BY <1>1, <1>2, <1>3, <1>4 DEF Next, Step, calVars

LEMMA Invariance == Spec => []IInv
<1>1. IInv /\ [Next]_calVars => IInv'
  BY StepTyped, StepLocks, StepSlotless DEF IInv
<1> QED BY InitHolds, <1>1, PTL DEF Spec

-----------------------------------------------------------------------------
(* The calendar agrees.                                                       *)

\* What a request under way knows of its episode still holds.
UpToDate(r) ==
  LET e == ask[r].episode IN
  /\ life[e] = IF ask[r].kind = "create" THEN "unborn" ELSE "alive"
  /\ ask[r].kind = "move" => loaded[r] = publishOn[e]
  /\ pc[r] = "releasing" => seen[r] = SlotsOf(e)
  /\ pc[r] \in {"inserting", "flushed"} => held[r] = SlotsOf(e)

\* No other request is under way for the episode of r.
Alone(r) ==
  \A q \in Requests \ {r} : pc[q] # "idle" => ask[q].episode # ask[r].episode

Uncontested(r) == pc[r] # "idle" /\ ask[r].episode \notin contested

Current == \A r \in Requests : Uncontested(r) => Alone(r) /\ UpToDate(r)

\* A step of r touches no request but r and no episode but e.
Confined(r, e) ==
  /\ contested \subseteq contested'
  /\ pc'[r] # "idle" => ask'[r].episode = e
  /\ \A q \in Requests \ {r} :
       /\ pc'[q] = pc[q] /\ ask'[q] = ask[q]
       /\ loaded'[q] = loaded[q] /\ held'[q] = held[q]
       /\ Uncontested(q) => seen'[q] = seen[q]
  /\ \A f \in Episodes \ {e} :
       life'[f] = life[f] /\ publishOn'[f] = publishOn[f] /\ SlotsOf(f)' = SlotsOf(f)

\* Such a step leaves the others as current as they were.
LEMMA OthersCurrent ==
  ASSUME TypeOK, Current, NEW r \in Requests, NEW e \in Episodes, Confined(r, e),
         \A q \in Requests \ {r} : Uncontested(q)' => ask[q].episode # e,
         Uncontested(r)' => Alone(r)' /\ UpToDate(r)'
  PROVE  Current'
<1> SUFFICES ASSUME NEW q \in Requests \ {r}, Uncontested(q)'
             PROVE  Alone(q)' /\ UpToDate(q)'
  BY DEF Current
<1>1. /\ pc'[q] = pc[q] /\ ask'[q] = ask[q] /\ loaded'[q] = loaded[q]
      /\ held'[q] = held[q] /\ seen'[q] = seen[q]
      /\ Uncontested(q) /\ Alone(q) /\ UpToDate(q)
  BY DEF Confined, Uncontested, Current
<1>2. ask[q].episode \in Episodes \ {e}
  BY <1>1, AskTyped DEF Uncontested
<1>3. Alone(q)'
  BY <1>1, <1>2 DEF Alone, Confined
<1>4. UpToDate(q)'
  BY <1>1, <1>2 DEF UpToDate, Confined
<1> QED BY <1>3, <1>4

\* The step by which a request begins.
LEMMA AskCurrent ==
  ASSUME TypeOK, Current, NEW r \in Requests, NEW e \in Episodes, NEW kind, NEW d,
         Ask(r, kind, e, d), Goto(r, "loaded"),
         UNCHANGED <<life, publishOn, slots, seen, held>>,
         \A q \in Requests \ {r} : loaded'[q] = loaded[q],
         life[e] = IF kind = "create" THEN "unborn" ELSE "alive",
         kind = "move" => loaded'[r] = publishOn[e]
  PROVE  Current'
<1> USE DEF TypeOK, Ask, Goto
<1>1. Confined(r, e)
  BY DEF Confined, SlotsOf
<1>2. \A q \in Requests \ {r} :
        pc'[q] = pc[q] /\ ask'[q] = ask[q] /\ (Asked(e) => e \in contested')
  OBVIOUS
<1>3. \A q \in Requests \ {r} : Uncontested(q)' => ask[q].episode # e
  BY <1>2 DEF Uncontested, Asked
<1>4. ask'[r].episode = e /\ ask'[r].kind = kind /\ pc'[r] = "loaded"
  OBVIOUS
<1>5. Uncontested(r)' => Alone(r)'
  BY <1>2, <1>4 DEF Uncontested, Alone, Asked
<1>6. UpToDate(r)'
  BY <1>4 DEF UpToDate
<1> QED BY <1>1, <1>3, <1>5, <1>6, OthersCurrent

\* A step of a request under way.
LEMMA OwnCurrent ==
  ASSUME TypeOK, Current, NEW r \in Requests, pc[r] # "idle",
         Confined(r, ask[r].episode), contested' = contested,
         Uncontested(r) /\ pc'[r] # "idle" =>
           UpToDate(r)' /\ ask'[r].episode = ask[r].episode
  PROVE  Current'
<1>1. PICK e \in Episodes : e = ask[r].episode
  BY AskTyped
<1>2. \A q \in Requests \ {r} : Uncontested(q)' => ask[q].episode # e
  BY <1>1 DEF Confined, Uncontested, Current, Alone
<1>3. Uncontested(r)' => Uncontested(r) /\ ask'[r].episode = e
  BY <1>1 DEF Confined, Uncontested
<1>4. Uncontested(r)' => Alone(r)' /\ UpToDate(r)'
  BY <1>1, <1>3 DEF Uncontested, Current, Alone, Confined
<1> QED BY <1>1, <1>2, <1>4, OthersCurrent

\* A transaction that ends without a commit.
LEMMA RollbackConfined ==
  ASSUME TypeOK, NEW r \in Requests, NEW e, NEW s, Rollback(r, s)
  PROVE  Confined(r, e) /\ pc'[r] = "idle" /\ contested' = contested
  BY DEF TypeOK, Rollback, End, Goto, Confined, SlotsOf

\* A commit moves rows of its own episode only.
LEMMA CommitConfined ==
  ASSUME TypeOK, OwnRows, Locks, Current, NEW r \in Requests,
         CommitCreate(r) \/ CommitMove(r) \/ CommitRemove(r)
  PROVE  Confined(r, ask[r].episode) /\ pc'[r] = "idle" /\ contested' = contested
<1>1. PICK e \in Episodes : e = ask[r].episode
  BY CommitSteps, AskTyped DEF Commits
<1>2. Commits(r) /\ pc[r] # "idle" /\ (Assigns(r) => ask[r].date \in Dates)
  BY CommitSteps, AskTyped DEF Commits, Assigns
<1>3. /\ contested' = contested /\ pc'[r] = "idle"
      /\ \A q \in Requests \ {r} :
           /\ pc'[q] = pc[q] /\ ask'[q] = ask[q]
           /\ loaded'[q] = loaded[q] /\ held'[q] = held[q]
           /\ seen'[q] = seen[q] \ held[r]
  BY <1>2 DEF Commits, End, Goto, TypeOK
<1>4. \A q \in Requests \ {r} : Uncontested(q) => seen'[q] = seen[q]
  <2> SUFFICES ASSUME NEW q \in Requests \ {r}, Uncontested(q)
               PROVE  seen[q] \ held[r] = seen[q]
    BY <1>3
  <2>1. ask[q].episode # e
    BY <1>1, <1>2 DEF Current, Alone, Uncontested
  <2>2. seen[q] \subseteq SlotsOf(ask[q].episode) /\ held[r] \subseteq SlotsOf(e)
    BY <1>1, <1>2 DEF OwnRows, Uncontested
  <2> QED BY <2>1, <2>2 DEF SlotsOf
<1>5. \A f \in Episodes \ {e} : SlotsOf(f)' = SlotsOf(f)
  <2> SUFFICES ASSUME NEW f \in Episodes \ {e}, NEW c \in Dates
               PROVE  slots'[c] = f <=> slots[c] = f
    BY DEF SlotsOf
  <2>1. slots[c] = f => slots'[c] = f
    <3> SUFFICES ASSUME slots[c] = f PROVE slots'[c] = f
      OBVIOUS
    <3>1. c \notin held[r]
      BY <1>1, <1>2 DEF OwnRows, SlotsOf
    <3> QED BY <1>2, <3>1, CommitKeeps
  <2>2. slots'[c] = f => slots[c] = f
    BY <1>1, <1>2, CommitAdds
  <2> QED BY <2>1, <2>2
<1>6. \A f \in Episodes \ {e} : life'[f] = life[f] /\ publishOn'[f] = publishOn[f]
  BY <1>1 DEF CommitCreate, CommitMove, CommitRemove, TypeOK
<1> QED BY <1>1, <1>3, <1>4, <1>5, <1>6 DEF Confined

LEMMA StepCurrent ==
  ASSUME TypeOK, OwnRows, Locks, Current, [Next]_calVars
  PROVE  Current'
<1>1. CASE UNCHANGED calVars
  BY <1>1 DEF calVars, Current, Uncontested, Alone, UpToDate, SlotsOf
<1>2. ASSUME NEW r \in Requests, NEW e \in Episodes, NEW d \in Dates,
             NEW recordedOn \in Dates, Create(r, e, recordedOn, d)
      PROVE  Current'
  <2>1. CASE Ask(r, "create", e, d) /\ Goto(r, "loaded")
             /\ UNCHANGED <<life, publishOn, slots, loaded, seen, held>>
    BY <1>2, <2>1, AskCurrent DEF Create
  <2>2. CASE End(r, {}, "500") /\ UNCHANGED <<life, publishOn, slots>>
    <3>1. Confined(r, e) /\ pc'[r] = "idle" /\ contested' = contested
      BY <2>2, RollbackConfined DEF Rollback
    <3>2. \A q \in Requests \ {r} : Uncontested(q)' => ask[q].episode # e
      BY <1>2, <3>1 DEF Create, Asked, Uncontested, Confined
    <3> QED BY <3>1, <3>2, OthersCurrent DEF Uncontested
  <2> QED BY <1>2, <2>1, <2>2 DEF Create
<1>3. ASSUME NEW r \in Requests, NEW e \in Episodes, NEW d \in Dates,
             Move(r, e, d)
      PROVE  Current'
  <2>1. /\ loaded'[r] = publishOn[e]
        /\ \A q \in Requests \ {r} : loaded'[q] = loaded[q]
    BY <1>3 DEF Move, TypeOK
  <2> QED BY <1>3, <2>1, AskCurrent DEF Move
<1>4. ASSUME NEW r \in Requests, NEW e \in Episodes, Remove(r, e) PROVE Current'
  BY <1>4, AskCurrent DEF Remove
<1>5. ASSUME NEW r \in Requests, FindSlots(r) PROVE Current'
  <2>1. Confined(r, ask[r].episode) /\ contested' = contested
    BY <1>5 DEF FindSlots, Goto, Confined, TypeOK, SlotsOf
  <2>2. Uncontested(r) => UpToDate(r)' /\ ask'[r].episode = ask[r].episode
    BY <1>5 DEF FindSlots, Goto, Current, UpToDate, TypeOK, SlotsOf
  <2> QED BY <1>5, <2>1, <2>2, OwnCurrent DEF FindSlots
<1>6. ASSUME NEW r \in Requests, ReleaseSlots(r) PROVE Current'
  <2>1. Confined(r, ask[r].episode) /\ contested' = contested
    BY <1>6 DEF ReleaseSlots, AfterRelease, Goto, Confined, TypeOK, SlotsOf
  <2>2. Uncontested(r) => UpToDate(r)' /\ ask'[r].episode = ask[r].episode
    BY <1>6 DEF ReleaseSlots, AfterRelease, Goto, Current, UpToDate, TypeOK, SlotsOf
  <2> QED BY <1>6, <2>1, <2>2, OwnCurrent DEF ReleaseSlots
<1>7. ASSUME NEW r \in Requests, NEW s, pc[r] # "idle", Rollback(r, s)
      PROVE  Current'
  BY <1>7, RollbackConfined, OwnCurrent
<1>8. ASSUME NEW r \in Requests, InsertSlot(r) PROVE Current'
  <2>1. CASE Conflict(r)
    BY <1>7, <1>8, <2>1 DEF InsertSlot
  <2>2. CASE ~Conflict(r)
    <3>1. Confined(r, ask[r].episode) /\ contested' = contested
      BY <1>8, <2>2 DEF InsertSlot, Goto, Confined, TypeOK, SlotsOf
    <3>2. Uncontested(r) => UpToDate(r)' /\ ask'[r].episode = ask[r].episode
      BY <1>8, <2>2 DEF InsertSlot, Goto, Current, UpToDate, TypeOK, SlotsOf
    <3> QED BY <1>8, <3>1, <3>2, OwnCurrent DEF InsertSlot
  <2> QED BY <2>1, <2>2
<1>9. ASSUME NEW r \in Requests,
             CommitCreate(r) \/ CommitMove(r) \/ CommitRemove(r)
      PROVE  Current'
  BY <1>9, CommitConfined, OwnCurrent, CommitSteps DEF Commits
<1>10. ASSUME NEW r \in Requests, StaleMove(r) \/ DeadlockVictim(r)
       PROVE  Current'
  <2>1. pc[r] # "idle"
    BY <1>10 DEF StaleMove, DeadlockVictim, Deadlocked, Blockers
  <2> QED BY <1>7, <1>10, <2>1 DEF StaleMove, DeadlockVictim
<1> QED
  BY <1>1, <1>2, <1>3, <1>4, <1>5, <1>6, <1>8, <1>9, <1>10 DEF Next, Step

\* An uncontested commit leaves its episode with the one slot it asked for, or
\* none.
LEMMA CommitAgrees ==
  ASSUME TypeOK, OwnRows, Locks, Current, NEW r \in Requests,
         CommitCreate(r) \/ CommitMove(r) \/ CommitRemove(r),
         NEW e \in Episodes, e = ask[r].episode, e \notin contested
  PROVE  /\ life'[e] = "alive" => SlotsOf(e)' = {publishOn'[e]}
         /\ life'[e] # "alive" => SlotsOf(e)' = {}
<1>1. /\ Commits(r) /\ UpToDate(r) /\ held[r] = SlotsOf(e)
      /\ Assigns(r) => ask[r].date \in Dates
  BY CommitSteps, AskTyped DEF Commits, Assigns, Current, Uncontested, UpToDate
<1>2. PICK d : d = ask[r].date
  OBVIOUS
<1>3. \A c \in Dates : slots'[c] = e <=> Assigns(r) /\ c = d
  <2>1. ASSUME NEW c \in Dates, slots'[c] = e, ~Assigns(r) \/ c # d
        PROVE  FALSE
    <3>1. slots[c] = e
      BY <1>1, <1>2, <2>1, CommitAdds
    <3>2. c \in held[r]
      BY <1>1, <3>1 DEF SlotsOf
    <3> QED BY <1>1, <1>2, <2>1, <3>2 DEF Commits, Released, TypeOK
  <2>2. Assigns(r) => slots'[d] = e
    BY <1>1, <1>2, CommitAdds
  <2> QED BY <1>1, <1>2, <2>1, <2>2
<1>4. CASE ask[r].kind = "remove"
  <2>1. life'[e] = "gone" /\ ~Assigns(r)
    BY <1>4 DEF CommitCreate, CommitMove, CommitRemove, TypeOK, Assigns
  <2> QED BY <1>3, <2>1 DEF SlotsOf
<1>5. CASE ask[r].kind # "remove"
  <2>1. life'[e] = "alive" /\ Assigns(r) /\ publishOn'[e] = d
    BY <1>1, <1>2, <1>5
       DEF CommitCreate, CommitMove, CommitRemove, TypeOK, Assigns, UpToDate, Updates
  <2> QED BY <1>1, <1>2, <1>3, <2>1 DEF SlotsOf
<1> QED BY <1>4, <1>5

LEMMA StepAgrees ==
  ASSUME TypeOK, OwnRows, Locks, Current, CalendarAgrees, [Next]_calVars
  PROVE  CalendarAgrees'
<1>1. CASE slots' = slots /\ life' = life /\ publishOn' = publishOn
           /\ contested \subseteq contested'
  BY <1>1 DEF CalendarAgrees, SlotsOf
<1>2. ASSUME NEW r \in Requests,
             CommitCreate(r) \/ CommitMove(r) \/ CommitRemove(r)
      PROVE  CalendarAgrees'
  <2>1. Confined(r, ask[r].episode) /\ contested' = contested
    BY <1>2, CommitConfined
  <2>2. \A e \in Episodes \ contested : e = ask[r].episode =>
          /\ life'[e] = "alive" => SlotsOf(e)' = {publishOn'[e]}
          /\ life'[e] # "alive" => SlotsOf(e)' = {}
    BY <1>2, CommitAgrees
  <2>3. \A e \in Episodes \ contested : e # ask[r].episode =>
          /\ life'[e] = "alive" => SlotsOf(e)' = {publishOn'[e]}
          /\ life'[e] # "alive" => SlotsOf(e)' = {}
    BY <2>1 DEF Confined, CalendarAgrees
  <2> QED BY <2>1, <2>2, <2>3 DEF CalendarAgrees
<1>3. ASSUME NEW r \in Requests,
             \/ FindSlots(r) \/ ReleaseSlots(r) \/ InsertSlot(r) \/ StaleMove(r)
             \/ DeadlockVictim(r)
      PROVE  slots' = slots /\ life' = life /\ publishOn' = publishOn
             /\ contested \subseteq contested'
  BY <1>3 DEF FindSlots, ReleaseSlots, InsertSlot, StaleMove, DeadlockVictim,
              Rollback, End
<1>4. ASSUME NEW r \in Requests, NEW e \in Episodes, NEW d \in Dates,
             NEW recordedOn \in Dates,
             Create(r, e, recordedOn, d) \/ Move(r, e, d) \/ Remove(r, e)
      PROVE  slots' = slots /\ life' = life /\ publishOn' = publishOn
             /\ contested \subseteq contested'
  BY <1>4 DEF Create, Move, Remove, Ask, End
<1> QED
  BY <1>1, <1>2, <1>3, <1>4 DEF Next, Step, calVars

-----------------------------------------------------------------------------
\* Every variable keeps its type.
THEOREM TypeCorrect == Spec => []TypeOK
  BY Invariance, PTL DEF IInv

\* A refused move keeps the slot it had: over every race, refusal, deadlock
\* and deletion, a registered episode has a slot.
THEOREM SlotsAreKept == Spec => []NeverSlotless
  BY Invariance, PTL DEF IInv

\* An episode that no two requests ever worked on at once has one slot, on the
\* day it says, and none once it is deleted, however the requests for other
\* episodes race for the same days.
THEOREM CalendarIsKept == Spec => []CalendarAgrees
<1>1. Init => CalendarAgrees /\ Current
  BY DEF Init, CalendarAgrees, Current, Uncontested, SlotsOf
<1>2. IInv /\ CalendarAgrees /\ Current /\ [Next]_calVars
        => (CalendarAgrees /\ Current)'
  BY StepCurrent, StepAgrees DEF IInv
<1> QED BY Invariance, <1>1, <1>2, PTL DEF Spec

=============================================================================
