----------------------------- MODULE PlanBoard -----------------------------
(* The plan of one episode: generations saved by plan jobs                    *)
(* (edlo/jobs/plan.py) while editors decide on cuts and pick cold opens       *)
(* (apps/api/app/routes/plans.py).  A generation is identified by the order   *)
(* of generated_at.  One cut row stands for the cuts of a plan, a few places  *)
(* for its cold opens.  Every transaction runs at READ COMMITTED: a statement *)
(* finds the rows committed when it begins, then waits for those that another *)
(* transaction has deleted and not committed.                                 *)
EXTENDS Naturals, FiniteSets

CONSTANTS
  Jobs,           \* executions of plan jobs; a retry is one more
  Editors,        \* requests of editors
  Places,         \* positions of the cold opens of a plan
  MaxGens,        \* bound on the generations
  Starts, Ends,   \* timecodes an editor asks for
  ProposedStart, ProposedEnd,
  None

Gens == 1..MaxGens
Times == Starts \cup Ends \cup {ProposedStart, ProposedEnd}

\* Decision refuses an end_ms of 0.
ASSUME BoardAssumption ==
  /\ MaxGens \in Nat
  /\ Starts \subseteq Nat /\ Ends \subseteq Nat \ {0}
  /\ ProposedStart \in Nat /\ ProposedEnd \in Nat
  /\ ProposedStart < ProposedEnd
  /\ None \notin Nat

VARIABLES
  rows,        \* of each table, the generations with committed rows
  cut,         \* what editors made of the cut of a generation
  pick,        \* places whose cold open has picked = true
  checklists,  \* copies of the checklist
  last,        \* the last generation
  pc, at,      \* where a job is, and the table its delete is at
  seen,        \* rows its delete statement found and waits for
  held,        \* rows it has deleted and not committed
  gen,         \* the generation it writes
  lists,       \* it found no checklist
  asks,        \* what an editor asks, with what the session loaded
  overlapped,  \* history: two jobs ever saved at the same time
  crossed      \* history: generations whose cut two requests edited at once

jobVars == <<pc, at, seen, held, gen, lists>>
boardVars == <<rows, cut, pick, checklists, last, jobVars, asks, overlapped, crossed>>

\* In the order in which generate_plan deletes.
Tables == <<"cuts", "colds", "plans">>
TableNames == {"cuts", "colds", "plans"}

\* What editors made of a cut's span.  Its decision is one more column, which
\* nothing here reads.
Cuts == [start : Times \cup {None}, end : Times \cup {None}]

NewCut == [start |-> None, end |-> None]

\* The columns a request writes: those that differ from the row it loaded.
Asks ==
  [kind : {"decide"}, gen : Gens, writes : Cuts]
    \cup [kind : {"pick", "unpick"}, gen : Gens, place : Places]

TypeOK ==
  /\ rows \in [TableNames -> SUBSET Gens]
  /\ cut \in [Gens -> Cuts]
  /\ pick \in [Gens -> SUBSET Places]
  /\ checklists \in 0..MaxGens
  /\ last \in 0..MaxGens
  /\ pc \in [Jobs -> {"idle", "deleting", "waiting", "filling", "filled"}]
  /\ at \in [Jobs -> 1..3]
  /\ seen \in [Jobs -> SUBSET Gens]
  /\ held \in [Jobs -> [TableNames -> SUBSET Gens]]
  /\ gen \in [Jobs -> Gens \cup {None}]
  /\ \A j \in Jobs : pc[j] = "filled" => gen[j] \in 1..last
  /\ lists \in [Jobs -> BOOLEAN]
  /\ asks \in [Editors -> Asks \cup {None}]
  /\ overlapped \in BOOLEAN
  /\ crossed \in SUBSET Gens

Nothing == [t \in TableNames |-> {}]

Init ==
  /\ rows = Nothing
  /\ cut = [g \in Gens |-> NewCut]
  /\ pick = [g \in Gens |-> {}]
  /\ checklists = 0
  /\ last = 0
  /\ pc = [j \in Jobs |-> "idle"]
  /\ at = [j \in Jobs |-> 1]
  /\ seen = [j \in Jobs |-> {}]
  /\ held = [j \in Jobs |-> Nothing]
  /\ gen = [j \in Jobs |-> None]
  /\ lists = [j \in Jobs |-> FALSE]
  /\ asks = [e \in Editors |-> None]
  /\ overlapped = FALSE
  /\ crossed = {}

-----------------------------------------------------------------------------
(* The transaction by which a plan job saves what it made.                    *)

Goto(j, label) == pc' = [pc EXCEPT ![j] = label]

\* Mutant of Table: the plan is deleted before what belongs to it.
TableParentFirst(j) == <<"plans", "colds", "cuts">>[at[j]]

Table(j) == Tables[at[j]]

Deletable(j, gens) == \A k \in Jobs \ {j} : held[k][Table(j)] \cap gens = {}

Deleted(j, gens) ==
  /\ held' = [held EXCEPT ![j][Table(j)] = gens]
  /\ seen' = [seen EXCEPT ![j] = {}]
  /\ IF at[j] < 3
     THEN at' = [at EXCEPT ![j] = @ + 1] /\ Goto(j, "deleting")
     ELSE UNCHANGED at /\ Goto(j, "filling")

\* query(model_cls).delete(); the first one begins the transaction.  It waits
\* for rows that another transaction has deleted.
Delete(j) ==
  /\ pc[j] \in {"idle", "deleting"}
  /\ LET gens == rows[Table(j)] IN
     IF Deletable(j, gens) THEN Deleted(j, gens)
     ELSE /\ seen' = [seen EXCEPT ![j] = gens]
          /\ Goto(j, "waiting")
          /\ UNCHANGED <<at, held>>
  /\ overlapped' = (overlapped \/ \E k \in Jobs \ {j} : pc[k] # "idle")
  /\ UNCHANGED <<rows, cut, pick, checklists, last, gen, lists, asks, crossed>>

Wake(j) ==
  /\ pc[j] = "waiting" /\ Deletable(j, seen[j])
  /\ Deleted(j, seen[j])
  /\ UNCHANGED <<rows, cut, pick, checklists, last, gen, lists, asks, overlapped,
                 crossed>>

\* The new plan is flushed and the checklists are counted.
Fill(j) ==
  /\ pc[j] = "filling" /\ last < MaxGens
  /\ last' = last + 1
  /\ gen' = [gen EXCEPT ![j] = last + 1]
  /\ lists' = [lists EXCEPT ![j] = (checklists = 0)]
  /\ Goto(j, "filled")
  /\ UNCHANGED <<rows, cut, pick, checklists, at, seen, held, asks, overlapped,
                 crossed>>

\* The transaction ends; statements that wait no longer find what it deleted.
End(j, deleted) ==
  /\ Goto(j, "idle")
  /\ at' = [at EXCEPT ![j] = 1]
  /\ seen' = [k \in Jobs |->
       IF k = j THEN {}
       ELSE IF pc[k] = "waiting" THEN seen[k] \ deleted[Table(k)] ELSE seen[k]]
  /\ held' = [held EXCEPT ![j] = Nothing]
  /\ gen' = [gen EXCEPT ![j] = None]
  /\ lists' = [lists EXCEPT ![j] = FALSE]
  /\ UNCHANGED <<last, asks, overlapped>>

\* Mutant of Written: every generation writes a checklist.
WrittenAlways(j) == 1

\* Copies of the checklist this job writes.
Written(j) == IF lists[j] THEN 1 ELSE 0

\* Without proposals and flags a plan has no cuts and no cold opens.
Commit(j, bare) ==
  /\ pc[j] = "filled"
  /\ rows' = [t \in TableNames |->
       (rows[t] \ held[j][t]) \cup (IF bare /\ t # "plans" THEN {} ELSE {gen[j]})]
  /\ cut' = [g \in Gens |-> IF g \in held[j]["cuts"] THEN NewCut ELSE cut[g]]
  /\ pick' = [g \in Gens |-> IF g \in held[j]["colds"] THEN {} ELSE pick[g]]
  /\ crossed' = crossed \ held[j]["cuts"]
  /\ checklists' = checklists + Written(j)
  /\ End(j, held[j])

\* The job fails or its process dies.
Abort(j) ==
  /\ pc[j] # "idle"
  /\ End(j, Nothing)
  /\ UNCHANGED <<rows, cut, pick, checklists, crossed>>

-----------------------------------------------------------------------------
(* The editors' requests.  The session reads the row; the commit writes what  *)
(* differs from that, and fails if the row is gone.                           *)

Free(t, g) == \A j \in Jobs : g \notin held[j][t]

\* The span a request for these ends makes of an edited one.  An edited start
\* of 0 counts as not edited.
Span(old, start, end) ==
  [start |-> CASE start # None -> start
               [] start = None /\ old.start \notin {None, 0} -> old.start
               [] OTHER -> ProposedStart,
   end |-> CASE end # None -> end
             [] end = None /\ old.end \notin {None, 0} -> old.end
             [] OTHER -> ProposedEnd]

\* Mutant of Refused: an empty span is let through.
RefusedBackward(span) == span.end < span.start

Refused(span) == span.end <= span.start

Differing(old, new) ==
  [field \in {"start", "end"} |->
     IF new[field] = old[field] THEN None ELSE new[field]]

DecideLoad(e, g, start, end) ==
  LET span == Span(cut[g], start, end) IN
  /\ asks[e] = None /\ g \in rows["cuts"]
  /\ ~Refused(span)
  /\ asks' = [asks EXCEPT ![e] =
       [kind |-> "decide", gen |-> g, writes |-> Differing(cut[g], span)]]
  /\ crossed' = IF \E f \in Editors :
                     asks[f] # None /\ asks[f].kind = "decide" /\ asks[f].gen = g
                THEN crossed \cup {g} ELSE crossed
  /\ UNCHANGED <<rows, cut, pick, checklists, last, jobVars, overlapped>>

Answered(e) ==
  /\ asks' = [asks EXCEPT ![e] = None]
  /\ UNCHANGED <<rows, checklists, last, jobVars, overlapped, crossed>>

Updated(row, writes) ==
  [field \in {"start", "end"} |->
     IF writes[field] = None THEN row[field] ELSE writes[field]]

DecideCommit(e) ==
  LET ask == asks[e] IN
  /\ ask # None /\ ask.kind = "decide" /\ Free("cuts", ask.gen)
  /\ cut' = IF ask.gen \in rows["cuts"]
            THEN [cut EXCEPT ![ask.gen] = Updated(@, ask.writes)]
            ELSE cut
  /\ Answered(e)
  /\ UNCHANGED pick

\* The session loads the cold open; a request that changes nothing is left out.
PickLoad(e, g, place, kind) ==
  /\ asks[e] = None /\ g \in rows["colds"]
  /\ kind = "unpick" => place \in pick[g]
  /\ asks' = [asks EXCEPT ![e] = [kind |-> kind, gen |-> g, place |-> place]]
  /\ UNCHANGED <<rows, cut, pick, checklists, last, jobVars, overlapped, crossed>>

\* Mutant of Repicked: the other cold opens keep their pick.
RepickedToo(ask, places) ==
  IF ask.kind = "pick" THEN places \cup {ask.place} ELSE places \ {ask.place}

\* A pick first takes the pick from every cold open of the plan, which locks
\* their rows.
Repicked(ask, places) ==
  IF ask.kind = "pick" THEN {ask.place} ELSE places \ {ask.place}

PickCommit(e) ==
  LET ask == asks[e] IN
  /\ ask # None /\ ask.kind \in {"pick", "unpick"} /\ Free("colds", ask.gen)
  /\ pick' = IF ask.gen \in rows["colds"]
             THEN [pick EXCEPT ![ask.gen] = Repicked(ask, @)]
             ELSE pick
  /\ Answered(e)
  /\ UNCHANGED cut

JobStep(j) ==
  \/ Delete(j) \/ Wake(j) \/ Fill(j) \/ Abort(j)
  \/ \E bare \in BOOLEAN : Commit(j, bare)

EditorStep(e) ==
  \/ \E g \in Gens, start \in Starts \cup {None}, end \in Ends \cup {None} :
       {start, end} # {None} /\ DecideLoad(e, g, start, end)
  \/ \E g \in Gens, place \in Places, kind \in {"pick", "unpick"} :
       PickLoad(e, g, place, kind)
  \/ DecideCommit(e) \/ PickCommit(e)

Next ==
  \/ \E j \in Jobs : JobStep(j)
  \/ \E e \in Editors : EditorStep(e)

Spec == Init /\ [][Next]_boardVars

-----------------------------------------------------------------------------
\* A plan that is there is whole: however saves, retries and aborts overlap,
\* no save deletes cuts or cold opens of a plan and leaves the plan, because
\* what belongs to a plan is deleted before the plan.
PlansAreWhole ==
  [][\A t \in {"cuts", "colds"}, g \in Gens :
       g \in rows[t] /\ g \notin rows'[t] => g \notin rows'["plans"]]_boardVars

\* One cold open at most is picked in a plan, whoever picks at the same time.
OnePick == \A g \in Gens : Cardinality(pick[g]) <= 1

\* The cold opens that are picked and the cuts that are decided are those of
\* the board: saves that do not overlap leave one plan and no rows of another,
\* and the one checklist.
BoardIsClean ==
  ~overlapped =>
    /\ Cardinality(rows["plans"]) <= 1
    /\ rows["cuts"] \cup rows["colds"] \subseteq rows["plans"]
    /\ checklists <= 1

Forward(c) ==
  \/ c.start = None /\ c.end = None
  \/ c.start # None /\ c.end # None /\ c.start < c.end

\* An edited cut goes forward, unless two requests edited it at once.
SpansGoForward == \A g \in Gens \ crossed : Forward(cut[g])

\* end_ms must be after start_ms.
EndAfterStart == \A g \in Gens : Forward(cut[g])

=============================================================================
