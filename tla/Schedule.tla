------------------------------ MODULE Schedule ------------------------------
(* The posting calendar: edlo/services/schedule.py as the routes of           *)
(* apps/api/app/routes/episodes.py and services/deletion.py use it.  Each     *)
(* request is one transaction at READ COMMITTED: a statement sees what was    *)
(* committed before it, a flushed row is locked and invisible to the others,  *)
(* and whoever needs it waits.  Slot rows have no foreign key to episodes.    *)
EXTENDS Naturals, FiniteSets

CONSTANTS
  Requests,  \* requests in flight at one time
  Episodes,  \* ids that are ever given to an episode
  Horizon,   \* last day that is modelled; days are 1..Horizon
  Today,
  Cadence,   \* cadence_days
  None

Dates == 1..Horizon

ASSUME ScheduleAssumption ==
  /\ Horizon \in Nat /\ Today \in Dates /\ Cadence \in Nat \ {0}
  /\ None \notin Dates /\ None \notin Episodes

VARIABLES
  life,       \* of an episode row: "unborn", "alive" or "gone"
  publishOn,  \* Episode.publish_on
  slots,      \* committed PostingSlot rows: the episode on each day, or None
  pc,         \* where a request is
  ask,        \* what it does, to which episode, and the date
  loaded,     \* the publish_on its session read
  seen,       \* days whose rows its delete statement found, still there
  held,       \* days whose rows it has deleted and not committed
  answer,     \* status of the last answer of each request
  contested   \* history: episodes two requests were ever under way for

calVars ==
  <<life, publishOn, slots, pc, ask, loaded, seen, held, answer, contested>>

Kinds == {"create", "move", "remove"}

Asks == [kind : Kinds, episode : Episodes, date : Dates \cup {None}]

TypeOK ==
  /\ life \in [Episodes -> {"unborn", "alive", "gone"}]
  /\ publishOn \in [Episodes -> Dates \cup {None}]
  /\ slots \in [Dates -> Episodes \cup {None}]
  /\ pc \in [Requests -> {"idle", "loaded", "releasing", "inserting", "flushed"}]
  /\ ask \in [Requests -> Asks \cup {None}]
  /\ \A r \in Requests : pc[r] # "idle" =>
       /\ ask[r] \in Asks
       /\ ask[r].date # None <=> ask[r].kind # "remove"
  /\ loaded \in [Requests -> Dates \cup {None}]
  /\ seen \in [Requests -> SUBSET Dates]
  /\ held \in [Requests -> SUBSET Dates]
  /\ \A r \in Requests : pc[r] = "idle" => seen[r] = {} /\ held[r] = {}
  /\ answer \in [Requests -> {"none", "ok", "409", "500"}]
  /\ contested \in SUBSET Episodes

Init ==
  /\ life = [e \in Episodes |-> "unborn"]
  /\ publishOn = [e \in Episodes |-> None]
  /\ slots = [d \in Dates |-> None]
  /\ pc = [r \in Requests |-> "idle"]
  /\ ask = [r \in Requests |-> None]
  /\ loaded = [r \in Requests |-> None]
  /\ seen = [r \in Requests |-> {}]
  /\ held = [r \in Requests |-> {}]
  /\ answer = [r \in Requests |-> "none"]
  /\ contested = {}

Goto(r, label) == pc' = [pc EXCEPT ![r] = label]

\* Mutant of End: the session is not closed, its deleted rows stay locked.
EndUnclosed(r, deleted, status) ==
  /\ Goto(r, "idle")
  /\ ask' = [ask EXCEPT ![r] = None]
  /\ loaded' = [loaded EXCEPT ![r] = None]
  /\ seen' = [q \in Requests |-> IF q = r THEN {} ELSE seen[q] \ deleted]
  /\ answer' = [answer EXCEPT ![r] = status]
  /\ UNCHANGED <<held, contested>>

\* The transaction of r ends with these rows deleted, and its session closes.
\* A statement that waits for a deleted row no longer finds it, and does not
\* see the row another put in its place.
End(r, deleted, status) ==
  /\ Goto(r, "idle")
  /\ ask' = [ask EXCEPT ![r] = None]
  /\ loaded' = [loaded EXCEPT ![r] = None]
  /\ seen' = [q \in Requests |-> IF q = r THEN {} ELSE seen[q] \ deleted]
  /\ held' = [held EXCEPT ![r] = {}]
  /\ answer' = [answer EXCEPT ![r] = status]
  /\ UNCHANGED contested

Rollback(r, status) ==
  /\ End(r, {}, status)
  /\ UNCHANGED <<life, publishOn, slots>>

\* A request for the episode is under way.
Asked(e) == \E q \in Requests : pc[q] # "idle" /\ ask[q].episode = e

Ask(r, kind, e, date) ==
  /\ pc[r] = "idle"
  /\ ask' = [ask EXCEPT ![r] = [kind |-> kind, episode |-> e, date |-> date]]
  /\ answer' = [answer EXCEPT ![r] = "none"]
  /\ contested' = IF Asked(e) THEN contested \cup {e} ELSE contested

-----------------------------------------------------------------------------
\* next_free_slot(): the first day after the recording, in whole cadences,
\* that has no committed slot.
Candidates(after) ==
  {d \in after + Cadence..Horizon : (d - after) % Cadence = 0 /\ slots[d] = None}
NextFreeSlot(d, after) ==
  d \in Candidates(after) /\ \A c \in Candidates(after) : d <= c

\* create_episode: a new row, flushed, and the slot it is to have; assign()
\* refuses a past day, and create_episode does not catch that.  The episode is
\* born uncommitted, so nobody else can ask for it.
Create(r, e, recordedOn, d) ==
  /\ life[e] = "unborn" /\ ~Asked(e)
  /\ NextFreeSlot(d, recordedOn)
  /\ \/ /\ d >= Today
        /\ Ask(r, "create", e, d)
        /\ Goto(r, "loaded")
        /\ UNCHANGED <<loaded, seen, held>>
     \/ /\ d < Today
        /\ pc[r] = "idle"
        /\ End(r, {}, "500")
  /\ UNCHANGED <<life, publishOn, slots>>

\* set_slot: the session reads the episode; a past day is answered 422.
Move(r, e, date) ==
  /\ life[e] = "alive" /\ date >= Today
  /\ Ask(r, "move", e, date)
  /\ Goto(r, "loaded")
  /\ loaded' = [loaded EXCEPT ![r] = publishOn[e]]
  /\ UNCHANGED <<life, publishOn, slots, seen, held>>

\* remove_episode, delete_episode.
Remove(r, e) ==
  /\ life[e] = "alive"
  /\ Ask(r, "remove", e, None)
  /\ Goto(r, "loaded")
  /\ UNCHANGED <<life, publishOn, slots, loaded, seen, held>>

SlotsOf(e) == {d \in Dates : slots[d] = e}

\* The statement that deletes the slots of the episode begins.
FindSlots(r) ==
  /\ pc[r] = "loaded"
  /\ seen' = [seen EXCEPT ![r] = SlotsOf(ask[r].episode)]
  /\ Goto(r, "releasing")
  /\ UNCHANGED <<life, publishOn, slots, ask, loaded, held, answer, contested>>

Assigns(r) == ask[r].kind # "remove"

\* Requests whose flushed rows this one has to wait for.
Blockers(r) == {q \in Requests \ {r} :
  \/ pc[r] = "releasing" /\ held[q] \cap seen[r] # {}
  \/ /\ pc[r] = "inserting"
     /\ \/ pc[q] = "flushed" /\ Assigns(q) /\ ask[q].date = ask[r].date
        \/ ask[r].date \in held[q]}

AfterRelease(r) == Goto(r, IF Assigns(r) THEN "inserting" ELSE "flushed")

\* Mutant of ReleaseSlots: assign() releases nothing.
ReleaseNothing(r) ==
  /\ pc[r] = "releasing" /\ Blockers(r) = {}
  /\ seen' = [seen EXCEPT ![r] = {}]
  /\ AfterRelease(r)
  /\ UNCHANGED <<life, publishOn, slots, ask, loaded, held, answer, contested>>

\* It ends: the rows it found and nobody has deleted since are deleted.
ReleaseSlots(r) ==
  /\ pc[r] = "releasing" /\ Blockers(r) = {}
  /\ held' = [held EXCEPT ![r] = seen[r]]
  /\ seen' = [seen EXCEPT ![r] = {}]
  /\ AfterRelease(r)
  /\ UNCHANGED <<life, publishOn, slots, ask, loaded, answer, contested>>

Conflict(r) == slots[ask[r].date] # None /\ ask[r].date \notin held[r]

\* The committed rows without the ones r has deleted.
Released(r) == [d \in Dates |-> IF d \in held[r] THEN None ELSE slots[d]]

\* Mutant of InsertSlot: the release is committed before the insert is tried.
InsertSlotAlone(r) ==
  /\ pc[r] = "inserting" /\ Blockers(r) = {}
  /\ \/ /\ ~Conflict(r)
        /\ Goto(r, "flushed")
        /\ UNCHANGED <<slots, ask, loaded, seen, held, answer, contested>>
     \/ /\ Conflict(r)
        /\ slots' = Released(r)
        /\ End(r, held[r], "409")
  /\ UNCHANGED <<life, publishOn>>

\* The insert is flushed; a day that has a slot rolls everything back, which
\* set_slot answers with 409 and create_episode does not catch.
InsertSlot(r) ==
  /\ pc[r] = "inserting" /\ Blockers(r) = {}
  /\ \/ /\ ~Conflict(r)
        /\ Goto(r, "flushed")
        /\ UNCHANGED <<life, slots, publishOn, ask, loaded, seen, held, answer, contested>>
     \/ /\ Conflict(r)
        /\ Rollback(r, IF ask[r].kind = "move" THEN "409" ELSE "500")

\* The commit writes the episode's row only if publish_on differs from what
\* the session loaded, and fails if that row is gone.
Updates(r) == ask[r].date # loaded[r]

CommitCreate(r) ==
  LET e == ask[r].episode IN
  /\ pc[r] = "flushed" /\ ask[r].kind = "create"
  /\ slots' = [Released(r) EXCEPT ![ask[r].date] = e]
  /\ publishOn' = [publishOn EXCEPT ![e] = ask[r].date]
  /\ life' = [life EXCEPT ![e] = "alive"]
  /\ End(r, held[r], "ok")

CommitMove(r) ==
  LET e == ask[r].episode IN
  /\ pc[r] = "flushed" /\ ask[r].kind = "move"
  /\ Updates(r) => life[e] = "alive"
  /\ slots' = [Released(r) EXCEPT ![ask[r].date] = e]
  /\ publishOn' = IF Updates(r) THEN [publishOn EXCEPT ![e] = ask[r].date]
                                ELSE publishOn
  /\ End(r, held[r], "ok")
  /\ UNCHANGED life

StaleMove(r) ==
  /\ pc[r] = "flushed" /\ ask[r].kind = "move"
  /\ Updates(r) /\ life[ask[r].episode] # "alive"
  /\ Rollback(r, "500")

CommitRemove(r) ==
  LET e == ask[r].episode IN
  /\ pc[r] = "flushed" /\ ask[r].kind = "remove"
  /\ slots' = Released(r)
  /\ life' = [life EXCEPT ![e] = "gone"]
  /\ publishOn' = [publishOn EXCEPT ![e] = None]
  /\ End(r, held[r], "ok")

\* Requests that wait for each other: the database ends one of them.
Deadlocked(r) == \E S \in SUBSET Requests :
  /\ r \in S
  /\ \A q \in S : Blockers(q) \cap S # {}
  /\ \A T \in SUBSET S \ {{}, S} : \E q \in T : Blockers(q) \cap T = {}

DeadlockVictim(r) ==
  /\ Deadlocked(r)
  /\ Rollback(r, "500")

Step(r) ==
  \/ FindSlots(r) \/ ReleaseSlots(r) \/ InsertSlot(r)
  \/ CommitCreate(r) \/ CommitMove(r) \/ StaleMove(r) \/ CommitRemove(r)
  \/ DeadlockVictim(r)

Next ==
  \/ \E r \in Requests, e \in Episodes :
       \/ \E d, recordedOn \in Dates : Create(r, e, recordedOn, d)
       \/ \E d \in Dates : Move(r, e, d)
       \/ Remove(r, e)
  \/ \E r \in Requests : Step(r)

Spec == Init /\ [][Next]_calVars

-----------------------------------------------------------------------------
\* A failed insert leaves the old slot intact: whatever requests race, refuse
\* or deadlock, a registered episode never ends up without a slot.
NeverSlotless == \A e \in Episodes : life[e] = "alive" => SlotsOf(e) # {}

\* The calendar and the episodes agree: an episode has one slot, on the day it
\* says, and none once it is deleted, whatever other episodes compete for the
\* same days; it takes two requests for the one episode at a time to break it.
CalendarAgrees ==
  \A e \in Episodes \ contested :
    /\ life[e] = "alive" => SlotsOf(e) = {publishOn[e]}
    /\ life[e] # "alive" => SlotsOf(e) = {}

\* One episode, one slot: release whatever it held before.
OneSlot == \A e \in Episodes : Cardinality(SlotsOf(e)) <= 1

\* Two episodes cannot share a date.
NoSharedDate ==
  \A e, f \in Episodes : life[e] = "alive" /\ life[f] = "alive" /\ e # f
                           => publishOn[e] # publishOn[f]

\* Deleting an episode removes everything it owns, its posting slot included.
NoOrphanSlot == \A e \in Episodes : life[e] = "gone" => SlotsOf(e) = {}

\* Registering takes the next free posting slot: it does not fail when nobody
\* else uses the calendar.
RegistrationSucceeds == \A r \in Requests : answer[r] # "500"

=============================================================================
