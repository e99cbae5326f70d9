---------------------------- MODULE Submission ----------------------------
(* How a route creates a job (apps/api/app/submit.py, idempotency.py): look   *)
(* up the stored answer, for an upload mark its row ready, commit the job     *)
(* row, enqueue, store the answer.  The API runs several of these at once; a  *)
(* step is what happens between two points where another request, a failure   *)
(* or a crash can come in between.  The database is Postgres at READ          *)
(* COMMITTED: a flushed delete is invisible to others, locks its row, and     *)
(* becomes durable with whatever its transaction commits next.                *)
EXTENDS Naturals, FiniteSets

CONSTANTS
  Requests,  \* requests in flight at one time
  Calls,     \* what clients ask: records with key, route, body, the upload that
             \* is complete (None for a plan or a pack), and the job's unique
             \* (kind, idempotency_key), or None for the final mix
  None,
  Ages,      \* BOOLEAN: stored answers outlive their retention
  Faults,    \* BOOLEAN: the queue fails, API processes die
  Serial     \* BOOLEAN: a client waits for one answer before it asks again

Slot(c) == <<c.key, c.route>>
Slots == {Slot(c) : c \in Calls}
JobKeys == {c.job : c \in Calls} \ {None}
Bodies == {c.body : c \in Calls}
Uploads == {c.upload : c \in Calls} \ {None}

\* A route computes the job's key from what the request says.
ASSUME CallsAssumption ==
  \A c, d \in Calls : Slot(c) = Slot(d) /\ c.body = d.body => c.job = d.job

ASSUME SwitchAssumption ==
  Ages \in BOOLEAN /\ Faults \in BOOLEAN /\ Serial \in BOOLEAN

Records == [fp : Bodies, job : JobKeys \cup {None}, old : BOOLEAN]

ASSUME NoneAssumption == None \notin Records \cup Calls

VARIABLES
  records,  \* idempotency_records, by (key, route)
  ready,    \* uploads whose row is committed as ready
  jobs,     \* committed job rows
  sends,    \* how often each job was enqueued by its submission
  pc,       \* where a request is
  call,     \* what it asks
  deletes,  \* its transaction holds a flushed, uncommitted delete of its record
  answer,   \* the status it was answered with
  aged,     \* history: requests whose answer has passed its retention
  crossed,  \* history: requests answered while another of their slot was in
            \* the middle of replacing the expired record
  dropped   \* history: jobs committed by a request that failed before it
            \* enqueued them

hist == <<aged, crossed, dropped>>
subVars == <<records, ready, jobs, sends, pc, call, deletes, answer, hist>>

\* "expired": lookup() read a record past its retention; "waiting": its delete
\* waits for a rival's; "missed": lookup() returned None; "pending": the upload's
\* row was read and is not ready; "checked": on to the job; "committed": the
\* job's row is in; "sent": about to remember.
SubPCs == {"new", "expired", "waiting", "missed", "pending", "checked",
           "committed", "sent", "done"}

Answers == {"none", "202", "409", "500"}

TypeOK ==
  /\ records \in [Slots -> Records \cup {None}]
  /\ ready \in SUBSET Uploads
  /\ jobs \in SUBSET JobKeys
  /\ sends \in [JobKeys -> 0..1]
  /\ pc \in [Requests -> SubPCs]
  /\ call \in [Requests -> Calls \cup {None}]
  /\ \A r \in Requests : pc[r] # "new" => call[r] \in Calls
  /\ deletes \in [Requests -> BOOLEAN]
  /\ answer \in [Requests -> Answers]
  /\ aged \in SUBSET Requests /\ crossed \in SUBSET Requests
  /\ dropped \in SUBSET JobKeys

Init ==
  /\ records = [s \in Slots |-> None]
  /\ ready = {} /\ jobs = {}
  /\ sends = [j \in JobKeys |-> 0]
  /\ pc = [r \in Requests |-> "new"]
  /\ call = [r \in Requests |-> None]
  /\ deletes = [r \in Requests |-> FALSE]
  /\ answer = [r \in Requests |-> "none"]
  /\ aged = {} /\ crossed = {} /\ dropped = {}

InFlight(r) == pc[r] \notin {"new", "done"}
SlotOf(r) == Slot(call[r])

\* Another transaction holds the lock on the row of the slot of r.
SlotLocked(r) == \E q \in Requests \ {r} : deletes[q] /\ SlotOf(q) = SlotOf(r)

\* Another request holds what it read of slot s, the expired record, or has
\* deleted its row and not committed.
BeingReplaced(r, s) ==
  \E q \in Requests \ {r} : (pc[q] = "expired" \/ deletes[q]) /\ SlotOf(q) = s

Finish(r, status) ==
  /\ pc' = [pc EXCEPT ![r] = "done"]
  /\ answer' = [answer EXCEPT ![r] = status]

Answered(r, s) ==
  /\ Finish(r, "202")
  /\ crossed' = IF BeingReplaced(r, s) THEN crossed \cup {r} ELSE crossed

-----------------------------------------------------------------------------
\* The stored answer is for this very request.
Fingerprinted(rec, c) == rec.fp = c.body

\* replay() and lookup(): no record, one past its retention, one to replay,
\* or one of another body.
Lookup(r, c) ==
  LET rec == records[Slot(c)] IN
  /\ pc[r] = "new"
  /\ Serial => \A q \in Requests : ~InFlight(q)
  /\ call' = [call EXCEPT ![r] = c]
  /\ \/ /\ rec = None
        /\ pc' = [pc EXCEPT ![r] = "missed"]
        /\ UNCHANGED <<answer, crossed>>
     \/ /\ rec # None /\ rec.old
        /\ pc' = [pc EXCEPT ![r] = "expired"]
        /\ UNCHANGED <<answer, crossed>>
     \/ rec # None /\ ~rec.old /\ Fingerprinted(rec, c) /\ Answered(r, Slot(c))
     \/ rec # None /\ ~rec.old /\ ~Fingerprinted(rec, c) /\ Finish(r, "409")
        /\ UNCHANGED crossed
  /\ UNCHANGED <<records, ready, jobs, sends, deletes, aged, dropped>>

\* db.delete and flush: by primary key, whatever record is there by now; it
\* waits while a rival holds the row.
FlushDelete(r) ==
  /\ pc[r] = "expired"
  /\ \/ /\ ~SlotLocked(r)
        /\ deletes' = [deletes EXCEPT ![r] = records[SlotOf(r)] # None]
        /\ pc' = [pc EXCEPT ![r] = "missed"]
     \/ /\ SlotLocked(r)
        /\ pc' = [pc EXCEPT ![r] = "waiting"]
        /\ UNCHANGED deletes
  /\ UNCHANGED <<records, ready, jobs, sends, call, answer, hist>>

\* The rival's transaction has ended: the delete sees the row it waited for if
\* the rival rolled back, and none of those inserted since.
WakeDelete(r) ==
  /\ pc[r] = "waiting" /\ ~SlotLocked(r)
  /\ deletes' = [deletes EXCEPT ![r] =
       records[SlotOf(r)] # None /\ records[SlotOf(r)].old]
  /\ pc' = [pc EXCEPT ![r] = "missed"]
  /\ UNCHANGED <<records, ready, jobs, sends, call, answer, hist>>

\* complete_upload() refuses an upload that is not in storage, differs or has
\* no row; the other routes have made their checks before the lookup.
Refuse(r) ==
  /\ pc[r] = "missed" /\ call[r].upload # None
  /\ deletes' = [deletes EXCEPT ![r] = FALSE]
  /\ Finish(r, "409")
  /\ UNCHANGED <<records, ready, jobs, sends, call, hist>>

\* The upload's row is read.
CheckUpload(r) ==
  /\ pc[r] = "missed"
  /\ pc' = [pc EXCEPT ![r] =
       IF call[r].upload \in ready \cup {None} THEN "checked" ELSE "pending"]
  /\ UNCHANGED <<records, ready, jobs, sends, call, deletes, answer, hist>>

\* What the transaction of r has flushed becomes durable.
Flushed(r) ==
  IF deletes[r] THEN [records EXCEPT ![SlotOf(r)] = None] ELSE records

\* The upload's row is committed as ready, and the delete with it.
CommitReady(r) ==
  /\ pc[r] = "pending"
  /\ ready' = ready \cup {call[r].upload}
  /\ records' = Flushed(r)
  /\ deletes' = [deletes EXCEPT ![r] = FALSE]
  /\ pc' = [pc EXCEPT ![r] = "checked"]
  /\ UNCHANGED <<jobs, sends, call, answer, hist>>

\* Mutant of CommitJob: the row is left for later, the message goes first.
EnqueueFirst(r) ==
  /\ pc[r] = "checked" /\ call[r].job \notin jobs \cup {None}
  /\ sends' = [sends EXCEPT ![call[r].job] = 1]
  /\ pc' = [pc EXCEPT ![r] = "sent"]
  /\ UNCHANGED <<records, ready, jobs, call, deletes, answer, hist>>

\* Mutant of CommitJob: the row found instead of created is enqueued again.
CommitOrFind(r) ==
  /\ pc[r] = "checked" /\ call[r].job # None
  /\ jobs' = jobs \cup {call[r].job}
  /\ pc' = [pc EXCEPT ![r] = "committed"]
  /\ deletes' = [deletes EXCEPT ![r] = FALSE]
  /\ UNCHANGED <<records, ready, sends, call, answer, hist>>

\* The row is committed, and the delete of the expired record with it; or the
\* unique constraint refuses it, and the rollback takes the delete back too.
CommitJob(r) ==
  /\ pc[r] = "checked" /\ call[r].job # None
  /\ deletes' = [deletes EXCEPT ![r] = FALSE]
  /\ \/ /\ call[r].job \notin jobs
        /\ jobs' = jobs \cup {call[r].job}
        /\ records' = Flushed(r)
        /\ pc' = [pc EXCEPT ![r] = "committed"]
     \/ /\ call[r].job \in jobs
        /\ pc' = [pc EXCEPT ![r] = "sent"]
        /\ UNCHANGED <<records, jobs>>
  /\ UNCHANGED <<ready, sends, call, answer, hist>>

\* The final mix has no job: on to the answer, in the same transaction.
SkipJob(r) ==
  /\ pc[r] = "checked" /\ call[r].job = None
  /\ pc' = [pc EXCEPT ![r] = "sent"]
  /\ UNCHANGED <<records, ready, jobs, sends, call, deletes, answer, hist>>

\* Mutant of Enqueue: `if created` turned around, the new row is not sent.
EnqueueIfFound(r) ==
  /\ pc[r] = "committed"
  /\ pc' = [pc EXCEPT ![r] = "sent"]
  /\ UNCHANGED <<records, ready, jobs, sends, call, deletes, answer, hist>>

Enqueue(r) ==
  /\ pc[r] = "committed"
  /\ sends' = [sends EXCEPT ![call[r].job] = @ + 1]
  /\ pc' = [pc EXCEPT ![r] = "sent"]
  /\ UNCHANGED <<records, ready, jobs, call, deletes, answer, hist>>

\* The job that r has committed and not enqueued.
Unsent(r) == IF pc[r] = "committed" THEN {call[r].job} ELSE {}

\* The queue refuses the message: the exception leaves the row unsent.
EnqueueError(r) ==
  /\ Faults /\ pc[r] = "committed"
  /\ Finish(r, "500")
  /\ dropped' = dropped \cup Unsent(r)
  /\ UNCHANGED <<records, ready, jobs, sends, call, deletes, aged, crossed>>

Remembered(c) == [fp |-> c.body, job |-> c.job, old |-> FALSE]

\* Mutant of Remember: merges the record instead of adding it.
RememberLast(r) ==
  /\ pc[r] = "sent" /\ ~SlotLocked(r)
  /\ records' = [records EXCEPT ![SlotOf(r)] = Remembered(call[r])]
  /\ deletes' = [deletes EXCEPT ![r] = FALSE]
  /\ Answered(r, SlotOf(r))
  /\ UNCHANGED <<ready, jobs, sends, call, aged, dropped>>

\* remember() and the last commit: the primary key admits one record, and
\* nothing catches the error of a second.
Remember(r) ==
  /\ pc[r] = "sent" /\ ~SlotLocked(r)
  /\ deletes' = [deletes EXCEPT ![r] = FALSE]
  /\ \/ /\ records[SlotOf(r)] = None \/ deletes[r]
        /\ records' = [records EXCEPT ![SlotOf(r)] = Remembered(call[r])]
        /\ Answered(r, SlotOf(r))
     \/ /\ records[SlotOf(r)] # None /\ ~deletes[r]
        /\ Finish(r, "500")
        /\ UNCHANGED <<records, crossed>>
  /\ UNCHANGED <<ready, jobs, sends, call, aged, dropped>>

-----------------------------------------------------------------------------
\* The API process dies: its transaction is rolled back, nobody is answered.
ApiCrash(r) ==
  /\ Faults /\ InFlight(r)
  /\ deletes' = [deletes EXCEPT ![r] = FALSE]
  /\ dropped' = dropped \cup Unsent(r)
  /\ Finish(r, "500")
  /\ UNCHANGED <<records, ready, jobs, sends, call, aged, crossed>>

\* The client has its answer, or gives up, and may ask again.
AskAgain(r) ==
  /\ pc[r] = "done"
  /\ pc' = [pc EXCEPT ![r] = "new"]
  /\ call' = [call EXCEPT ![r] = None]
  /\ answer' = [answer EXCEPT ![r] = "none"]
  /\ aged' = aged \ {r} /\ crossed' = crossed \ {r}
  /\ UNCHANGED <<records, ready, jobs, sends, deletes, dropped>>

\* RETENTION passes for a record and every answer given from it; no request
\* lasts that long.
Age(s) ==
  /\ Ages /\ records[s] # None /\ ~records[s].old
  /\ \A r \in Requests : ~InFlight(r)
  /\ records' = [records EXCEPT ![s].old = TRUE]
  /\ aged' = aged \cup {r \in Requests : pc[r] = "done" /\ SlotOf(r) = s}
  /\ UNCHANGED <<ready, jobs, sends, pc, call, deletes, answer, crossed, dropped>>

SubmitJob(r) ==
  \/ FlushDelete(r) \/ WakeDelete(r)
  \/ Refuse(r) \/ CheckUpload(r) \/ CommitReady(r) \/ CommitJob(r) \/ SkipJob(r)
  \/ Enqueue(r) \/ EnqueueError(r) \/ Remember(r)

Next ==
  \/ \E r \in Requests : (\E c \in Calls : Lookup(r, c)) \/ SubmitJob(r)
  \/ \E r \in Requests : ApiCrash(r) \/ AskAgain(r)
  \/ \E s \in Slots : Age(s)

Spec == Init /\ [][Next]_subVars

-----------------------------------------------------------------------------
\* Enqueue it once: however many requests race for a job, its submission sends
\* one message at most, and never one for a row that is not committed.
SentOnce == \A j \in JobKeys : sends[j] <= (IF j \in jobs THEN 1 ELSE 0)

\* A retry gets the original answer: whatever was answered 202 stays on record
\* with its body and its job until its own retention is over, and then anew;
\* two requests with one key and different bodies are not both accepted.  Not
\* promised is an answer given while another request of the key was still
\* about to delete the expired record: its delete takes the fresh one.
AnswerIsKept ==
  \A r \in Requests : answer[r] = "202" /\ r \notin aged \cup crossed =>
    /\ records[SlotOf(r)] = Remembered(call[r])
    /\ call[r].job \in jobs \cup {None}

\* Every committed row gets its message: one without is being submitted, or
\* the request that committed it failed in between.  A request that only finds
\* the row, a retry after a failure included, sends none.
RowIsSent ==
  \A j \in jobs : sends[j] = 0 =>
    j \in dropped \/ \E r \in Requests : pc[r] = "committed" /\ call[r].job = j

\* The same with no exception for requests that cross.
EveryAnswerIsKept ==
  \A r \in Requests : answer[r] = "202" /\ r \notin aged =>
    records[SlotOf(r)] = Remembered(call[r])

\* Create (or find) the job and answer 202: nobody who asks for a job is
\* turned away with a server error.
NoServerError == \A r \in Requests : answer[r] # "500"

=============================================================================
