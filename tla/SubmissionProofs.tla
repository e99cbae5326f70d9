-------------------------- MODULE SubmissionProofs --------------------------
(* Submission: types, one message per job, and answers that are kept, for any *)
(* number of requests and calls, with failures and retention.                 *)
EXTENDS Submission, TLAPS

\* One request at most is between the commit of a job's row and its message.
Sending ==
  /\ \A j \in JobKeys : sends[j] = 1 => j \in jobs
  /\ \A r \in Requests : pc[r] = "committed" =>
       call[r].job \in jobs /\ sends[call[r].job] = 0
  /\ \A r, q \in Requests :
       pc[r] = "committed" /\ pc[q] = "committed" /\ call[r].job = call[q].job
         => r = q

\* A record is the answer to a call whose job exists; a flushed delete belongs
\* to a request that has not committed since.
Recorded ==
  /\ \A s \in Slots : records[s] # None =>
       /\ \E c \in Calls : /\ Slot(c) = s /\ c.body = records[s].fp
                           /\ c.job = records[s].job
       /\ records[s].job \in jobs \cup {None}
  /\ \A r \in Requests : pc[r] = "sent" => call[r].job \in jobs \cup {None}
  /\ \A r \in Requests :
       deletes[r] => pc[r] \in {"missed", "pending", "checked", "sent"}
  /\ \A r \in Requests : pc[r] = "pending" => call[r].upload # None
  /\ \A r \in Requests : answer[r] = "202" => pc[r] = "done"

\* Whoever was answered has its record, and nobody is about to delete it.
Kept ==
  \A r \in Requests : answer[r] = "202" /\ r \notin aged \cup crossed =>
    /\ records[SlotOf(r)] = Remembered(call[r])
    /\ call[r].job \in jobs \cup {None}
    /\ ~BeingReplaced(r, SlotOf(r))

IInv == TypeOK /\ Sending /\ Recorded /\ Kept /\ RowIsSent

USE SwitchAssumption

LEMMA InitHolds == Init => IInv
  BY DEF Init, IInv, TypeOK, Sending, Recorded, Kept, RowIsSent, SubPCs,
         Answers

\* A request that has begun asks a call of a slot that exists.
LEMMA SlotTyped ==
  ASSUME TypeOK, NEW r \in Requests, pc[r] # "new"
  PROVE  call[r] \in Calls /\ SlotOf(r) \in Slots
  BY DEF TypeOK, SlotOf, Slots

LEMMA RememberedTyped ==
  ASSUME NEW c \in Calls
  PROVE  Remembered(c) \in Records /\ Remembered(c) # None
<1>1. Remembered(c) \in Records
  BY DEF Remembered, Records, Bodies, JobKeys
<1> QED BY <1>1, NoneAssumption

LEMMA UnsentTyped ==
  ASSUME TypeOK, Sending, NEW r \in Requests
  PROVE  Unsent(r) \subseteq JobKeys
  BY DEF Unsent, TypeOK, Sending

\* The steps that only move a request on, before anything of it is committed.
Moves(r) ==
  /\ pc[r] \in {"expired", "waiting", "missed", "checked"}
  /\ \E next \in {"waiting", "missed", "pending", "checked", "sent"} :
       pc' = [pc EXCEPT ![r] = next]
  /\ \A q \in Requests \ {r} : deletes'[q] = deletes[q]
  /\ deletes' \in [Requests -> BOOLEAN]
  /\ UNCHANGED <<records, ready, jobs, sends, call, answer, hist>>

LEMMA MovesTyped ==
  ASSUME TypeOK, NEW r \in Requests,
         FlushDelete(r) \/ WakeDelete(r) \/ CheckUpload(r) \/ SkipJob(r)
  PROVE  Moves(r)
<1>1. CASE FlushDelete(r)
  BY <1>1 DEF FlushDelete, Moves, TypeOK
<1>2. CASE WakeDelete(r)
  <2>1. SlotOf(r) \in Slots
    BY <1>2, SlotTyped DEF WakeDelete
  <2>2. (records[SlotOf(r)] # None /\ records[SlotOf(r)].old) \in BOOLEAN
    BY <2>1 DEF Records, TypeOK
  <2> QED BY <1>2, <2>2 DEF WakeDelete, Moves, TypeOK
<1>3. CASE CheckUpload(r)
  BY <1>3 DEF CheckUpload, Moves, TypeOK
<1>4. CASE SkipJob(r)
  BY <1>4 DEF SkipJob, Moves, TypeOK
<1> QED BY <1>1, <1>2, <1>3, <1>4

LEMMA AnsweredTyped ==
  ASSUME TypeOK, NEW r \in Requests, NEW s, Answered(r, s)
  PROVE  /\ pc' = [pc EXCEPT ![r] = "done"] /\ answer' = [answer EXCEPT ![r] = "202"]
         /\ crossed \subseteq crossed' /\ crossed' \in SUBSET Requests
         /\ r \in crossed' \/ ~BeingReplaced(r, s)
         /\ \A q \in Requests \ {r} : q \in crossed' <=> q \in crossed
BY DEF Answered, Finish, TypeOK

LEMMA FlushedTyped ==
  ASSUME TypeOK, NEW r \in Requests, pc[r] # "new"
  PROVE  /\ Flushed(r) \in [Slots -> Records \cup {None}]
         /\ \A s \in Slots : \/ Flushed(r)[s] = records[s]
                             \/ Flushed(r)[s] = None /\ s = SlotOf(r) /\ deletes[r]
BY SlotTyped DEF Flushed, TypeOK

LEMMA StepTyped == TypeOK /\ Sending /\ Recorded /\ [Next]_subVars => TypeOK'
<1> SUFFICES ASSUME TypeOK, Sending, Recorded, [Next]_subVars PROVE TypeOK'
  OBVIOUS
<1> USE DEF TypeOK, SubPCs, Answers
<1>1. CASE UNCHANGED subVars
  BY <1>1 DEF subVars, hist
<1>2. ASSUME NEW r \in Requests, NEW c \in Calls, Lookup(r, c) PROVE TypeOK'
  <2>1. CASE Answered(r, Slot(c))
    BY <1>2, <2>1, AnsweredTyped DEF Lookup
  <2>2. CASE ~Answered(r, Slot(c))
    BY <1>2, <2>2 DEF Lookup, Finish
  <2> QED BY <2>1, <2>2
<1>3. ASSUME NEW r \in Requests, Moves(r) PROVE TypeOK'
  <2>1. PICK next \in {"waiting", "missed", "pending", "checked", "sent"} :
          pc' = [pc EXCEPT ![r] = next]
    BY <1>3 DEF Moves
  <2>2. pc' \in [Requests -> SubPCs]
    BY <2>1
  <2>3. \A q \in Requests : pc'[q] # "new" => pc[q] # "new"
    BY <1>3, <2>1 DEF Moves
  <2> QED BY <1>3, <2>2, <2>3 DEF Moves, hist
<1>4. ASSUME NEW r \in Requests, CommitJob(r) PROVE TypeOK'
  <2>1. call[r] \in Calls /\ call[r].job \in JobKeys
    BY <1>4, SlotTyped DEF CommitJob, JobKeys
  <2>2. Flushed(r) \in [Slots -> Records \cup {None}]
    BY <1>4, FlushedTyped DEF CommitJob
  <2> QED BY <1>4, <2>1, <2>2 DEF CommitJob, hist
<1>5. ASSUME NEW r \in Requests, CommitReady(r) PROVE TypeOK'
  <2>1. call[r] \in Calls
    BY <1>5, SlotTyped DEF CommitReady
  <2>2. call[r].upload \in Uploads
    BY <1>5, <2>1 DEF CommitReady, Recorded, Uploads
  <2>3. Flushed(r) \in [Slots -> Records \cup {None}]
    BY <1>5, FlushedTyped DEF CommitReady
  <2> QED BY <1>5, <2>2, <2>3 DEF CommitReady, hist
<1>6. ASSUME NEW r \in Requests, Enqueue(r) PROVE TypeOK'
  BY <1>6 DEF Enqueue, Sending, hist
<1>7. ASSUME NEW r \in Requests, EnqueueError(r) PROVE TypeOK'
  BY <1>7, UnsentTyped DEF EnqueueError, Finish
<1>8. ASSUME NEW r \in Requests, Remember(r) PROVE TypeOK'
  <2>1. SlotOf(r) \in Slots /\ call[r] \in Calls
    BY <1>8, SlotTyped DEF Remember
  <2>2. Remembered(call[r]) \in Records
    BY <2>1, RememberedTyped
  <2>3. CASE Answered(r, SlotOf(r))
    BY <1>8, <2>1, <2>2, <2>3, AnsweredTyped DEF Remember
  <2>4. CASE ~Answered(r, SlotOf(r))
    BY <1>8, <2>4 DEF Remember, Finish
  <2> QED BY <2>3, <2>4
<1>9. ASSUME NEW r \in Requests, ApiCrash(r) PROVE TypeOK'
  BY <1>9, UnsentTyped DEF ApiCrash, Finish, InFlight
<1>10. ASSUME NEW r \in Requests, AskAgain(r) PROVE TypeOK'
  BY <1>10 DEF AskAgain
<1>11. ASSUME NEW s \in Slots, Age(s) PROVE TypeOK'
  BY <1>11 DEF Age, Records
<1>12. ASSUME NEW r \in Requests, Refuse(r) PROVE TypeOK'
  BY <1>12 DEF Refuse, Finish, hist
<1> QED
  BY <1>1, <1>2, <1>3, <1>4, <1>5, <1>6, <1>7, <1>8, <1>9, <1>10, <1>11, <1>12,
     MovesTyped DEF Next, SubmitJob

LEMMA StepSends == TypeOK /\ Sending /\ [Next]_subVars => Sending'
<1> SUFFICES ASSUME TypeOK, Sending, [Next]_subVars PROVE Sending'
  OBVIOUS
<1> USE DEF TypeOK, SubPCs, Answers, Sending
<1>1. CASE UNCHANGED subVars
  BY <1>1 DEF subVars
<1>2. ASSUME NEW r \in Requests, NEW c \in Calls, Lookup(r, c) PROVE Sending'
  BY <1>2 DEF Lookup, Answered, Finish
<1>3. ASSUME NEW r \in Requests, Moves(r) PROVE Sending'
  BY <1>3 DEF Moves
<1>4. ASSUME NEW r \in Requests, CommitJob(r) PROVE Sending'
  <2>1. call[r] \in Calls /\ call[r].job \in JobKeys
    BY <1>4, SlotTyped DEF CommitJob, JobKeys
  <2>2. CASE call[r].job \in jobs
    BY <1>4, <2>2 DEF CommitJob
  <2>3. CASE call[r].job \notin jobs
    <3>1. sends[call[r].job] = 0
      BY <2>1, <2>3
    <3> QED BY <1>4, <2>1, <2>3, <3>1 DEF CommitJob
  <2> QED BY <2>2, <2>3
<1>5. ASSUME NEW r \in Requests, CommitReady(r) PROVE Sending'
  BY <1>5 DEF CommitReady
<1>6. ASSUME NEW r \in Requests, Enqueue(r) PROVE Sending'
  <2>1. call[r].job \in jobs /\ call[r].job \in JobKeys /\ sends[call[r].job] = 0
    BY <1>6 DEF Enqueue
  <2>2. \A q \in Requests \ {r} : pc[q] = "committed" => call[q].job # call[r].job
    BY <1>6 DEF Enqueue
  <2> QED BY <1>6, <2>1, <2>2 DEF Enqueue
<1>7. ASSUME NEW r \in Requests, EnqueueError(r) PROVE Sending'
  BY <1>7 DEF EnqueueError, Finish
<1>8. ASSUME NEW r \in Requests, Remember(r) PROVE Sending'
  BY <1>8 DEF Remember, Answered, Finish
<1>9. ASSUME NEW r \in Requests, ApiCrash(r) PROVE Sending'
  BY <1>9 DEF ApiCrash, Finish
<1>10. ASSUME NEW r \in Requests, AskAgain(r) PROVE Sending'
  BY <1>10 DEF AskAgain
<1>11. ASSUME NEW s \in Slots, Age(s) PROVE Sending'
  BY <1>11 DEF Age
<1>12. ASSUME NEW r \in Requests, Refuse(r) PROVE Sending'
  BY <1>12 DEF Refuse, Finish
<1> QED
  BY <1>1, <1>2, <1>3, <1>4, <1>5, <1>6, <1>7, <1>8, <1>9, <1>10, <1>11, <1>12,
     MovesTyped DEF Next, SubmitJob

\* What is on record follows the rows, the calls and the retention.
LEMMA StepRecords ==
  TypeOK /\ Sending /\ Recorded /\ [Next]_subVars => Recorded'
<1> SUFFICES ASSUME TypeOK, Sending, Recorded, [Next]_subVars PROVE Recorded'
  OBVIOUS
<1> USE DEF TypeOK, SubPCs, Answers, Recorded, SlotOf
<1>1. CASE UNCHANGED subVars
  BY <1>1 DEF subVars
<1>2. ASSUME NEW r \in Requests, NEW c \in Calls, Lookup(r, c) PROVE Recorded'
  <2>1. pc[r] = "new" /\ ~deletes[r]
    BY <1>2 DEF Lookup
  <2> QED BY <1>2, <2>1 DEF Lookup, Answered, Finish
<1>3. ASSUME NEW r \in Requests, FlushDelete(r) \/ WakeDelete(r) PROVE Recorded'
  BY <1>3 DEF FlushDelete, WakeDelete
<1>4. ASSUME NEW r \in Requests, CommitJob(r) \/ CommitReady(r) PROVE Recorded'
  <2>1. CASE records' = records
    BY <1>4, <2>1 DEF CommitJob, CommitReady
  <2>2. CASE records' = Flushed(r)
    <3>1. \A s \in Slots : records'[s] # None => records'[s] = records[s]
      BY <1>4, <2>2, FlushedTyped DEF CommitJob, CommitReady
    <3>2. jobs \subseteq jobs' /\ call' = call /\ answer' = answer
      BY <1>4 DEF CommitJob, CommitReady
    <3> QED BY <1>4, <3>1, <3>2 DEF CommitJob, CommitReady
  <2> QED BY <1>4, <2>1, <2>2 DEF CommitJob, CommitReady
<1>5. ASSUME NEW r \in Requests, CheckUpload(r) \/ SkipJob(r) PROVE Recorded'
  BY <1>5 DEF CheckUpload, SkipJob
<1>6. ASSUME NEW r \in Requests, Enqueue(r) PROVE Recorded'
  <2>1. call[r].job \in jobs
    BY <1>6 DEF Enqueue, Sending
  <2> QED BY <1>6, <2>1 DEF Enqueue
<1>7. ASSUME NEW r \in Requests, EnqueueError(r) PROVE Recorded'
  BY <1>7 DEF EnqueueError, Finish
<1>8. ASSUME NEW r \in Requests, Remember(r) PROVE Recorded'
  <2>1. SlotOf(r) \in Slots /\ call[r] \in Calls /\ call[r].job \in jobs \cup {None}
    BY <1>8, SlotTyped DEF Remember
  <2>2. \A s \in Slots : \/ records'[s] = records[s]
                         \/ s = SlotOf(r) /\ records'[s] = Remembered(call[r])
    BY <1>8 DEF Remember
  <2>3. jobs' = jobs /\ call' = call /\ ready' = ready
    BY <1>8 DEF Remember
  <2>4. \A s \in Slots : records'[s] # None =>
          /\ \E c \in Calls : /\ Slot(c) = s /\ c.body = records'[s].fp
                              /\ c.job = records'[s].job
          /\ records'[s].job \in jobs' \cup {None}
    BY <2>1, <2>2, <2>3 DEF Remembered
  <2> QED BY <1>8, <2>3, <2>4 DEF Remember, Answered, Finish
<1>9. ASSUME NEW r \in Requests, ApiCrash(r) PROVE Recorded'
  BY <1>9 DEF ApiCrash, Finish
<1>10. ASSUME NEW r \in Requests, AskAgain(r) PROVE Recorded'
  <2>1. ~deletes[r]
    BY <1>10 DEF AskAgain
  <2> QED BY <1>10, <2>1 DEF AskAgain
<1>11. ASSUME NEW s \in Slots, Age(s) PROVE Recorded'
  <2>1. records[s] \in Records
    BY <1>11 DEF Age
  <2>2. /\ records'[s].fp = records[s].fp /\ records'[s].job = records[s].job
        /\ \A t \in Slots \ {s} : records'[t] = records[t]
    BY <1>11, <2>1 DEF Age, Records
  <2>3. /\ jobs' = jobs /\ call' = call /\ pc' = pc /\ deletes' = deletes
        /\ answer' = answer /\ records[s] # None
    BY <1>11 DEF Age
  <2>4. \A t \in Slots : records'[t] # None =>
          /\ \E c \in Calls : /\ Slot(c) = t /\ c.body = records'[t].fp
                              /\ c.job = records'[t].job
          /\ records'[t].job \in jobs' \cup {None}
    BY <2>2, <2>3
  <2> QED BY <2>3, <2>4
<1>12. ASSUME NEW r \in Requests, Refuse(r) PROVE Recorded'
  BY <1>12 DEF Refuse, Finish
<1> QED
  BY <1>1, <1>2, <1>3, <1>4, <1>5, <1>6, <1>7, <1>8, <1>9, <1>10, <1>11, <1>12
     DEF Next, SubmitJob

\* An answer that was given stays: its record, and nobody about to delete it.
KeptOf(r) ==
  /\ records[SlotOf(r)] = Remembered(call[r])
  /\ call[r].job \in jobs \cup {None}
  /\ ~BeingReplaced(r, SlotOf(r))

Promised(r) == answer[r] = "202" /\ r \notin aged \cup crossed

LEMMA PromisedTyped ==
  ASSUME TypeOK, Recorded, NEW r \in Requests, Promised(r)
  PROVE  pc[r] = "done" /\ call[r] \in Calls /\ SlotOf(r) \in Slots
BY SlotTyped DEF Promised, Recorded

\* A step of another request that leaves the record and its rivals as they are.
LEMMA KeptByOther ==
  ASSUME TypeOK, NEW q \in Requests, KeptOf(q), SlotOf(q) \in Slots,
         NEW r \in Requests \ {q},
         records'[SlotOf(q)] = records[SlotOf(q)], jobs \subseteq jobs',
         \A p \in Requests \ {r} : pc'[p] = pc[p] /\ deletes'[p] = deletes[p]
                                   /\ call'[p] = call[p],
         SlotOf(r)' = SlotOf(q) => pc'[r] # "expired" /\ ~deletes'[r]
  PROVE  KeptOf(q)'
<1>1. SlotOf(q)' = SlotOf(q) /\ call'[q] = call[q]
  BY DEF SlotOf
<1>2. ~BeingReplaced(q, SlotOf(q))'
  BY <1>1 DEF KeptOf, BeingReplaced, SlotOf
<1> QED BY <1>1, <1>2 DEF KeptOf

LEMMA StepKeeps ==
  TypeOK /\ Sending /\ Recorded /\ Kept /\ [Next]_subVars => Kept'
<1> SUFFICES ASSUME TypeOK, Sending, Recorded, Kept, [Next]_subVars,
                    NEW q \in Requests, Promised(q)'
             PROVE  KeptOf(q)'
  BY DEF Kept, KeptOf, Promised
<1>0. ASSUME Promised(q)
      PROVE  /\ KeptOf(q) /\ pc[q] = "done" /\ call[q] \in Calls /\ SlotOf(q) \in Slots
             /\ records[SlotOf(q)] # None /\ ~records[SlotOf(q)].old /\ ~deletes[q]
  <2>1. KeptOf(q) /\ pc[q] = "done" /\ call[q] \in Calls /\ SlotOf(q) \in Slots
    BY <1>0, PromisedTyped DEF Kept, KeptOf, Promised
  <2> QED BY <2>1, RememberedTyped DEF KeptOf, Remembered, Recorded
<1>1. CASE UNCHANGED subVars
  <2>1. Promised(q)
    BY <1>1 DEF subVars, hist, Promised
  <2> QED BY <1>0, <1>1, <2>1 DEF subVars, KeptOf, BeingReplaced, SlotOf
<1>2. ASSUME NEW r \in Requests, NEW c \in Calls, Lookup(r, c) PROVE KeptOf(q)'
  <2>1. /\ UNCHANGED <<records, jobs, deletes, aged>> /\ call' = [call EXCEPT ![r] = c]
        /\ \A p \in Requests \ {r} : pc'[p] = pc[p] /\ call'[p] = call[p]
        /\ Slot(c) \in Slots /\ SlotOf(r)' = Slot(c) /\ pc[r] = "new" /\ ~deletes[r]
    BY <1>2 DEF Lookup, Answered, Finish, TypeOK, Recorded, Slots, SlotOf
  <2>2. CASE q # r
    <3>1. Promised(q)
      BY <1>2, <2>2 DEF Promised, Lookup, Answered, Finish, TypeOK
    <3>2. Slot(c) = SlotOf(q) => pc'[r] # "expired"
      BY <1>0, <1>2, <3>1 DEF Lookup, Answered, Finish, TypeOK
    <3> QED BY <1>0, <2>1, <2>2, <3>1, <3>2, KeptByOther
  <2>3. CASE q = r
    <3>1. /\ records[Slot(c)] # None /\ ~records[Slot(c)].old
          /\ Fingerprinted(records[Slot(c)], c) /\ Answered(r, Slot(c))
      BY <1>2, <2>3 DEF Promised, Lookup, Finish, Recorded, TypeOK
    <3>2. PICK d \in Calls : /\ Slot(d) = Slot(c) /\ d.body = records[Slot(c)].fp
                             /\ d.job = records[Slot(c)].job
      BY <2>1, <3>1 DEF Recorded
    <3>3. c.body = records[Slot(c)].fp /\ c.job = records[Slot(c)].job
      BY <3>1, <3>2, CallsAssumption DEF Fingerprinted
    <3>4. records[Slot(c)] \in Records /\ records[Slot(c)].old = FALSE
      BY <2>1, <3>1 DEF TypeOK, Records
    <3>5. records[Slot(c)] = Remembered(c) /\ c.job \in jobs \cup {None}
      BY <2>1, <3>1, <3>3, <3>4 DEF Remembered, Records, Recorded
    <3>6. ~BeingReplaced(r, Slot(c))
      BY <2>3, <3>1, AnsweredTyped DEF Promised
    <3>7. ~BeingReplaced(r, Slot(c))'
      BY <2>1, <3>6 DEF BeingReplaced, SlotOf
    <3> QED BY <2>1, <2>3, <3>5, <3>7 DEF KeptOf, TypeOK
  <2> QED BY <2>2, <2>3
<1>3. ASSUME NEW r \in Requests, Moves(r), pc'[r] # "expired", r # q =>
               (Promised(q) /\ SlotOf(r) = SlotOf(q) => ~deletes'[r])
      PROVE  KeptOf(q)'
  <2>1. Promised(q)
    BY <1>3 DEF Moves, Promised, hist
  <2>2. r # q
    BY <1>0, <1>3, <2>1 DEF Moves
  <2>3. /\ UNCHANGED <<records, jobs, call>> /\ SlotOf(r)' = SlotOf(r)
        /\ \A p \in Requests \ {r} : pc'[p] = pc[p] /\ deletes'[p] = deletes[p]
    BY <1>3 DEF Moves, SlotOf
  <2> QED BY <1>0, <1>3, <2>1, <2>2, <2>3, KeptByOther
<1>4. ASSUME NEW r \in Requests, Promised(q), r # q, SlotOf(r) = SlotOf(q)
      PROVE  pc[r] # "expired" /\ ~deletes[r]
  BY <1>0, <1>4 DEF KeptOf, BeingReplaced
<1>5. ASSUME NEW r \in Requests, FlushDelete(r) \/ WakeDelete(r) PROVE KeptOf(q)'
  <2>1. Moves(r) /\ pc'[r] # "expired"
    BY <1>5, MovesTyped DEF FlushDelete, WakeDelete, TypeOK
  <2>2. r # q => (Promised(q) /\ SlotOf(r) = SlotOf(q) => ~deletes'[r])
    BY <1>0, <1>4, <1>5 DEF FlushDelete, WakeDelete, TypeOK
  <2> QED BY <1>3, <2>1, <2>2
<1>6. ASSUME NEW r \in Requests, CheckUpload(r) \/ SkipJob(r) PROVE KeptOf(q)'
  <2>1. Moves(r) /\ pc'[r] # "expired" /\ deletes' = deletes
    BY <1>6, MovesTyped DEF CheckUpload, SkipJob, TypeOK
  <2> QED BY <1>3, <1>4, <2>1
<1>7. ASSUME NEW r \in Requests, CommitJob(r) \/ CommitReady(r) PROVE KeptOf(q)'
  <2>1. /\ Promised(q) /\ jobs \subseteq jobs' /\ call' = call
        /\ \A p \in Requests \ {r} : pc'[p] = pc[p] /\ deletes'[p] = deletes[p]
        /\ pc'[r] # "expired" /\ ~deletes'[r] /\ pc[r] \in {"checked", "pending"}
        /\ records' = records \/ records' = Flushed(r)
    BY <1>7 DEF CommitJob, CommitReady, Promised, hist, TypeOK
  <2>2. r # q /\ (SlotOf(r) = SlotOf(q) => ~deletes[r])
    BY <1>0, <1>4, <2>1
  <2>3. records'[SlotOf(q)] = records[SlotOf(q)]
    BY <1>0, <2>1, <2>2, FlushedTyped
  <2> QED BY <1>0, <2>1, <2>2, <2>3, KeptByOther
<1>8. ASSUME NEW r \in Requests,
             Enqueue(r) \/ EnqueueError(r) \/ ApiCrash(r) \/ Refuse(r)
      PROVE  KeptOf(q)'
  <2>1. /\ UNCHANGED <<records, jobs, call, aged, crossed>>
        /\ \A p \in Requests \ {r} : pc'[p] = pc[p] /\ deletes'[p] = deletes[p]
                                     /\ answer'[p] = answer[p]
        /\ pc[r] # "done" /\ pc'[r] \in {"sent", "done"}
        /\ deletes'[r] \in {FALSE, deletes[r]}
    BY <1>8 DEF Enqueue, EnqueueError, ApiCrash, Refuse, Finish, InFlight, hist, TypeOK
  <2>2. answer'[r] = answer[r] \/ answer'[r] # "202"
    BY <1>8 DEF Enqueue, EnqueueError, ApiCrash, Refuse, Finish, TypeOK
  <2>3. Promised(q)
    BY <2>1, <2>2 DEF Promised
  <2>4. r # q
    BY <1>0, <2>1, <2>3
  <2>5. SlotOf(r)' = SlotOf(q) => pc'[r] # "expired" /\ ~deletes'[r]
    BY <1>4, <2>1, <2>3, <2>4 DEF SlotOf
  <2> QED BY <1>0, <2>1, <2>3, <2>4, <2>5, KeptByOther
<1>9. ASSUME NEW r \in Requests, Remember(r) PROVE KeptOf(q)'
  <2>1. /\ SlotOf(r) \in Slots /\ call[r] \in Calls /\ pc[r] = "sent"
        /\ call[r].job \in jobs \cup {None}
    BY <1>9, SlotTyped DEF Remember, Recorded
  <2>2. /\ UNCHANGED <<jobs, call, aged>> /\ SlotOf(r)' = SlotOf(r)
        /\ \A p \in Requests \ {r} : pc'[p] = pc[p] /\ deletes'[p] = deletes[p]
                                     /\ answer'[p] = answer[p]
        /\ pc'[r] = "done" /\ ~deletes'[r]
    BY <1>9 DEF Remember, Answered, Finish, TypeOK, SlotOf
  <2>3. CASE q # r
    <3>1. Promised(q)
      BY <1>9, <2>2, <2>3, AnsweredTyped DEF Remember, Promised
    <3>2. SlotOf(r) = SlotOf(q) => ~deletes[r]
      BY <1>4, <2>3, <3>1
    <3>3. records'[SlotOf(q)] = records[SlotOf(q)]
      BY <1>0, <1>9, <2>1, <3>1, <3>2 DEF Remember, TypeOK
    <3> QED BY <1>0, <2>2, <2>3, <3>1, <3>3, KeptByOther
  <2>4. CASE q = r
    <3>1. records'[SlotOf(r)] = Remembered(call[r]) /\ Answered(r, SlotOf(r))
      BY <1>9, <2>1, <2>4 DEF Remember, Promised, Finish, TypeOK
    <3>2. ~BeingReplaced(r, SlotOf(r))
      BY <2>4, <3>1, AnsweredTyped DEF Promised
    <3>3. ~BeingReplaced(r, SlotOf(r))'
      BY <2>2, <3>2 DEF BeingReplaced, SlotOf
    <3> QED BY <2>1, <2>2, <2>4, <3>1, <3>3 DEF KeptOf, SlotOf
  <2> QED BY <2>3, <2>4
<1>10. ASSUME NEW r \in Requests, AskAgain(r) PROVE KeptOf(q)'
  <2>1. q # r
    BY <1>10 DEF AskAgain, Promised, TypeOK
  <2>2. Promised(q)
    BY <1>10, <2>1 DEF AskAgain, Promised, TypeOK
  <2>3. /\ UNCHANGED <<records, jobs, deletes>> /\ pc'[r] = "new" /\ ~deletes[r]
        /\ \A p \in Requests \ {r} : pc'[p] = pc[p] /\ call'[p] = call[p]
    BY <1>10 DEF AskAgain, TypeOK, Recorded
  <2> QED BY <1>0, <2>1, <2>2, <2>3, KeptByOther
<1>11. ASSUME NEW s \in Slots, Age(s) PROVE KeptOf(q)'
  <2>1. Promised(q)
    BY <1>11 DEF Age, Promised
  <2>2. SlotOf(q) # s
    BY <1>0, <1>11, <2>1 DEF Age, Promised
  <2> QED BY <1>0, <1>11, <2>1, <2>2 DEF Age, KeptOf, BeingReplaced, SlotOf, TypeOK
<1> QED
  BY <1>1, <1>2, <1>5, <1>6, <1>7, <1>8, <1>9, <1>10, <1>11 DEF Next, SubmitJob

\* A row without a message keeps its request, or the request fails.
LEMMA StepSent ==
  TypeOK /\ Sending /\ RowIsSent /\ [Next]_subVars => RowIsSent'
<1> SUFFICES ASSUME TypeOK, Sending, RowIsSent, [Next]_subVars PROVE RowIsSent'
  OBVIOUS
<1> USE DEF TypeOK, RowIsSent
<1>1. CASE UNCHANGED subVars
  BY <1>1 DEF subVars, hist
<1>2. ASSUME NEW r \in Requests, NEW c \in Calls, Lookup(r, c) PROVE RowIsSent'
  BY <1>2 DEF Lookup, Answered, Finish
<1>3. ASSUME NEW r \in Requests, Moves(r) PROVE RowIsSent'
  BY <1>3 DEF Moves, hist
<1>4. ASSUME NEW r \in Requests, CommitJob(r) PROVE RowIsSent'
  BY <1>4 DEF CommitJob, hist
<1>5. ASSUME NEW r \in Requests, CommitReady(r) PROVE RowIsSent'
  BY <1>5 DEF CommitReady, hist
<1>6. ASSUME NEW r \in Requests, Enqueue(r) PROVE RowIsSent'
  <2>1. call[r].job \in JobKeys /\ sends'[call[r].job] = 1
    BY <1>6 DEF Enqueue, Sending
  <2>2. \A q \in Requests \ {r} : pc'[q] = pc[q]
    BY <1>6 DEF Enqueue
  <2>3. \A j \in JobKeys : j # call[r].job => sends'[j] = sends[j]
    BY <1>6 DEF Enqueue
  <2> QED BY <1>6, <2>1, <2>2, <2>3 DEF Enqueue, hist
<1>7. ASSUME NEW r \in Requests, EnqueueError(r) PROVE RowIsSent'
  BY <1>7 DEF EnqueueError, Finish, Unsent
<1>8. ASSUME NEW r \in Requests, Remember(r) PROVE RowIsSent'
  BY <1>8 DEF Remember, Answered, Finish
<1>9. ASSUME NEW r \in Requests, ApiCrash(r) PROVE RowIsSent'
  BY <1>9 DEF ApiCrash, Finish, Unsent
<1>10. ASSUME NEW r \in Requests, AskAgain(r) PROVE RowIsSent'
  BY <1>10 DEF AskAgain
<1>11. ASSUME NEW s \in Slots, Age(s) PROVE RowIsSent'
  BY <1>11 DEF Age
<1>12. ASSUME NEW r \in Requests, Refuse(r) PROVE RowIsSent'
  BY <1>12 DEF Refuse, Finish, hist
<1> QED
  BY <1>1, <1>2, <1>3, <1>4, <1>5, <1>6, <1>7, <1>8, <1>9, <1>10, <1>11, <1>12,
     MovesTyped DEF Next, SubmitJob

LEMMA Invariance == Spec => []IInv
<1>1. IInv /\ [Next]_subVars => IInv'
  BY StepTyped, StepSends, StepRecords, StepKeeps, StepSent DEF IInv
<1> QED BY InitHolds, <1>1, PTL DEF Spec

-----------------------------------------------------------------------------
\* Every variable keeps its type: a job is enqueued by its submission at most
\* once.
THEOREM TypeCorrect == Spec => []TypeOK
  BY Invariance, PTL DEF IInv

\* Create the row, then enqueue it once: no message without a committed row.
THEOREM JobSentOnce == Spec => []SentOnce
<1>1. IInv => SentOnce
  BY DEF IInv, TypeOK, Sending, SentOnce
<1> QED BY Invariance, <1>1, PTL

\* A retry within the retention of its answer gets that answer, whatever else
\* runs, unless the answer was given while another request of its key was about
\* to delete the expired record.
THEOREM AnswersAreKept == Spec => []AnswerIsKept
<1>1. IInv => AnswerIsKept
  BY DEF IInv, Kept, AnswerIsKept
<1> QED BY Invariance, <1>1, PTL

\* Every committed row gets its message, but for the requests that fail between
\* the two, which is what the reconciler is for.
THEOREM RowsAreSent == Spec => []RowIsSent
  BY Invariance, PTL DEF IInv

=============================================================================
