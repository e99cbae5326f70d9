---------------------------- MODULE WorkerProofs ----------------------------
(* Theorems about Worker for every number of jobs, processes and messages and *)
(* every value of the limits.  First the typing invariant; then what holds in *)
(* every execution, however late heartbeats are; then, for timely executions, *)
(* exclusive execution and the refinement of JobContract.                     *)
EXTENDS Worker, TLAPS

-----------------------------------------------------------------------------
(* Typing.                                                                    *)


\* A process outside its loop's top holds a message and its payload; a message
\* in the queue names a job; an UPDATE is one of the mark the process is in.
Carries ==
  /\ \A m \in Msgs : msgState[m] = "live" => msgJob[m] \in Jobs
  /\ \A w \in Workers :
       IF pc[w] \in {"idle", "sweeping"}
         THEN held[w] = NoMsg ELSE held[w] \in Msgs /\ job[w] \in Jobs
  /\ \A w \in Workers : write[w] # NoWrite =>
       \/ pc[w] = "finishing" /\ write[w].to = "succeeded"
       \/ pc[w] = "failing" /\ write[w].to \in {"failed", "dead"}
       \/ pc[w] \in {"burying", "rejecting"} /\ write[w].to = "dead"

LEMMA TypeInit == Init => TypeOK /\ Carries
  BY RowsAssumption, QueueAssumption, WorkerAssumption
  DEF Init, RowsInit, QueueInit, TypeOK, RowsTypeOK, QueueTypeOK, Statuses, NullLease,
      PCs, Carries

\* Where a mark leaves its process; the others stay where they are.
LEMMA AfterMarkShape ==
  ASSUME TypeOK, NEW w \in Workers, AfterMark(w)
  PROVE  /\ pc[w] \in MarkPCs
         /\ pc' = [pc EXCEPT ![w] = IF pc[w] = "finishing" THEN "acking"
                                    ELSE IF pc[w] = "failing" THEN "idle" ELSE "dropping"]
         /\ held' = IF pc[w] = "failing" THEN [held EXCEPT ![w] = NoMsg] ELSE held
         /\ job' = IF pc[w] = "failing" THEN [job EXCEPT ![w] = NoJob] ELSE job
         /\ rcount' = IF pc[w] = "failing" THEN [rcount EXCEPT ![w] = 0] ELSE rcount
         /\ since' = IF pc[w] = "failing" THEN [since EXCEPT ![w] = 0] ELSE since
         /\ write' = [write EXCEPT ![w] = NoWrite]
         /\ UNCHANGED <<draining, sweep, fresh>>
  BY DEF AfterMark, Goto, Loop, LetGo, MarkPCs

\* A row that is marked keeps its place in the table.
LEMMA CommitMarkTyped ==
  ASSUME TypeOK, NEW j, NEW u \in Writes, CommitMark(j, u)
  PROVE  RowsTypeOK'
<1>1. u.to \in Statuses
  BY DEF Writes, Statuses
<1>2. NullLease \in NullLease..Lease
  BY RowsAssumption DEF NullLease
<1>3. status' \in [Jobs -> Statuses]
  BY <1>1 DEF TypeOK, RowsTypeOK, CommitMark
<1>4. owner' \in [Jobs -> Workers \cup {Ghost, Nobody}]
  BY DEF TypeOK, RowsTypeOK, CommitMark
<1>5. lease' \in [Jobs -> NullLease..Lease]
  BY <1>2 DEF TypeOK, RowsTypeOK, CommitMark
<1> QED
  BY <1>3, <1>4, <1>5 DEF TypeOK, RowsTypeOK, CommitMark

\* What a process does to the queue with the handle it has keeps its type.
LEMMA HandleTyped ==
  ASSUME QueueTypeOK(Jobs), NEW m, NEW c, NEW seconds \in {0, Visibility},
         \/ DeleteMessage(m) \/ AckMessage(m, c) \/ ExtendVisibility(m, c, seconds)
         \/ UNCHANGED queueVars
  PROVE  QueueTypeOK(Jobs)'
<1>1. CASE DeleteMessage(m)
  <2>1. /\ msgState' = [msgState EXCEPT ![m] = "free"]
        /\ msgJob' = [msgJob EXCEPT ![m] = NoJob]
        /\ msgCount' = [msgCount EXCEPT ![m] = 0]
        /\ vis' = [vis EXCEPT ![m] = 0]
    BY <1>1 DEF DeleteMessage, Release
  <2>2. 0 \in 0..MaxReceive /\ 0 \in 0..Visibility
    BY QueueAssumption
  <2> QED
    BY <2>1, <2>2 DEF QueueTypeOK
<1>2. CASE ExtendVisibility(m, c, seconds)
  <2>1. seconds \in 0..Visibility /\ vis' = [vis EXCEPT ![m] = seconds]
    BY <1>2, QueueAssumption DEF ExtendVisibility
  <2> QED
    BY <1>2, <2>1 DEF QueueTypeOK, ExtendVisibility
<1>3. CASE UNCHANGED queueVars
  BY <1>3 DEF QueueTypeOK, queueVars
<1> QED
  BY <1>1, <1>2, <1>3 DEF AckMessage

LEMMA TypeNext == TypeOK /\ Carries /\ [Next]_vars => TypeOK'
<1> SUFFICES ASSUME TypeOK, Carries, [Next]_vars PROVE TypeOK'
  OBVIOUS
<1> USE RowsAssumption, QueueAssumption, WorkerAssumption
        DEF TypeOK, RowsTypeOK, QueueTypeOK, Statuses, NullLease, PCs,
            rowVars, queueVars, procVars
<1>1. ASSUME NEW j \in Jobs, SubmitCommit(j) PROVE TypeOK'
  BY <1>1 DEF SubmitCommit, InsertRow
<1>2. ASSUME NEW j \in Jobs, SubmitEnqueue(j) PROVE TypeOK'
  BY <1>2 DEF SubmitEnqueue, Send, Enqueue
<1>3. ASSUME NEW j \in Jobs, SubmitLost(j) PROVE TypeOK'
  BY <1>3 DEF SubmitLost
<1>4. ASSUME NEW j \in Jobs, DeleteJob(j) PROVE TypeOK'
  BY <1>4 DEF DeleteJob, DeleteRow
<1>5. ASSUME NEW w \in Workers, ReconcileRead(w) PROVE TypeOK'
  BY <1>5 DEF ReconcileRead, StaleQueuedJobs
<1>6. ASSUME NEW w \in Workers, ReconcileSend(w) PROVE TypeOK'
  BY <1>6 DEF ReconcileSend, Send, Enqueue
<1>7. ASSUME NEW w \in Workers, ReconcileError(w) PROVE TypeOK'
  BY <1>7 DEF ReconcileError
<1>8. ASSUME NEW w \in Workers, NEW m \in Msgs, Receive(w, m) PROVE TypeOK'
  BY <1>8 DEF Receive, Deliver, Visible
<1>a. ASSUME NEW w \in Workers, LetGo(w), UNCHANGED <<sending, done>>,
             RowsTypeOK', QueueTypeOK(Jobs)',
             UNCHANGED <<draining, sweep, fresh>> \/ Replace(w)
      PROVE TypeOK'
  <2>1. fresh' \in [Workers -> [Jobs -> NullLease..Lease]]
    <3>1. [j \in Jobs |-> NullLease] \in [Jobs -> NullLease..Lease]
      OBVIOUS
    <3>2. fresh' = fresh \/ fresh' = [fresh EXCEPT ![w] = [j \in Jobs |-> NullLease]]
      BY <1>a DEF Replace
    <3> QED
      BY <3>1, <3>2
  <2>2. draining' \in [Workers -> BOOLEAN] /\ sweep' \in [Workers -> SUBSET Jobs]
    <3>1. CASE Replace(w)
      BY <3>1 DEF Replace
    <3>2. CASE UNCHANGED <<draining, sweep, fresh>>
      BY <3>2
    <3> QED
      BY <1>a, <3>1, <3>2
  <2>3. /\ pc' \in [Workers -> PCs]
        /\ held' \in [Workers -> Msgs \cup {NoMsg}]
        /\ job' \in [Workers -> Jobs \cup {NoJob}]
    BY <1>a DEF LetGo
  <2>4. /\ rcount' \in [Workers -> 0..MaxReceive]
        /\ write' \in [Workers -> Writes \cup {NoWrite}]
        /\ since' \in [Workers -> 0..Grace]
    BY <1>a DEF LetGo
  <2> QED
    BY <1>a, <2>1, <2>2, <2>3, <2>4
<1>9. ASSUME NEW w \in Workers, ReturnOnDrain(w) PROVE TypeOK'
  <2>1. QueueTypeOK(Jobs)'
    BY <1>9, HandleTyped DEF ReturnOnDrain
  <2> QED
    BY <1>9, <2>1, <1>a DEF ReturnOnDrain, Replace
<1>10. ASSUME NEW w \in Workers, ProcessUnknown(w) PROVE TypeOK'
  BY <1>10 DEF ProcessUnknown, Goto
<1>11. ASSUME NEW w \in Workers, ClaimJob(w) PROVE TypeOK'
  <2>1. job[w] \in Jobs
    BY <1>11 DEF ClaimJob, Carries
  <2> QED
    BY <1>11, <2>1 DEF ClaimJob, Claimable, Take, Goto
<1>12. ASSUME NEW w \in Workers, ClaimRefused(w) PROVE TypeOK'
  BY <1>12 DEF ClaimRefused, Goto
<1>b. ASSUME NEW w \in Workers, NEW next \in PCs, Goto(w, next),
             UNCHANGED <<queueVars, sending>>, RowsTypeOK', done' \in SUBSET Jobs
      PROVE TypeOK'
  BY <1>b DEF Goto
<1>13. ASSUME NEW w \in Workers, HandlerReturns(w) PROVE TypeOK'
  <2>1. job[w] \in Jobs
    BY <1>13 DEF HandlerReturns, WorkDone, PermanentFailure, TransientFailure, Carries
  <2>2. /\ Goto(w, "finishing") \/ Goto(w, "burying") \/ Goto(w, "failing")
        /\ UNCHANGED <<rowVars, queueVars, sending>> /\ done' \in SUBSET Jobs
    BY <1>13, <2>1 DEF HandlerReturns, WorkDone, PermanentFailure, TransientFailure
  <2>3. {"finishing", "burying", "failing"} \subseteq PCs
    OBVIOUS
  <2>4. RowsTypeOK'
    BY <2>2
  <2> QED
    BY <1>b, <2>2, <2>3, <2>4
<1>14. ASSUME NEW w \in Workers, MarkRead(w) PROVE TypeOK'
  BY <1>14 DEF MarkRead, Differing, Verdict, Writes
<1>15. ASSUME NEW w \in Workers, AfterMark(w), UNCHANGED <<queueVars, sending, done>>,
              RowsTypeOK'
       PROVE TypeOK'
  <2>1. CASE Loop(w)
    BY <1>15, <1>a, <2>1 DEF Loop
  <2>2. CASE Goto(w, "acking") \/ Goto(w, "dropping")
    <3>1. {"acking", "dropping"} \subseteq PCs /\ done' \in SUBSET Jobs
      BY <1>15
    <3> QED
      BY <1>b, <1>15, <2>2, <3>1
  <2> QED
    BY <1>15, <2>1, <2>2 DEF AfterMark
<1>16. ASSUME NEW w \in Workers, Goto(w, "failing"), UNCHANGED <<queueVars, sending, done>>,
              RowsTypeOK'
       PROVE TypeOK'
  <2>1. "failing" \in PCs /\ done' \in SUBSET Jobs
    BY <1>16
  <2> QED
    BY <1>b, <1>16, <2>1
<1>17. ASSUME NEW w \in Workers, Die(w) PROVE TypeOK'
  <2>1. RowsTypeOK'
    BY <1>17 DEF Die
  <2> QED
    BY <1>17, <2>1, <1>a DEF Die, Replace
<1>18. ASSUME NEW w \in Workers, MarkNothing(w) \/ MarkCommit(w) PROVE TypeOK'
  <2>1. CASE MarkNothing(w)
    BY <2>1, <1>15 DEF MarkNothing
  <2>2. CASE MarkCommit(w)
    <3>1. CommitMark(job[w], write[w]) /\ write[w] \in Writes
      BY <2>2 DEF MarkCommit
    <3> QED
      BY <2>2, <3>1, CommitMarkTyped, <1>15 DEF MarkCommit
  <2> QED
    BY <1>18, <2>1, <2>2
<1>19. ASSUME NEW w \in Workers, MarkMissed(w) PROVE TypeOK'
  BY <1>19, <1>15, <1>16, <1>17 DEF MarkMissed
<1>20. ASSUME NEW w \in Workers, MarkSucceededError(w) PROVE TypeOK'
  <2>1. CASE UNCHANGED rowVars
    BY <1>20, <2>1, <1>16 DEF MarkSucceededError
  <2>2. CASE write[w] # NoWrite /\ CommitMark(job[w], write[w])
    <3>1. write[w] \in Writes
      BY <2>2
    <3> QED
      BY <1>20, <2>2, <3>1, CommitMarkTyped, <1>16 DEF MarkSucceededError
  <2> QED
    BY <1>20, <2>1, <2>2 DEF MarkSucceededError
<1>21. ASSUME NEW w \in Workers, Ack(w) PROVE TypeOK'
  <2>1. QueueTypeOK(Jobs)'
    BY <1>21, HandleTyped DEF Ack
  <2> QED
    BY <1>21, <2>1, <1>a DEF Ack, Loop
<1>22. ASSUME NEW w \in Workers, AckError(w) PROVE TypeOK'
  <2>1. QueueTypeOK(Jobs)'
    BY <1>22, HandleTyped DEF AckError
  <2> QED
    BY <1>22, <2>1 DEF AckError, Goto
<1>23. ASSUME NEW w \in Workers, ReadLease(w) PROVE fresh' \in [Workers -> [Jobs -> NullLease..Lease]]
  <2>1. fresh[w] \in [Jobs -> NullLease..Lease] /\ Lease \in NullLease..Lease
    OBVIOUS
  <2>2. [fresh[w] EXCEPT ![job[w]] = Lease] \in [Jobs -> NullLease..Lease]
    BY <2>1
  <2>3. fresh' = fresh \/ fresh' = [fresh EXCEPT ![w] = [fresh[w] EXCEPT ![job[w]] = Lease]]
    BY <1>23 DEF ReadLease
  <2> QED
    BY <2>2, <2>3
<1>24. ASSUME NEW w \in Workers, Heartbeat(w) PROVE TypeOK'
  <2>1. QueueTypeOK(Jobs)' /\ fresh' \in [Workers -> [Jobs -> NullLease..Lease]]
    BY <1>24, <1>23, HandleTyped DEF Heartbeat
  <2>2. since' \in [Workers -> 0..Grace]
    BY <1>24 DEF Heartbeat
  <2> QED
    BY <1>24, <2>1, <2>2 DEF Heartbeat
<1>25. ASSUME NEW w \in Workers, HeartbeatMessageOnly(w) \/ HeartbeatRowOnly(w) PROVE TypeOK'
  BY <1>25, <1>23 DEF HeartbeatMessageOnly, HeartbeatRowOnly, ExtendVisibility
<1>26. ASSUME NEW w \in Workers, NEW j \in Jobs, HeartbeatCommit(w, j) PROVE TypeOK'
  BY <1>26 DEF HeartbeatCommit, CommitLease
<1>27. ASSUME NEW w \in Workers, Sigterm(w) PROVE TypeOK'
  BY <1>27 DEF Sigterm
<1>28. ASSUME NEW w \in Workers, DrainedExit(w) PROVE TypeOK'
  BY <1>28, <1>a DEF DrainedExit, Replace
<1>29. ASSUME NEW w \in Workers, Crash(w) PROVE TypeOK'
  BY <1>29, <1>17 DEF Crash
<1>30. ASSUME NEW m \in Msgs, DeadLetter(m) PROVE TypeOK'
  BY <1>30 DEF DeadLetter, MoveToDlq
<1>31. ASSUME NEW m \in Msgs, DlqExpire(m) PROVE TypeOK'
  BY <1>31 DEF DlqExpire, DlqRetentionOver, Release
<1>32. ASSUME Tick PROVE TypeOK'
  <2>1. ASSUME NEW until \in NullLease..Lease PROVE Later(until) \in NullLease..Lease
    BY <2>1 DEF Later, LeaseOver
  <2>2. RowsTypeOK' /\ fresh' \in [Workers -> [Jobs -> NullLease..Lease]]
    BY <1>32, <2>1 DEF Tick, RowsTick
  <2>3. since' \in [Workers -> 0..Grace]
    BY <1>32 DEF Tick, InTime, Timely
  <2> QED
    BY <1>32, <2>2, <2>3 DEF Tick, RowsTick, QueueTick
<1>33. ASSUME UNCHANGED vars PROVE TypeOK'
  BY <1>33 DEF vars
<1> QED
  BY <1>1, <1>2, <1>3, <1>4, <1>5, <1>6, <1>7, <1>8, <1>9, <1>10, <1>11, <1>12,
     <1>13, <1>14, <1>18, <1>19, <1>20, <1>21, <1>22, <1>24, <1>25, <1>26, <1>27,
     <1>28, <1>29, <1>30, <1>31, <1>32, <1>33
  DEF Next, SubmitStep, ReconcileStep, ProcessStep, HeartbeatStep

LEMMA CarriesNext == TypeOK /\ Carries /\ [Next]_vars => Carries'
<1> SUFFICES ASSUME TypeOK, Carries, [Next]_vars PROVE Carries'
  OBVIOUS
<1> USE WorkerAssumption
        DEF TypeOK, RowsTypeOK, QueueTypeOK, Carries, PCs, rowVars, queueVars, procVars
<1>1. ASSUME UNCHANGED <<pc, held, job, write>>,
             \A m \in Msgs : msgState'[m] = "live" => msgJob'[m] \in Jobs
      PROVE Carries'
  BY <1>1
<1>2. ASSUME NEW j \in Jobs, SubmitStep(j) PROVE Carries'
  BY <1>2, <1>1
  DEF SubmitStep, SubmitCommit, SubmitEnqueue, SubmitLost, DeleteJob, Send, Enqueue
<1>3. ASSUME NEW w \in Workers, ReconcileStep(w) PROVE Carries'
  <2>1. \A m \in Msgs : msgState'[m] = "live" => msgJob'[m] \in Jobs
    BY <1>3 DEF ReconcileStep, ReconcileRead, ReconcileSend, ReconcileError, Send, Enqueue
  <2>2. /\ pc[w] \in {"idle", "sweeping"} /\ UNCHANGED <<held, job, write>>
        /\ \/ pc' = [pc EXCEPT ![w] = "idle"]
           \/ pc' = [pc EXCEPT ![w] = "sweeping"]
    BY <1>3 DEF ReconcileStep, ReconcileRead, ReconcileSend, ReconcileError
  <2> QED
    BY <2>1, <2>2
<1>4. ASSUME NEW w \in Workers, NEW m \in Msgs, Receive(w, m) PROVE Carries'
  BY <1>4 DEF Receive, Deliver, Visible
<1>5. ASSUME NEW w \in Workers, LetGo(w), UNCHANGED <<msgState, msgJob>> PROVE Carries'
  BY <1>5 DEF LetGo
<1>6. ASSUME NEW w \in Workers, NEW next \in {"rejecting", "running", "dropping", "finishing",
                                             "burying", "failing", "acking"},
             Goto(w, next), pc[w] \notin {"idle", "sweeping"}, UNCHANGED <<msgState, msgJob>>
      PROVE Carries'
  BY <1>6 DEF Goto
<1>7. ASSUME NEW w \in Workers,
             \/ ProcessUnknown(w) \/ ClaimJob(w) \/ ClaimRefused(w) \/ HandlerReturns(w)
             \/ MarkSucceededError(w)
      PROVE Carries'
  BY <1>7, <1>6
  DEF ProcessUnknown, ClaimJob, ClaimRefused, HandlerReturns, WorkDone, PermanentFailure,
      TransientFailure, MarkSucceededError
<1>8. ASSUME NEW w \in Workers, MarkRead(w) PROVE Carries'
  <2>1. write' = [write EXCEPT ![w] = Differing(job[w], Verdict(w))]
        /\ Differing(job[w], Verdict(w)).to = Verdict(w)
        /\ UNCHANGED <<pc, held, job, msgState, msgJob>> /\ pc[w] \in MarkPCs
    BY <1>8 DEF MarkRead, Differing
  <2>2. write'[w].to = Verdict(w) /\ \A v \in Workers : v # w => write'[v] = write[v]
    BY <2>1
  <2> QED
    BY <2>1, <2>2 DEF Verdict, MarkPCs
<1>9. ASSUME NEW w \in Workers, AfterMark(w), UNCHANGED queueVars PROVE Carries'
  BY <1>9, <1>5, <1>6 DEF AfterMark, Loop
<1>10. ASSUME NEW w \in Workers, MarkNothing(w) \/ MarkCommit(w) PROVE Carries'
  BY <1>10, <1>9 DEF MarkNothing, MarkCommit
<1>11. ASSUME NEW w \in Workers, Die(w) PROVE Carries'
  BY <1>11, <1>5 DEF Die, Replace
<1>12. ASSUME NEW w \in Workers, MarkMissed(w) PROVE Carries'
  BY <1>12, <1>6, <1>9, <1>11 DEF MarkMissed
<1>13. ASSUME NEW w \in Workers, Ack(w) PROVE Carries'
  BY <1>13 DEF Ack, AckMessage, DeleteMessage, Release, Loop, LetGo
<1>14. ASSUME NEW w \in Workers, AckError(w) PROVE Carries'
  BY <1>14 DEF AckError, DeleteMessage, Release, Goto
<1>15. ASSUME NEW w \in Workers, HeartbeatStep(w) PROVE Carries'
  BY <1>15, <1>1 DEF HeartbeatStep, Heartbeat, HeartbeatMessageOnly, HeartbeatRowOnly,
     HeartbeatCommit, ExtendVisibility
<1>16. ASSUME NEW w \in Workers, ReturnOnDrain(w) \/ DrainedExit(w) PROVE Carries'
  BY <1>16, <1>5 DEF ReturnOnDrain, DrainedExit, Replace, ExtendVisibility
<1>17. ASSUME NEW w \in Workers, Sigterm(w) \/ Crash(w) PROVE Carries'
  BY <1>17, <1>1, <1>11 DEF Sigterm, Crash
<1>18. ASSUME NEW m \in Msgs, DeadLetter(m) \/ DlqExpire(m) PROVE Carries'
  BY <1>18, <1>1 DEF DeadLetter, DlqExpire, MoveToDlq, DlqRetentionOver, Release
<1>19. ASSUME Tick PROVE Carries'
  BY <1>19, <1>1 DEF Tick, QueueTick
<1>20. ASSUME UNCHANGED vars PROVE Carries'
  BY <1>20 DEF vars
<1> QED
  BY <1>2, <1>3, <1>4, <1>7, <1>8, <1>10, <1>12, <1>13, <1>14, <1>15, <1>16, <1>17,
     <1>18, <1>19, <1>20
  DEF Next, ProcessStep

LEMMA Typed == Spec => [](TypeOK /\ Carries)
  BY TypeInit, TypeNext, CarriesNext, PTL DEF Spec

\* Every variable keeps its type; in particular attempt never passes
\* max_attempts and no message is delivered more than MaxReceive times.
THEOREM TypeCorrect == Spec => []TypeOK
  BY Typed, PTL

-----------------------------------------------------------------------------
(* What holds however late heartbeats are.                                    *)

\* Why no lease is leaked.  A row that is gone names nobody, and an UPDATE read
\* from a row that names its process will clear the name: only the process
\* itself, by a claim, could have put it there since.
LeaseInv ==
  /\ NoLeakedLease
  /\ \A j \in Jobs : ~Exists(j) => owner[j] = Nobody
  /\ \A w \in Workers :
       write[w] # NoWrite /\ owner[job[w]] = w => "owner" \in write[w].cols

\* A step that touches neither the rows' owners nor the control of a process.
LEMMA LeaseStutter ==
  LeaseInv /\ UNCHANGED <<status, owner, pc, job, write>> => LeaseInv'
  BY DEF LeaseInv, NoLeakedLease, Executing, Exists

\* A step of one process after which it is executing whatever row names it, and
\* which puts no live process's name into a row.
LEMMA LeaseMove ==
  ASSUME TypeOK, LeaseInv, NEW w \in Workers,
         \A j \in Jobs :
           /\ owner'[j] \in Workers => owner'[j] = owner[j]
           /\ owner'[j] = w => Executing(w)' /\ job'[w] = j
           /\ ~Exists(j)' => owner'[j] = Nobody,
         write'[w] = NoWrite,
         \A v \in Workers \ {w} : /\ pc'[v] = pc[v] /\ job'[v] = job[v]
                                  /\ write'[v] = write[v] /\ (write[v] # NoWrite => job[v] \in Jobs)
  PROVE  LeaseInv'
<1>1. ASSUME NEW j \in Jobs, NEW v \in Workers, owner'[j] = v
      PROVE  Executing(v)' /\ job'[v] = j
  <2>1. CASE v = w
    BY <1>1, <2>1 DEF Executing
  <2>2. CASE v # w
    <3>1. owner[j] = v
      BY <1>1
    <3>2. Executing(v) /\ job[v] = j
      BY <3>1 DEF LeaseInv, NoLeakedLease
    <3> QED BY <2>2, <3>2 DEF Executing
  <2> QED BY <2>1, <2>2
<1>2. ASSUME NEW v \in Workers, write'[v] # NoWrite, owner'[job'[v]] = v
      PROVE  "owner" \in write'[v].cols
  <2>1. v # w
    BY <1>2
  <2>2. job'[v] = job[v] /\ write'[v] = write[v] /\ job[v] \in Jobs
    BY <1>2, <2>1
  <2>3. owner[job[v]] = v
    BY <1>2, <2>2
  <2> QED BY <1>2, <2>2, <2>3 DEF LeaseInv
<1>3. \A j \in Jobs : ~Exists(j)' => owner'[j] = Nobody
  OBVIOUS
<1>4. NoLeakedLease'
  BY <1>1 DEF NoLeakedLease
<1> QED BY <1>2, <1>3, <1>4 DEF LeaseInv

LEMMA LeaseNext == TypeOK /\ Carries /\ LeaseInv /\ [Next]_vars => LeaseInv'
<1> SUFFICES ASSUME TypeOK, Carries, LeaseInv, [Next]_vars PROVE LeaseInv'
  OBVIOUS
<1> USE DEF rowVars, queueVars, procVars
<1>0. \A v \in Workers : write[v] # NoWrite => job[v] \in Jobs /\ pc[v] \in MarkPCs
  BY DEF Carries, MarkPCs
\* A process that holds no row, or goes on executing, moves on.
<1>a. ASSUME NEW w \in Workers, UNCHANGED <<status, owner>>, write'[w] = NoWrite,
             ~Executing(w) \/ (Executing(w)' /\ job'[w] = job[w]) \/ ~Exists(job[w]),
             \A v \in Workers \ {w} : /\ pc'[v] = pc[v] /\ job'[v] = job[v]
                                      /\ write'[v] = write[v]
      PROVE  LeaseInv'
  <2>1. ASSUME NEW j \in Jobs, owner[j] = w PROVE Executing(w)' /\ job'[w] = j
    <3>1. Executing(w) /\ job[w] = j /\ Exists(j)
      BY <2>1, RowsAssumption DEF LeaseInv, NoLeakedLease
    <3> QED
      BY <1>a, <3>1
  <2>2. \A j \in Jobs : ~Exists(j)' => owner'[j] = Nobody
    BY <1>a DEF LeaseInv, Exists
  <2> QED
    BY <1>a, <1>0, <2>1, <2>2, LeaseMove
<1>b. ASSUME NEW w \in Workers, NEW next, Goto(w, next)
      PROVE  /\ pc'[w] = next /\ write'[w] = NoWrite /\ job' = job
             /\ \A v \in Workers \ {w} : /\ pc'[v] = pc[v] /\ job'[v] = job[v]
                                         /\ write'[v] = write[v]
  BY <1>b DEF Goto, TypeOK
<1>c. ASSUME NEW w \in Workers, LetGo(w)
      PROVE  /\ write'[w] = NoWrite /\ pc'[w] = "idle"
             /\ \A v \in Workers \ {w} : /\ pc'[v] = pc[v] /\ job'[v] = job[v]
                                         /\ write'[v] = write[v]
  BY <1>c DEF LetGo, TypeOK
<1>1. ASSUME NEW j \in Jobs, SubmitCommit(j) \/ DeleteJob(j) PROVE LeaseInv'
  <2>1. \/ status' = [status EXCEPT ![j] = "queued"] /\ owner' = owner
        \/ status' = [status EXCEPT ![j] = "deleted"] /\ owner' = [owner EXCEPT ![j] = Nobody]
    <3>1. CASE SubmitCommit(j)
      BY <3>1 DEF SubmitCommit, InsertRow
    <3>2. CASE DeleteJob(j)
      BY <3>2 DEF DeleteJob, DeleteRow
    <3> QED
      BY <1>1, <3>1, <3>2
  <2>2. UNCHANGED <<pc, job, write>>
    BY <1>1 DEF SubmitCommit, DeleteJob
  <2>3. \A i \in Jobs : owner'[i] = owner[i] \/ owner'[i] = Nobody
    BY <2>1 DEF TypeOK, RowsTypeOK
  <2>4. \A i \in Jobs : ~Exists(i)' => owner'[i] = Nobody
    BY <2>1 DEF TypeOK, RowsTypeOK, Exists, LeaseInv
  <2> QED
    BY <2>2, <2>3, <2>4, <1>0, RowsAssumption DEF LeaseInv, NoLeakedLease, Executing
<1>2. ASSUME NEW j \in Jobs, SubmitEnqueue(j) \/ SubmitLost(j) PROVE LeaseInv'
  BY <1>2, LeaseStutter DEF SubmitEnqueue, SubmitLost
<1>3. ASSUME NEW w \in Workers, ReconcileStep(w) PROVE LeaseInv'
  <2>1. /\ UNCHANGED <<status, owner, job, write>>
        /\ pc[w] \in {"idle", "sweeping"} /\ pc'[w] \in {"idle", "sweeping"}
        /\ \A v \in Workers \ {w} : pc'[v] = pc[v]
    BY <1>3 DEF ReconcileStep, ReconcileRead, ReconcileSend, ReconcileError, TypeOK
  <2>2. write[w] = NoWrite
    BY <2>1, <1>0 DEF MarkPCs
  <2> QED
    BY <2>1, <2>2, <1>a DEF Executing
<1>4. ASSUME NEW w \in Workers, NEW m \in Msgs, Receive(w, m) PROVE LeaseInv'
  <2>1. /\ UNCHANGED <<status, owner, write>> /\ pc[w] = "idle"
        /\ \A v \in Workers \ {w} : pc'[v] = pc[v] /\ job'[v] = job[v]
    BY <1>4 DEF Receive, TypeOK
  <2>2. write[w] = NoWrite
    BY <2>1, <1>0 DEF MarkPCs
  <2> QED
    BY <2>1, <2>2, <1>a DEF Executing
<1>5. ASSUME NEW w \in Workers, ReturnOnDrain(w) \/ DrainedExit(w) PROVE LeaseInv'
  BY <1>5, <1>a, <1>c DEF ReturnOnDrain, DrainedExit, Replace, Executing
<1>6. ASSUME NEW w \in Workers, ProcessUnknown(w) \/ ClaimRefused(w) PROVE LeaseInv'
  BY <1>6, <1>a, <1>b DEF ProcessUnknown, ClaimRefused, Executing
<1>7. ASSUME NEW w \in Workers, ClaimJob(w) PROVE LeaseInv'
  <2>1. /\ job[w] \in Jobs /\ pc[w] = "got" /\ write' = [write EXCEPT ![w] = NoWrite]
        /\ pc' = [pc EXCEPT ![w] = "running"] /\ job' = job
        /\ owner' = [owner EXCEPT ![job[w]] = w]
        /\ status' = [status EXCEPT ![job[w]] = "running"]
    BY <1>7 DEF ClaimJob, Carries, Take, Goto
  <2>2. /\ owner'[job[w]] = w /\ status'[job[w]] = "running" /\ Executing(w)'
        /\ write'[w] = NoWrite
        /\ \A j \in Jobs \ {job[w]} : owner'[j] = owner[j] /\ status'[j] = status[j]
        /\ \A v \in Workers \ {w} : pc'[v] = pc[v] /\ write'[v] = write[v]
    BY <2>1 DEF TypeOK, RowsTypeOK, Executing
  <2>3. \A j \in Jobs : owner[j] # w
    BY <2>1 DEF LeaseInv, NoLeakedLease, Executing
  <2>4. NoLeakedLease'
    BY <2>1, <2>2, <2>3 DEF LeaseInv, NoLeakedLease, Executing
  <2>5. \A j \in Jobs : ~Exists(j)' => owner'[j] = Nobody
    BY <2>2 DEF LeaseInv, Exists
  <2>6. ASSUME NEW v \in Workers, write'[v] # NoWrite, owner'[job'[v]] = v
        PROVE  "owner" \in write'[v].cols
    <3>1. v # w /\ job[v] \in Jobs /\ job[v] # job[w]
      BY <2>1, <2>2, <2>6, <1>0
    <3> QED
      BY <2>1, <2>2, <2>6, <3>1 DEF LeaseInv
  <2> QED
    BY <2>4, <2>5, <2>6 DEF LeaseInv
<1>8. ASSUME NEW w \in Workers, HandlerReturns(w) PROVE LeaseInv'
  BY <1>8, <1>a, <1>b
  DEF HandlerReturns, WorkDone, PermanentFailure, TransientFailure, Executing
<1>9. ASSUME NEW w \in Workers, MarkRead(w) PROVE LeaseInv'
  <2>1. /\ UNCHANGED <<status, owner, pc, job>> /\ pc[w] \in MarkPCs
        /\ write' = [write EXCEPT ![w] = Differing(job[w], Verdict(w))]
    BY <1>9 DEF MarkRead
  <2>2. job[w] \in Jobs
    BY <2>1 DEF Carries, MarkPCs
  <2>3. owner[job[w]] = w => "owner" \in Differing(job[w], Verdict(w)).cols
    BY RowsAssumption DEF Differing, Columns
  <2>4. /\ write'[w] = Differing(job[w], Verdict(w))
        /\ \A v \in Workers \ {w} : write'[v] = write[v]
    BY <2>1 DEF TypeOK
  <2> QED
    BY <2>1, <2>3, <2>4 DEF LeaseInv, NoLeakedLease, Executing, Exists
<1>d. ASSUME NEW w \in Workers, write[w] # NoWrite, CommitMark(job[w], write[w]),
             write'[w] = NoWrite,
             \A v \in Workers \ {w} : /\ pc'[v] = pc[v] /\ job'[v] = job[v]
                                      /\ write'[v] = write[v]
      PROVE  LeaseInv'
  <2>1. job[w] \in Jobs
    BY <1>d, <1>0
  <2>2. \A j \in Jobs : owner'[j] = owner[j] \/ owner'[j] = Nobody
    BY <1>d DEF CommitMark, TypeOK, RowsTypeOK
  <2>3. owner'[job[w]] # w
    BY <1>d, <2>1, RowsAssumption DEF CommitMark, TypeOK, RowsTypeOK, LeaseInv
  <2>4. \A j \in Jobs : j # job[w] => owner[j] # w
    BY DEF LeaseInv, NoLeakedLease
  <2>5. \A j \in Jobs : owner'[j] # w
    BY <2>2, <2>3, <2>4, RowsAssumption
  <2>6. write[w].to \in {"succeeded", "failed", "dead"}
    BY <1>d DEF Carries
  <2>7. \A j \in Jobs : ~Exists(j)' => ~Exists(j)
    BY <1>d, <2>6 DEF CommitMark, TypeOK, RowsTypeOK, Exists
  <2>8. \A j \in Jobs : ~Exists(j)' => owner'[j] = Nobody
    BY <2>2, <2>7 DEF LeaseInv
  <2>9. \A j \in Jobs : owner'[j] \in Workers => owner'[j] = owner[j]
    BY <2>2, RowsAssumption
  <2> QED
    BY <1>d, <1>0, <2>5, <2>8, <2>9, LeaseMove
<1>e. ASSUME NEW w \in Workers, AfterMark(w)
      PROVE  /\ write'[w] = NoWrite
             /\ \A v \in Workers \ {w} : /\ pc'[v] = pc[v] /\ job'[v] = job[v]
                                         /\ write'[v] = write[v]
  BY <1>e, <1>b, <1>c DEF AfterMark, Loop
<1>f. ASSUME NEW w \in Workers, Die(w) PROVE LeaseInv'
  <2>1. \A j \in Jobs :
          /\ owner'[j] \in Workers => owner'[j] = owner[j]
          /\ owner'[j] # w
          /\ ~Exists(j)' => owner'[j] = Nobody
    BY <1>f, RowsAssumption DEF Die, LeaseInv, Exists
  <2> QED
    <3>1. LetGo(w)
      BY <1>f DEF Die, Replace
    <3>2. \A j \in Jobs : owner'[j] = w => Executing(w)' /\ job'[w] = j
      BY <2>1
    <3> QED
      BY <1>c, <1>0, <2>1, <3>1, <3>2, LeaseMove
<1>10. ASSUME NEW w \in Workers, MarkNothing(w) PROVE LeaseInv'
  BY <1>10, <1>a, <1>e DEF MarkNothing
<1>11. ASSUME NEW w \in Workers, MarkCommit(w) PROVE LeaseInv'
  BY <1>11, <1>d, <1>e DEF MarkCommit
<1>12. ASSUME NEW w \in Workers, MarkMissed(w) PROVE LeaseInv'
  BY <1>12, <1>a, <1>b, <1>e, <1>f DEF MarkMissed
<1>13. ASSUME NEW w \in Workers, MarkSucceededError(w) PROVE LeaseInv'
  BY <1>13, <1>a, <1>b, <1>d DEF MarkSucceededError, Executing
<1>14. ASSUME NEW w \in Workers, Ack(w) \/ AckError(w) PROVE LeaseInv'
  BY <1>14, <1>a, <1>b, <1>c DEF Ack, AckError, Loop, Executing
<1>15. ASSUME NEW w \in Workers, HeartbeatStep(w) PROVE LeaseInv'
  BY <1>15, LeaseStutter
  DEF HeartbeatStep, Heartbeat, HeartbeatMessageOnly, HeartbeatRowOnly, HeartbeatCommit,
      CommitLease
<1>16. ASSUME NEW w \in Workers, Sigterm(w) \/ Crash(w) PROVE LeaseInv'
  BY <1>16, LeaseStutter, <1>f DEF Sigterm, Crash
<1>17. ASSUME NEW m \in Msgs, DeadLetter(m) \/ DlqExpire(m) PROVE LeaseInv'
  BY <1>17, LeaseStutter DEF DeadLetter, DlqExpire
<1>18. ASSUME Tick \/ UNCHANGED vars PROVE LeaseInv'
  BY <1>18, LeaseStutter DEF Tick, RowsTick, vars
<1> QED
  BY <1>1, <1>2, <1>3, <1>4, <1>5, <1>6, <1>7, <1>8, <1>9, <1>10, <1>11, <1>12, <1>13,
     <1>14, <1>15, <1>16, <1>17, <1>18
  DEF Next, SubmitStep, ProcessStep

\* No lease is leaked: a row that names a live process is one this process is
\* executing, so nobody's name stays behind, in every execution, whatever the
\* marks and heartbeats of processes that lost their lease overwrite.
THEOREM LeaseNotLeaked == Spec => []NoLeakedLease
<1>1. Init => LeaseInv
  BY RowsAssumption DEF Init, RowsInit, LeaseInv, NoLeakedLease
<1>2. LeaseInv => NoLeakedLease
  BY DEF LeaseInv
<1> QED
  BY <1>1, <1>2, Typed, LeaseNext, PTL DEF Spec

\* A process about to write "succeeded" has seen its handler return.
FinishingIsDone == \A w \in Workers : pc[w] = "finishing" => job[w] \in done

LEMMA DurableNext ==
  TypeOK /\ Carries /\ FinishingIsDone /\ SucceededIsDurable /\ [Next]_vars =>
    FinishingIsDone' /\ SucceededIsDurable'
<1> SUFFICES ASSUME TypeOK, Carries, FinishingIsDone, SucceededIsDurable, [Next]_vars
             PROVE FinishingIsDone' /\ SucceededIsDurable'
  OBVIOUS
<1> USE DEF rowVars, queueVars, procVars, TypeOK, RowsTypeOK, FinishingIsDone,
            SucceededIsDurable
<1>a. ASSUME UNCHANGED done, NEW w \in Workers,
             \A v \in Workers \ {w} : pc'[v] = pc[v] /\ job'[v] = job[v],
             pc'[w] # "finishing" \/ (pc'[w] = pc[w] /\ job'[w] = job[w]),
             \A j \in Jobs : status'[j] = "succeeded" => j \in done
      PROVE FinishingIsDone' /\ SucceededIsDurable'
  BY <1>a
<1>b. ASSUME NEW w \in Workers, LetGo(w) \/ AfterMark(w) \/ Goto(w, "failing")
      PROVE  pc'[w] # "finishing" /\ \A v \in Workers \ {w} : pc'[v] = pc[v] /\ job'[v] = job[v]
  BY <1>b DEF AfterMark, Loop, LetGo, Goto
<1>c. ASSUME NEW w \in Workers, write[w] # NoWrite, CommitMark(job[w], write[w])
      PROVE  \A j \in Jobs : status'[j] = "succeeded" => j \in done
  <2>1. write[w].to = "succeeded" => job[w] \in done
    BY <1>c DEF Carries
  <2> QED
    BY <1>c, <2>1 DEF CommitMark
<1>1. ASSUME NEW j \in Jobs, SubmitStep(j)
      PROVE FinishingIsDone' /\ SucceededIsDurable'
  BY <1>1 DEF SubmitStep, SubmitCommit, SubmitEnqueue, SubmitLost, DeleteJob, InsertRow,
     DeleteRow
<1>2. ASSUME NEW w \in Workers, ReconcileStep(w)
      PROVE FinishingIsDone' /\ SucceededIsDurable'
  BY <1>2 DEF ReconcileStep, ReconcileRead, ReconcileSend, ReconcileError
<1>3. ASSUME NEW w \in Workers, NEW m \in Msgs, Receive(w, m)
      PROVE FinishingIsDone' /\ SucceededIsDurable'
  BY <1>3 DEF Receive
<1>4. ASSUME NEW w \in Workers, ReturnOnDrain(w) \/ DrainedExit(w) \/ Crash(w)
      PROVE FinishingIsDone' /\ SucceededIsDurable'
  BY <1>4, <1>a, <1>b DEF ReturnOnDrain, DrainedExit, Crash, Die, Replace
<1>5. ASSUME NEW w \in Workers, ProcessUnknown(w) \/ ClaimRefused(w) \/ AckError(w)
      PROVE FinishingIsDone' /\ SucceededIsDurable'
  BY <1>5 DEF ProcessUnknown, ClaimRefused, AckError, Goto
<1>6. ASSUME NEW w \in Workers, MarkRead(w)
      PROVE FinishingIsDone' /\ SucceededIsDurable'
  BY <1>6 DEF MarkRead
<1>7. ASSUME NEW w \in Workers, ClaimJob(w)
      PROVE FinishingIsDone' /\ SucceededIsDurable'
  BY <1>7 DEF ClaimJob, Take, Goto
<1>8. ASSUME NEW w \in Workers, MarkNothing(w) \/ MarkCommit(w)
      PROVE FinishingIsDone' /\ SucceededIsDurable'
  BY <1>8, <1>a, <1>b, <1>c DEF MarkNothing, MarkCommit
<1>9. ASSUME NEW w \in Workers, HandlerReturns(w)
      PROVE FinishingIsDone' /\ SucceededIsDurable'
  BY <1>9 DEF HandlerReturns, WorkDone, PermanentFailure, TransientFailure, Goto
<1>10. ASSUME NEW w \in Workers, MarkMissed(w)
       PROVE FinishingIsDone' /\ SucceededIsDurable'
  BY <1>10, <1>a, <1>b DEF MarkMissed, Die, Replace
<1>11. ASSUME NEW w \in Workers, MarkSucceededError(w)
       PROVE FinishingIsDone' /\ SucceededIsDurable'
  BY <1>11, <1>a, <1>b, <1>c DEF MarkSucceededError
<1>12. ASSUME NEW w \in Workers, Ack(w)
       PROVE FinishingIsDone' /\ SucceededIsDurable'
  BY <1>12, <1>a, <1>b DEF Ack, Loop
<1>13. ASSUME NEW w \in Workers, HeartbeatStep(w) \/ Sigterm(w)
       PROVE FinishingIsDone' /\ SucceededIsDurable'
  BY <1>13 DEF HeartbeatStep, Heartbeat, HeartbeatMessageOnly, HeartbeatRowOnly,
     HeartbeatCommit, CommitLease, Sigterm
<1>14. ASSUME NEW m \in Msgs, DeadLetter(m) \/ DlqExpire(m)
       PROVE FinishingIsDone' /\ SucceededIsDurable'
  BY <1>14 DEF DeadLetter, DlqExpire
<1>15. ASSUME Tick \/ UNCHANGED vars
       PROVE FinishingIsDone' /\ SucceededIsDurable'
  BY <1>15 DEF Tick, RowsTick, vars
<1> QED
  BY <1>1, <1>2, <1>3, <1>4, <1>5, <1>6, <1>7, <1>8, <1>9, <1>10, <1>11, <1>12, <1>13,
     <1>14, <1>15
  DEF Next, ProcessStep

\* Work is never reported that was not done, not even by a process that lost
\* its lease and marks the row of another.
THEOREM SuccessIsDurable == Spec => []SucceededIsDurable
<1>1. Init => FinishingIsDone /\ SucceededIsDurable
  BY DEF Init, RowsInit, FinishingIsDone, SucceededIsDurable
<1> QED
  BY <1>1, Typed, DurableNext, PTL DEF Spec

-----------------------------------------------------------------------------
(* Timely executions: while a process is in its try block, the row of its job *)
(* cannot be claimed by another.                                              *)

\* The lease of the row has not run out: a heartbeat has read it, and no time
\* passes until its commit; or it is at least what Grace leaves of a full one.
Leased(w) ==
  /\ status[job[w]] = "running" /\ owner[job[w]] = w /\ lease[job[w]] >= 0
  /\ fresh[w][job[w]] # NullLease \/ lease[job[w]] + since[w] >= Lease
  /\ write[w] # NoWrite => write[w].cols = Columns

OneAttempt ==
  \A w, v \in Workers :
    w # v /\ pc[w] \in TryPCs /\ pc[v] \in TryPCs => job[w] # job[v]

\* What the row says at each place of the try block.  Only an error after the
\* commit leads to `failing` with a row that says succeeded.
Owns(w) ==
  /\ pc[w] \in TryPCs => job[w] \notin Unknown
  /\ pc[w] = "rejecting" => job[w] \in Unknown
  /\ pc[w] \in TryPCs =>
       \/ status[job[w]] = "deleted"
       \/ pc[w] # "acking" /\ Leased(w)
       \/ pc[w] = "acking" /\ status[job[w]] = "succeeded"
       \/ pc[w] = "failing" /\ LateErrors /\ status[job[w]] = "succeeded"

UnknownUnclaimed ==
  \A j \in Unknown : status[j] \notin {"running", "failed", "succeeded"}

\* No time passes while a heartbeat is under way, a straggler's included.
FreshIsFull == \A w \in Workers, j \in Jobs : fresh[w][j] \in {NullLease, Lease}

Exclusion == OneAttempt /\ (\A w \in Workers : Owns(w)) /\ UnknownUnclaimed /\ FreshIsFull

\* Why a claim is exclusive: a row some process is at work on is not claimable.
LEMMA BusyNotClaimable ==
  ASSUME TypeOK, Carries, Exclusion, NEW w \in Workers, pc[w] \in TryPCs
  PROVE ~Claimable(job[w])
<1>1. job[w] \in Jobs
  BY DEF Carries, TryPCs
<1>2. lease[job[w]] >= 0 => lease[job[w]] # LeaseOver
  BY <1>1 DEF TypeOK, RowsTypeOK, NullLease, LeaseOver
<1> QED
  BY <1>1, <1>2 DEF Exclusion, Owns, Leased, Claimable, TryPCs

\* One process moves; of the rows only its own changes, if any.
LEMMA OneMoves ==
  ASSUME Carries, Exclusion, NEW w \in Workers,
         \A v \in Workers \ {w} :
           /\ pc'[v] = pc[v] /\ job'[v] = job[v] /\ write'[v] = write[v]
           /\ fresh'[v] = fresh[v] /\ since'[v] = since[v],
         \A v \in Workers \ {w} :
           pc[v] \in TryPCs =>
             /\ status'[job[v]] = status[job[v]] /\ owner'[job[v]] = owner[job[v]]
             /\ lease'[job[v]] = lease[job[v]]
             /\ pc'[w] \in TryPCs => job'[w] # job[v],
         Owns(w)', UnknownUnclaimed', FreshIsFull'
  PROVE  Exclusion'
<1>1. OneAttempt'
  BY DEF Exclusion, OneAttempt
<1>2. ASSUME NEW v \in Workers \ {w} PROVE Owns(v)'
  BY DEF Exclusion, Owns, Leased
<1> QED
  BY <1>1, <1>2 DEF Exclusion

\* It leaves the rows alone.
LEMMA OneMovesQuietly ==
  ASSUME Carries, Exclusion, NEW w \in Workers,
         \A v \in Workers \ {w} :
           /\ pc'[v] = pc[v] /\ job'[v] = job[v] /\ write'[v] = write[v]
           /\ fresh'[v] = fresh[v] /\ since'[v] = since[v],
         UNCHANGED <<status, owner, lease>>,
         pc'[w] \in TryPCs => pc[w] \in TryPCs /\ job'[w] = job[w],
         Owns(w)', FreshIsFull'
  PROVE  Exclusion'
<1>1. ASSUME NEW v \in Workers \ {w}, pc[v] \in TryPCs, pc'[w] \in TryPCs
      PROVE  job'[w] # job[v]
  BY <1>1 DEF Exclusion, OneAttempt
<1>2. UnknownUnclaimed'
  BY DEF Exclusion, UnknownUnclaimed
<1> QED
  BY <1>1, <1>2, OneMoves

\* It goes on with its message and has nothing to write.
LEMMA OneGoesOn ==
  ASSUME TypeOK, Carries, Exclusion, NEW w \in Workers, NEW next, Goto(w, next),
         UNCHANGED <<status, owner, lease>>,
         \/ next = "dropping"
         \/ next = "rejecting" /\ job[w] \in Unknown
         \/ pc[w] \in TryPCs \ {"acking"} /\ next \in {"finishing", "burying", "failing"}
         \/ pc[w] \in TryPCs /\ next = "acking" /\ status[job[w]] \in {"deleted", "succeeded"}
         \/ LateErrors /\ pc[w] = "acking" /\ next = "failing",
         pc[w] \in {"failing", "finishing", "burying"} =>
           next \notin {"finishing", "burying"} /\ (pc[w] # "finishing" => next # "failing")
  PROVE  Exclusion'
<1>1. /\ pc'[w] = next /\ write'[w] = NoWrite /\ UNCHANGED <<job, fresh, since>>
      /\ \A v \in Workers \ {w} : pc'[v] = pc[v] /\ write'[v] = write[v]
  BY DEF Goto, TypeOK
<1>2. FreshIsFull'
  BY <1>1 DEF Exclusion, FreshIsFull
<1>3. Owns(w)'
  BY <1>1 DEF Exclusion, Owns, Leased, TryPCs
<1>4. pc'[w] \in TryPCs => pc[w] \in TryPCs
  BY <1>1 DEF TryPCs
<1> QED
  BY <1>1, <1>2, <1>3, <1>4, OneMovesQuietly

\* It lets go of its message; what it wrote to its row disturbs nobody.
LEMMA OneLeaves ==
  ASSUME TypeOK, Carries, Exclusion, NEW w \in Workers, LetGo(w) \/ Goto(w, "dropping"),
         UNCHANGED fresh \/ Replace(w),
         \A v \in Workers \ {w} :
           pc[v] \in TryPCs =>
             /\ status'[job[v]] = status[job[v]] /\ owner'[job[v]] = owner[job[v]]
             /\ lease'[job[v]] = lease[job[v]],
         UnknownUnclaimed'
  PROVE  Exclusion'
<1>1. /\ pc'[w] \in {"idle", "dropping"}
      /\ \A v \in Workers \ {w} :
           /\ pc'[v] = pc[v] /\ job'[v] = job[v] /\ write'[v] = write[v]
           /\ since'[v] = since[v]
  BY DEF LetGo, Goto, TypeOK
<1>2. \A v \in Workers \ {w} : fresh'[v] = fresh[v]
  BY DEF Replace, TypeOK
<1>3. FreshIsFull'
  <2>1. ASSUME Replace(w), NEW j \in Jobs PROVE fresh'[w][j] = NullLease
    BY <2>1 DEF Replace, TypeOK
  <2> QED
    BY <1>2, <2>1 DEF Exclusion, FreshIsFull
<1>4. Owns(w)'
  BY <1>1 DEF Owns, TryPCs
<1>5. pc'[w] \notin TryPCs
  BY <1>1 DEF TryPCs
<1> QED
  BY <1>1, <1>2, <1>3, <1>4, <1>5, OneMoves

\* What a commit writes: every column of a row that is the process's own.
LEMMA CommitOwn ==
  ASSUME TypeOK, Carries, Exclusion, NEW w \in Workers, write[w] # NoWrite,
         CommitMark(job[w], write[w])
  PROVE  /\ job[w] \in Jobs /\ write[w].to \in {"succeeded", "failed", "dead"}
         /\ \A j \in Jobs : j # job[w] =>
              status'[j] = status[j] /\ owner'[j] = owner[j] /\ lease'[j] = lease[j]
         /\ pc[w] \in {"finishing", "burying"} => status'[job[w]] = write[w].to
         /\ pc[w] \in {"finishing", "burying"} \/ (pc[w] = "failing" /\ ~LateErrors) =>
              status[job[w]] = "running" /\ status' = [status EXCEPT ![job[w]] = write[w].to]
         /\ status' = status \/ status' = [status EXCEPT ![job[w]] = write[w].to]
<1>1. job[w] \in Jobs /\ write[w].to \in {"succeeded", "failed", "dead"}
  BY DEF Carries
<1>2. ASSUME pc[w] \in {"finishing", "burying"} \/ (pc[w] = "failing" /\ ~LateErrors)
      PROVE  Leased(w)
  BY <1>2 DEF Exclusion, Owns, TryPCs, CommitMark, Exists
<1> QED
  BY <1>1, <1>2 DEF Leased, Columns, CommitMark, TypeOK, RowsTypeOK

\* A commit disturbs no other process, and never claims an unknown kind.
LEMMA CommitAlone ==
  ASSUME TypeOK, Carries, Exclusion, NEW w \in Workers, write[w] # NoWrite,
         CommitMark(job[w], write[w])
  PROVE  /\ UnknownUnclaimed'
         /\ \A v \in Workers \ {w} :
              pc[v] \in TryPCs =>
                /\ status'[job[v]] = status[job[v]] /\ owner'[job[v]] = owner[job[v]]
                /\ lease'[job[v]] = lease[job[v]]
<1>1. pc[w] \in TryPCs \/ (pc[w] = "rejecting" /\ write[w].to = "dead" /\ job[w] \in Unknown)
  BY DEF Carries, Exclusion, Owns, TryPCs
<1>2. ASSUME NEW v \in Workers \ {w}, pc[v] \in TryPCs PROVE job[v] # job[w] /\ job[v] \in Jobs
  BY <1>1, <1>2 DEF Exclusion, OneAttempt, Owns, Carries, TryPCs
<1>3. ASSUME NEW j \in Unknown PROVE status'[j] \notin {"running", "failed", "succeeded"}
  <2>1. j \in Jobs /\ status[j] \notin {"running", "failed", "succeeded"}
    BY WorkerAssumption DEF Exclusion, UnknownUnclaimed
  <2>2. j = job[w] => write[w].to = "dead"
    BY <1>1 DEF Exclusion, Owns
  <2> QED
    BY <2>1, <2>2, CommitOwn DEF TypeOK, RowsTypeOK
<1> QED
  BY <1>2, <1>3, CommitOwn DEF UnknownUnclaimed

LEMMA ExclusionNext ==
  ASSUME Timely
  PROVE TypeOK /\ Carries /\ Exclusion /\ [Next]_vars => Exclusion'
<1> SUFFICES ASSUME TypeOK, Carries, Exclusion, [Next]_vars PROVE Exclusion'
  OBVIOUS
<1> USE DEF rowVars, queueVars, procVars
<1>a. ASSUME UNCHANGED <<status, owner, lease, pc, job, write, fresh, since>> PROVE Exclusion'
  BY <1>a DEF Exclusion, OneAttempt, Owns, Leased, UnknownUnclaimed, FreshIsFull
<1>b. \A v \in Workers : pc[v] \in TryPCs => job[v] \in Jobs
  BY DEF Carries, TryPCs
<1>1. ASSUME NEW j \in Jobs, SubmitCommit(j) \/ DeleteJob(j) PROVE Exclusion'
  <2>1. UNCHANGED <<pc, job, write, fresh, since>>
    BY <1>1 DEF SubmitCommit, DeleteJob
  <2>2. CASE SubmitCommit(j)
    <3>1. /\ status' = [status EXCEPT ![j] = "queued"] /\ status[j] = "none"
          /\ UNCHANGED <<owner, lease>>
      BY <2>2 DEF SubmitCommit, InsertRow
    <3>2. ASSUME NEW w \in Workers PROVE Owns(w)'
      <4>1. pc[w] \in TryPCs => job[w] # j /\ job[w] \in Jobs
        BY <1>b, <3>1 DEF Exclusion, Owns, Leased
      <4>2. pc[w] \in TryPCs => status'[job[w]] = status[job[w]]
        BY <3>1, <4>1 DEF TypeOK, RowsTypeOK
      <4> QED
        BY <2>1, <3>1, <4>2 DEF Exclusion, Owns, Leased
    <3>3. UnknownUnclaimed'
      BY <3>1, WorkerAssumption DEF Exclusion, UnknownUnclaimed, TypeOK, RowsTypeOK
    <3> QED
      BY <2>1, <3>2, <3>3 DEF Exclusion, OneAttempt, FreshIsFull
  <2>3. CASE DeleteJob(j)
    <3>1. /\ status' = [status EXCEPT ![j] = "deleted"]
          /\ \A i \in Jobs : i # j => owner'[i] = owner[i] /\ lease'[i] = lease[i]
      BY <2>3 DEF DeleteJob, DeleteRow, TypeOK, RowsTypeOK
    <3>2. ASSUME NEW w \in Workers PROVE Owns(w)'
      <4>1. pc[w] \in TryPCs /\ job[w] # j => status'[job[w]] = status[job[w]]
        BY <1>b, <3>1 DEF TypeOK, RowsTypeOK
      <4>2. pc[w] \in TryPCs /\ job[w] = j => status'[job[w]] = "deleted"
        BY <1>b, <3>1 DEF TypeOK, RowsTypeOK
      <4> QED
        BY <1>b, <2>1, <3>1, <4>1, <4>2 DEF Exclusion, Owns, Leased
    <3>3. UnknownUnclaimed'
      BY <3>1, WorkerAssumption DEF Exclusion, UnknownUnclaimed, TypeOK, RowsTypeOK
    <3> QED
      BY <2>1, <3>2, <3>3 DEF Exclusion, OneAttempt, FreshIsFull
  <2> QED
    BY <1>1, <2>2, <2>3
<1>2. ASSUME NEW j \in Jobs, SubmitEnqueue(j) \/ SubmitLost(j) PROVE Exclusion'
  BY <1>2, <1>a DEF SubmitEnqueue, SubmitLost
<1>3. ASSUME NEW w \in Workers, ReconcileStep(w) PROVE Exclusion'
  <2>1. /\ UNCHANGED <<status, owner, lease, job, write, fresh, since>>
        /\ pc'[w] \in {"idle", "sweeping"}
        /\ \A v \in Workers \ {w} : pc'[v] = pc[v]
    BY <1>3 DEF ReconcileStep, ReconcileRead, ReconcileSend, ReconcileError, TypeOK
  <2>2. Owns(w)' /\ pc'[w] \notin TryPCs /\ FreshIsFull'
    BY <2>1 DEF Owns, TryPCs, Exclusion, FreshIsFull
  <2> QED
    BY <2>1, <2>2, OneMovesQuietly
<1>4. ASSUME NEW w \in Workers, NEW m \in Msgs, Receive(w, m) PROVE Exclusion'
  <2>1. /\ UNCHANGED <<status, owner, lease, write, fresh, since>> /\ pc'[w] = "got"
        /\ \A v \in Workers \ {w} : pc'[v] = pc[v] /\ job'[v] = job[v]
    BY <1>4 DEF Receive, TypeOK
  <2>2. Owns(w)' /\ pc'[w] \notin TryPCs /\ FreshIsFull'
    BY <2>1 DEF Owns, TryPCs, Exclusion, FreshIsFull
  <2> QED
    BY <2>1, <2>2, OneMovesQuietly
<1>5. ASSUME NEW w \in Workers, ReturnOnDrain(w) \/ DrainedExit(w) PROVE Exclusion'
  <2>1. UnknownUnclaimed' /\ UNCHANGED <<status, owner, lease>>
    BY <1>5 DEF ReturnOnDrain, DrainedExit, Exclusion, UnknownUnclaimed
  <2> QED
    BY <1>5, <2>1, OneLeaves DEF ReturnOnDrain, DrainedExit, Replace
<1>6. ASSUME NEW w \in Workers, ProcessUnknown(w) \/ ClaimRefused(w) PROVE Exclusion'
  BY <1>6, OneGoesOn DEF ProcessUnknown, ClaimRefused
<1>7. ASSUME NEW w \in Workers, HandlerReturns(w) PROVE Exclusion'
  <2>1. pc[w] = "running" /\ pc[w] \in TryPCs \ {"acking"} /\ UNCHANGED <<status, owner, lease>>
    BY <1>7 DEF HandlerReturns, WorkDone, PermanentFailure, TransientFailure, TryPCs
  <2> QED
    BY <1>7, <2>1, OneGoesOn
    DEF HandlerReturns, WorkDone, PermanentFailure, TransientFailure
<1>8. ASSUME NEW w \in Workers, ClaimJob(w) PROVE Exclusion'
  <2>1. job[w] \in Jobs /\ job[w] \notin Unknown /\ Claimable(job[w]) /\ pc[w] = "got"
    BY <1>8 DEF ClaimJob, Carries
  <2>2. ASSUME NEW v \in Workers, pc[v] \in TryPCs PROVE job[v] # job[w] /\ job[v] \in Jobs
    BY <2>1, <2>2, BusyNotClaimable DEF Carries, TryPCs
  <2>3. /\ pc' = [pc EXCEPT ![w] = "running"] /\ UNCHANGED <<job, fresh, since>>
        /\ write' = [write EXCEPT ![w] = NoWrite]
        /\ status' = [status EXCEPT ![job[w]] = "running"]
        /\ owner' = [owner EXCEPT ![job[w]] = w]
        /\ lease' = [lease EXCEPT ![job[w]] = Lease]
    BY <1>8 DEF ClaimJob, Take, Goto
  <2>4. Leased(w)' /\ pc'[w] = "running"
    BY <2>1, <2>3, RowsAssumption, WorkerAssumption DEF Leased, TypeOK, RowsTypeOK
  <2>5. Owns(w)'
    BY <2>1, <2>3, <2>4 DEF Owns, TryPCs
  <2>6. UnknownUnclaimed'
    BY <2>1, <2>3, WorkerAssumption DEF Exclusion, UnknownUnclaimed, TypeOK, RowsTypeOK
  <2>7. /\ FreshIsFull'
        /\ \A v \in Workers \ {w} : pc'[v] = pc[v] /\ write'[v] = write[v]
    BY <2>3 DEF Exclusion, FreshIsFull, TypeOK
  <2>8. ASSUME NEW v \in Workers \ {w}, pc[v] \in TryPCs
        PROVE  /\ status'[job[v]] = status[job[v]] /\ owner'[job[v]] = owner[job[v]]
               /\ lease'[job[v]] = lease[job[v]] /\ job'[w] # job[v]
    BY <2>2, <2>3, <2>8 DEF TypeOK, RowsTypeOK
  <2> QED
    BY <2>3, <2>5, <2>6, <2>7, <2>8, OneMoves
<1>9. ASSUME NEW w \in Workers, MarkRead(w) PROVE Exclusion'
  <2>1. /\ UNCHANGED <<status, owner, lease, pc, job, fresh, since>>
        /\ write'[w] = Differing(job[w], Verdict(w))
        /\ \A v \in Workers \ {w} : write'[v] = write[v]
        /\ Verdict(w) \in {"succeeded", "failed", "dead"}
    BY <1>9 DEF MarkRead, TypeOK, Verdict
  <2>2. Leased(w) => Differing(job[w], Verdict(w)).cols = Columns
    BY <2>1, RowsAssumption DEF Leased, Differing, Columns, NullLease
  <2>3. Owns(w)' /\ FreshIsFull'
    BY <2>1, <2>2 DEF Exclusion, FreshIsFull, Owns, Leased
  <2> QED
    BY <2>1, <2>3, OneMovesQuietly
<1>10. ASSUME NEW w \in Workers, Die(w) PROVE Exclusion'
  <2>1. UnknownUnclaimed' /\ Replace(w) /\ LetGo(w)
    BY <1>10 DEF Die, Replace, Exclusion, UnknownUnclaimed
  <2>2. ASSUME NEW v \in Workers \ {w}, pc[v] \in TryPCs
        PROVE  /\ status'[job[v]] = status[job[v]] /\ lease'[job[v]] = lease[job[v]]
               /\ owner'[job[v]] = owner[job[v]] \/ status[job[v]] # "running"
                  \/ owner[job[v]] = w
    BY <1>10, <1>b, <2>2 DEF Die, TypeOK, RowsTypeOK
  <2>3. ASSUME NEW v \in Workers \ {w} PROVE Owns(v)'
    <3>1. /\ pc'[v] = pc[v] /\ job'[v] = job[v] /\ write'[v] = write[v]
          /\ fresh'[v] = fresh[v] /\ since'[v] = since[v]
      BY <2>1 DEF Replace, LetGo, TypeOK
    <3> QED
      BY <2>2, <3>1 DEF Exclusion, Owns, Leased
  <2>4. Owns(w)' /\ OneAttempt' /\ FreshIsFull'
    BY <2>1 DEF Exclusion, OneAttempt, FreshIsFull, Owns, LetGo, Replace, TypeOK, TryPCs
  <2> QED
    BY <2>1, <2>3, <2>4 DEF Exclusion
<1>11. ASSUME NEW w \in Workers, MarkNothing(w) PROVE Exclusion'
  <2>1. UNCHANGED <<status, owner, lease>> /\ UnknownUnclaimed' /\ AfterMark(w)
    BY <1>11 DEF MarkNothing, Exclusion, UnknownUnclaimed
  <2>2. CASE pc[w] = "finishing" /\ Goto(w, "acking")
    <3>1. status[job[w]] = "deleted" /\ pc[w] \in TryPCs
      BY <1>11, <2>2 DEF MarkNothing, Exists, Exclusion, Owns, Leased, TryPCs
    <3> QED
      BY <2>1, <2>2, <3>1, OneGoesOn
  <2>3. CASE pc[w] # "finishing"
    BY <2>1, <2>3, OneLeaves DEF AfterMark, Loop, Goto
  <2> QED
    BY <2>1, <2>2, <2>3 DEF AfterMark
<1>12. ASSUME NEW w \in Workers, MarkCommit(w) \/ MarkSucceededError(w) PROVE Exclusion'
  <2>1. CASE MarkSucceededError(w) /\ UNCHANGED rowVars
    <3>1. pc[w] = "finishing" /\ pc[w] \in TryPCs \ {"acking"} /\ Goto(w, "failing")
      BY <2>1 DEF MarkSucceededError, TryPCs
    <3> QED
      BY <2>1, <3>1, OneGoesOn
  <2>2. CASE /\ write[w] # NoWrite /\ CommitMark(job[w], write[w]) /\ pc[w] = "finishing"
             /\ Goto(w, "acking") \/ (LateErrors /\ Goto(w, "failing"))
    <3>1. status'[job[w]] = "succeeded" /\ job[w] \in Jobs
      BY <2>2, CommitOwn DEF Carries
    <3>2. /\ pc'[w] = "acking" \/ (LateErrors /\ pc'[w] = "failing")
          /\ UNCHANGED <<job, fresh, since>>
          /\ \A v \in Workers \ {w} : pc'[v] = pc[v] /\ write'[v] = write[v]
      BY <2>2 DEF Goto, TypeOK
    <3>3. Owns(w)' /\ FreshIsFull'
      BY <2>2, <3>1, <3>2 DEF Owns, TryPCs, Exclusion, FreshIsFull
    <3>4. \A v \in Workers \ {w} : pc[v] \in TryPCs => job'[w] # job[v]
      BY <2>2, <3>2 DEF Exclusion, OneAttempt, TryPCs
    <3> QED
      BY <2>2, <3>2, <3>3, <3>4, CommitAlone, OneMoves
  <2>3. CASE /\ write[w] # NoWrite /\ CommitMark(job[w], write[w])
             /\ Loop(w) \/ Goto(w, "dropping")
    BY <2>3, CommitAlone, OneLeaves DEF Loop, Goto
  <2> QED
    BY <1>12, <2>1, <2>2, <2>3 DEF MarkCommit, AfterMark, MarkSucceededError
<1>13. ASSUME NEW w \in Workers, MarkMissed(w) PROVE Exclusion'
  <2>1. CASE pc[w] = "finishing" /\ Goto(w, "failing") /\ UNCHANGED rowVars
    <3>1. pc[w] \in TryPCs \ {"acking"}
      BY <2>1 DEF TryPCs
    <3> QED
      BY <2>1, <3>1, OneGoesOn
  <2>2. CASE pc[w] = "failing" /\ Loop(w) /\ UNCHANGED rowVars
    <3>1. UnknownUnclaimed'
      BY <2>2 DEF Exclusion, UnknownUnclaimed
    <3> QED
      BY <2>2, <3>1, OneLeaves DEF Loop
  <2> QED
    BY <1>10, <1>13, <2>1, <2>2 DEF MarkMissed, AfterMark, Carries
<1>14. ASSUME NEW w \in Workers, Ack(w) PROVE Exclusion'
  <2>1. UnknownUnclaimed' /\ LetGo(w) /\ UNCHANGED <<status, owner, lease, fresh>>
    BY <1>14 DEF Ack, Loop, Exclusion, UnknownUnclaimed
  <2> QED
    BY <2>1, OneLeaves
<1>15. ASSUME NEW w \in Workers, AckError(w) PROVE Exclusion'
  <2>1. LateErrors /\ pc[w] = "acking" /\ Goto(w, "failing") /\ UNCHANGED <<status, owner, lease>>
    BY <1>15 DEF AckError
  <2> QED
    BY <2>1, OneGoesOn
<1>16. ASSUME NEW w \in Workers, Heartbeat(w) \/ HeartbeatRowOnly(w) PROVE Exclusion'
  <2>1. /\ UNCHANGED <<status, owner, lease, pc, job, write>> /\ ReadLease(w)
        /\ pc[w] \in TryPCs /\ job[w] \in Jobs
        /\ since' = [since EXCEPT ![w] = 0] \/ since' = since
        /\ since'[w] = since[w] \/ Heartbeat(w)
    BY <1>16, <1>b DEF Heartbeat, HeartbeatRowOnly
  <2>2. /\ MayExtend(job[w], w) => fresh'[w][job[w]] = Lease
        /\ \A j \in Jobs : fresh'[w][j] \in {fresh[w][j], Lease}
        /\ \A v \in Workers \ {w} : fresh'[v] = fresh[v] /\ since'[v] = since[v]
    BY <2>1 DEF ReadLease, TypeOK
  <2>3. Leased(w) => Leased(w)'
    BY <2>1, <2>2, RowsAssumption DEF Leased, MayExtend, NullLease
  <2>4. Owns(w)'
    BY <2>1, <2>3 DEF Exclusion, Owns
  <2>5. FreshIsFull'
    BY <2>2 DEF Exclusion, FreshIsFull
  <2> QED
    BY <2>1, <2>2, <2>4, <2>5, OneMovesQuietly
<1>17. ASSUME NEW w \in Workers, HeartbeatMessageOnly(w) \/ Sigterm(w) PROVE Exclusion'
  BY <1>17, <1>a DEF HeartbeatMessageOnly, Sigterm
<1>18. ASSUME NEW w \in Workers, NEW j \in Jobs, HeartbeatCommit(w, j) PROVE Exclusion'
  <2>1. /\ UNCHANGED <<status, owner, pc, job, write, since>>
        /\ lease' = lease \/ lease' = [lease EXCEPT ![j] = Lease]
        /\ Exists(j) => lease' = [lease EXCEPT ![j] = Lease]
        /\ fresh' = [fresh EXCEPT ![w][j] = NullLease]
    BY <1>18 DEF HeartbeatCommit, CommitLease, Exclusion, FreshIsFull
  <2>2. ASSUME NEW v \in Workers, pc[v] \in TryPCs, Leased(v) PROVE Leased(v)'
    <3>1. CASE job[v] = j
      <4>1. lease'[j] = Lease /\ since[v] \in Nat
        BY <2>1, <2>2, <3>1, WorkerAssumption DEF Leased, Exists, TypeOK, RowsTypeOK
      <4> QED
        BY <2>1, <2>2, <3>1, <4>1, RowsAssumption DEF Leased
    <3>2. CASE job[v] # j
      <4>1. lease'[job[v]] = lease[job[v]] /\ fresh'[v][job[v]] = fresh[v][job[v]]
        BY <1>b, <2>1, <2>2, <3>2 DEF TypeOK, RowsTypeOK
      <4> QED
        BY <2>1, <2>2, <4>1 DEF Leased
    <3> QED
      BY <3>1, <3>2
  <2>3. FreshIsFull'
    BY <2>1 DEF Exclusion, FreshIsFull, TypeOK
  <2> QED
    BY <2>1, <2>2, <2>3 DEF Exclusion, OneAttempt, Owns, UnknownUnclaimed
<1>19. ASSUME NEW m \in Msgs, DeadLetter(m) \/ DlqExpire(m) PROVE Exclusion'
  BY <1>19, <1>a DEF DeadLetter, DlqExpire
<1>20. ASSUME Tick PROVE Exclusion'
  <2>1. InTime /\ UNCHANGED <<status, owner, pc, job, write>>
    BY <1>20 DEF Tick, RowsTick
  <2>2. ASSUME NEW w \in Workers, pc[w] \in TryPCs, Leased(w) PROVE Leased(w)'
    <3>1. job[w] \in Jobs /\ held[w] # NoMsg
      BY <2>2, WorkerAssumption DEF Carries, TryPCs
    <3>2. /\ fresh[w][job[w]] = NullLease /\ since[w] < Grace /\ since[w] \in Nat
          /\ lease[job[w]] + since[w] >= Lease /\ Grace <= Lease
      BY <2>1, <2>2, <3>1, WorkerAssumption DEF InTime, Leased, Timely, TypeOK
    <3>3. lease[job[w]] \in Int /\ lease[job[w]] > 0 /\ lease'[job[w]] = lease[job[w]] - 1
      BY <1>20, <2>2, <3>1, <3>2, RowsAssumption, WorkerAssumption
      DEF Tick, RowsTick, Later, LeaseOver, Leased, TypeOK, RowsTypeOK, NullLease
    <3>4. since'[w] = since[w] + 1
      BY <1>20, <3>1 DEF Tick
    <3>5. lease'[job[w]] >= 0 /\ lease'[job[w]] + since'[w] >= Lease
      BY <3>2, <3>3, <3>4, RowsAssumption
    <3> QED
      BY <2>1, <2>2, <3>5 DEF Leased
  <2>3. FreshIsFull'
    BY <1>20, <2>1 DEF Tick, InTime, Later, LeaseOver, NullLease, FreshIsFull
  <2> QED
    BY <2>1, <2>2, <2>3 DEF Exclusion, OneAttempt, Owns, UnknownUnclaimed
<1>21. ASSUME UNCHANGED vars PROVE Exclusion'
  BY <1>21, <1>a DEF vars
<1>22. ASSUME NEW w \in Workers, Crash(w) PROVE Exclusion'
  BY <1>22, <1>10 DEF Crash
<1> QED
  BY <1>1, <1>2, <1>3, <1>4, <1>5, <1>6, <1>7, <1>8, <1>9, <1>11, <1>12, <1>13,
     <1>14, <1>15, <1>16, <1>17, <1>18, <1>19, <1>20, <1>21, <1>22
  DEF Next, SubmitStep, ProcessStep, HeartbeatStep

LEMMA ExclusionInvariant == ASSUME Timely PROVE Spec => []Exclusion
<1>1. Init => Exclusion
  BY WorkerAssumption
  DEF Init, RowsInit, Exclusion, OneAttempt, Owns, UnknownUnclaimed, FreshIsFull, TryPCs
<1> QED
  BY <1>1, Typed, ExclusionNext, PTL DEF Spec

\* While heartbeats are in time no job is executed by two processes at once,
\* over duplicate messages, crashes, drains, late errors and stragglers.
THEOREM ExecutionIsExclusive == ASSUME Timely PROVE Spec => []ExclusiveExecution
<1>1. Exclusion => ExclusiveExecution
  BY DEF Exclusion, OneAttempt, ExclusiveExecution, Executing, TryPCs
<1> QED
  BY <1>1, ExclusionInvariant, PTL

\* Why a failed row has an attempt left: the attempt mark_failed has read is
\* still the row's when it commits, for nobody else can claim the row.
Retryable ==
  /\ FailedIsRetryable
  /\ \A w \in Workers :
       write[w] # NoWrite /\ write[w].to = "failed" =>
         attempt[job[w]] < MaxAttempts /\ rcount[w] < MaxAttempts

LEMMA RetryableNext ==
  ASSUME Timely
  PROVE TypeOK /\ Carries /\ Exclusion /\ Retryable /\ [Next]_vars => Retryable'
<1> SUFFICES ASSUME TypeOK, Carries, Exclusion, Retryable, [Next]_vars PROVE Retryable'
  OBVIOUS
<1> USE DEF rowVars, queueVars, procVars
<1>a. ASSUME UNCHANGED <<status, attempt>>,
             \A w \in Workers : write'[w] # NoWrite =>
               write'[w] = write[w] /\ job'[w] = job[w] /\ rcount'[w] = rcount[w]
      PROVE  Retryable'
  BY <1>a DEF Retryable, FailedIsRetryable
<1>b. ASSUME NEW w \in Workers, LetGo(w) \/ AfterMark(w) \/ (\E next : Goto(w, next))
      PROVE  \A v \in Workers : write'[v] # NoWrite =>
               write'[v] = write[v] /\ job'[v] = job[v] /\ rcount'[v] = rcount[v]
  BY <1>b DEF AfterMark, Loop, LetGo, Goto, TypeOK
<1>c. ASSUME NEW w \in Workers, write[w] # NoWrite, CommitMark(job[w], write[w]),
             \A v \in Workers : write'[v] # NoWrite =>
               write'[v] = write[v] /\ job'[v] = job[v] /\ rcount'[v] = rcount[v]
      PROVE  Retryable'
  <2>1. attempt' = attempt
    BY <1>c DEF CommitMark
  <2>2. \A j \in Jobs : status'[j] = "failed" => attempt[j] < MaxAttempts
    BY <1>c, CommitOwn DEF Retryable, FailedIsRetryable, TypeOK, RowsTypeOK
  <2> QED
    BY <1>c, <2>1, <2>2 DEF Retryable, FailedIsRetryable
<1>1. ASSUME NEW j \in Jobs, SubmitStep(j) PROVE Retryable'
  BY <1>1
  DEF SubmitStep, SubmitCommit, SubmitEnqueue, SubmitLost, DeleteJob, InsertRow, DeleteRow,
      Retryable, FailedIsRetryable, TypeOK, RowsTypeOK
<1>2. ASSUME NEW w \in Workers, ReconcileStep(w) PROVE Retryable'
  BY <1>2, <1>a DEF ReconcileStep, ReconcileRead, ReconcileSend, ReconcileError
<1>3. ASSUME NEW w \in Workers, NEW m \in Msgs, Receive(w, m) PROVE Retryable'
  <2>1. write[w] = NoWrite
    BY <1>3 DEF Receive, Carries
  <2>2. UNCHANGED <<status, attempt, write>> /\ \A v \in Workers \ {w} : job'[v] = job[v] /\ rcount'[v] = rcount[v]
    BY <1>3 DEF Receive, TypeOK
  <2> QED
    BY <2>1, <2>2, <1>a
<1>4. ASSUME NEW w \in Workers,
             \/ ReturnOnDrain(w) \/ DrainedExit(w) \/ Die(w) \/ Crash(w) \/ Ack(w)
             \/ MarkNothing(w) \/ MarkMissed(w)
      PROVE  Retryable'
  <2>1. LetGo(w) \/ AfterMark(w) \/ (\E next : Goto(w, next))
    BY <1>4
    DEF ReturnOnDrain, DrainedExit, Die, Crash, Ack, Loop, Replace, MarkNothing, MarkMissed
  <2>2. UNCHANGED <<status, attempt>>
    BY <1>4
    DEF ReturnOnDrain, DrainedExit, Die, Crash, Ack, MarkNothing, MarkMissed
  <2> QED
    BY <1>a, <1>b, <2>1, <2>2
<1>5. ASSUME NEW w \in Workers,
             \/ ProcessUnknown(w) \/ ClaimRefused(w) \/ HandlerReturns(w) \/ AckError(w)
             \/ MarkSucceededError(w) /\ UNCHANGED rowVars
      PROVE  Retryable'
  <2>1. (\E next : Goto(w, next)) /\ UNCHANGED <<status, attempt>>
    BY <1>5
    DEF ProcessUnknown, ClaimRefused, HandlerReturns, WorkDone, PermanentFailure,
        TransientFailure, AckError, MarkSucceededError
  <2> QED
    BY <1>a, <1>b, <2>1
<1>6. ASSUME NEW w \in Workers, ClaimJob(w) PROVE Retryable'
  <2>1. job[w] \in Jobs /\ Claimable(job[w]) /\ pc[w] = "got"
    BY <1>6 DEF ClaimJob, Carries
  <2>2. ASSUME NEW v \in Workers, write'[v] # NoWrite, write'[v].to = "failed"
        PROVE  attempt'[job'[v]] < MaxAttempts /\ rcount'[v] < MaxAttempts
    <3>1. /\ write'[v] = write[v] /\ job'[v] = job[v] /\ rcount'[v] = rcount[v]
          /\ attempt' = [attempt EXCEPT ![job[w]] = @ + 1]
      BY <1>6, <1>b, <2>2 DEF ClaimJob, Take
    <3>2. pc[v] \in TryPCs /\ job[v] \in Jobs
      BY <2>2, <3>1 DEF Carries, TryPCs
    <3>3. job[v] # job[w]
      BY <2>1, <3>2, BusyNotClaimable
    <3> QED
      BY <2>2, <3>1, <3>2, <3>3 DEF Retryable, TypeOK, RowsTypeOK
  <2>3. ASSUME NEW j \in Jobs, status'[j] = "failed" PROVE attempt'[j] < MaxAttempts
    BY <1>6, <2>1, <2>3 DEF ClaimJob, Take, Retryable, FailedIsRetryable, TypeOK, RowsTypeOK
  <2> QED
    BY <2>2, <2>3 DEF Retryable, FailedIsRetryable
<1>7. ASSUME NEW w \in Workers, MarkRead(w) PROVE Retryable'
  <2>1. /\ UNCHANGED <<status, attempt, pc, job, rcount>> /\ pc[w] \in MarkPCs
        /\ write' = [write EXCEPT ![w] = Differing(job[w], Verdict(w))]
    BY <1>7 DEF MarkRead
  <2>2. /\ write'[w].to = Verdict(w)
        /\ \A v \in Workers \ {w} : write'[v] = write[v]
    BY <2>1 DEF TypeOK, Differing
  <2>3. Verdict(w) = "failed" => attempt[job[w]] < MaxAttempts /\ rcount[w] < MaxAttempts
    <3>1. job[w] \in Jobs
      BY <2>1 DEF Carries, MarkPCs
    <3>2. attempt[job[w]] \in Nat /\ rcount[w] \in Nat /\ MaxAttempts \in Nat
      BY <3>1, RowsAssumption, QueueAssumption DEF TypeOK, RowsTypeOK
    <3> QED
      BY <3>2 DEF Verdict, Exhausted
  <2> QED
    BY <2>1, <2>2, <2>3 DEF Retryable, FailedIsRetryable
<1>8. ASSUME NEW w \in Workers, MarkCommit(w) PROVE Retryable'
  BY <1>8, <1>b, <1>c DEF MarkCommit
<1>9. ASSUME NEW w \in Workers, MarkSucceededError(w) PROVE Retryable'
  BY <1>5, <1>9, <1>b, <1>c DEF MarkSucceededError
<1>10. ASSUME NEW w \in Workers, HeartbeatStep(w) \/ Sigterm(w) PROVE Retryable'
  BY <1>10, <1>a
  DEF HeartbeatStep, Heartbeat, HeartbeatMessageOnly, HeartbeatRowOnly, HeartbeatCommit,
      CommitLease, Sigterm
<1>11. ASSUME NEW m \in Msgs, DeadLetter(m) \/ DlqExpire(m) PROVE Retryable'
  BY <1>11, <1>a DEF DeadLetter, DlqExpire
<1>12. ASSUME Tick \/ UNCHANGED vars PROVE Retryable'
  BY <1>12, <1>a DEF Tick, RowsTick, vars
<1> QED
  BY <1>1, <1>2, <1>3, <1>4, <1>5, <1>6, <1>7, <1>8, <1>9, <1>10, <1>11, <1>12
  DEF Next, ProcessStep

LEMMA RetryableInvariant == ASSUME Timely PROVE Spec => []Retryable
<1>1. Init => Retryable
  BY DEF Init, RowsInit, Retryable, FailedIsRetryable
<1> QED
  BY <1>1, Typed, ExclusionInvariant, RetryableNext, PTL DEF Spec

\* While heartbeats are in time a failed row has an attempt left: it can be
\* claimed again.
THEOREM FailureIsRetryable == ASSUME Timely PROVE Spec => []FailedIsRetryable
<1>1. Retryable => FailedIsRetryable
  BY DEF Retryable
<1> QED
  BY <1>1, RetryableInvariant, PTL

\* Why a message is delivered to one process at a time: while a process holds
\* it, it is invisible (or already deleted), for longer than the process may
\* wait until its next heartbeat.
HeldInvisible ==
  \A w \in Workers : held[w] # NoMsg =>
    /\ vis[held[w]] + since[w] >= Visibility \/ msgState[held[w]] = "free"
    /\ \A v \in Workers \ {w} : held[v] # held[w]

LEMMA HeldUnseen ==
  ASSUME Timely, TypeOK, HeldInvisible, NEW w \in Workers, held[w] # NoMsg
  PROVE  held[w] \in Msgs /\ ~Visible(held[w])
<1>1. /\ held[w] \in Msgs /\ since[w] \in 0..Grace /\ Grace \in Nat /\ Grace < Visibility
      /\ Visibility \in Nat
  BY WorkerAssumption, QueueAssumption DEF TypeOK
<1>2. vis[held[w]] + since[w] >= Visibility => vis[held[w]] # 0
  BY <1>1
<1> QED
  BY <1>1, <1>2 DEF HeldInvisible, Visible

LEMMA HeldNext ==
  ASSUME Timely
  PROVE TypeOK /\ Carries /\ HeldInvisible /\ [Next]_vars => HeldInvisible'
<1> SUFFICES ASSUME TypeOK, Carries, HeldInvisible, [Next]_vars PROVE HeldInvisible'
  OBVIOUS
<1> USE DEF rowVars, queueVars, procVars
<1>1. ASSUME UNCHANGED <<held, vis, msgState, since>> PROVE HeldInvisible'
  BY <1>1 DEF HeldInvisible
<1>a. ASSUME NEW w \in Workers, LetGo(w),
             \A m \in Msgs : m # held[w] => vis'[m] = vis[m] /\ msgState'[m] = msgState[m]
      PROVE  HeldInvisible'
  <2>1. /\ held'[w] = NoMsg
        /\ \A v \in Workers \ {w} : held'[v] = held[v] /\ since'[v] = since[v]
    BY <1>a DEF LetGo, TypeOK
  <2> QED
    BY <1>a, <2>1 DEF HeldInvisible, TypeOK
<1>2. ASSUME NEW j \in Jobs, SubmitStep(j) PROVE HeldInvisible'
  BY <1>2
  DEF SubmitStep, SubmitCommit, SubmitEnqueue, SubmitLost, DeleteJob, Send, Enqueue,
      HeldInvisible, TypeOK, QueueTypeOK
<1>3. ASSUME NEW w \in Workers, ReconcileStep(w) PROVE HeldInvisible'
  BY <1>3
  DEF ReconcileStep, ReconcileRead, ReconcileSend, ReconcileError, Send, Enqueue,
      HeldInvisible, TypeOK, QueueTypeOK
<1>4. ASSUME NEW w \in Workers, NEW m \in Msgs, Receive(w, m) PROVE HeldInvisible'
  <2>1. \A v \in Workers : held[v] # m
    BY <1>4, HeldUnseen, WorkerAssumption DEF Receive, Deliver
  <2>2. /\ held' = [held EXCEPT ![w] = m] /\ vis' = [vis EXCEPT ![m] = Visibility]
        /\ UNCHANGED <<msgState, since>>
    BY <1>4 DEF Receive, Deliver
  <2>3. since[w] \in Nat /\ Visibility + since[w] >= Visibility
    BY WorkerAssumption, QueueAssumption DEF TypeOK
  <2> QED
    BY <2>1, <2>2, <2>3 DEF HeldInvisible, TypeOK, QueueTypeOK
<1>5. ASSUME NEW w \in Workers, ReturnOnDrain(w) PROVE HeldInvisible'
  <2>1. /\ LetGo(w) /\ msgState' = msgState
        /\ UNCHANGED vis \/ vis' = [vis EXCEPT ![held[w]] = 0]
    BY <1>5 DEF ReturnOnDrain, ExtendVisibility, Replace
  <2> QED
    BY <2>1, <1>a DEF TypeOK, QueueTypeOK
<1>6. ASSUME NEW w \in Workers,
             \/ ProcessUnknown(w) \/ ClaimJob(w) \/ ClaimRefused(w) \/ HandlerReturns(w)
             \/ MarkRead(w) \/ MarkSucceededError(w) \/ Sigterm(w)
      PROVE HeldInvisible'
  BY <1>6, <1>1
  DEF ProcessUnknown, ClaimJob, ClaimRefused, HandlerReturns, WorkDone, PermanentFailure,
      TransientFailure, MarkRead, MarkSucceededError, Goto, Sigterm
<1>b. ASSUME NEW w \in Workers, AfterMark(w), UNCHANGED queueVars PROVE HeldInvisible'
  BY <1>a, <1>b, <1>1 DEF AfterMark, Loop, Goto
<1>c. ASSUME NEW w \in Workers, Die(w) PROVE HeldInvisible'
  BY <1>a, <1>c DEF Die, Replace
<1>15. ASSUME NEW w \in Workers, MarkNothing(w) \/ MarkCommit(w) \/ MarkMissed(w)
       PROVE HeldInvisible'
  BY <1>15, <1>b, <1>c, <1>1 DEF MarkNothing, MarkCommit, MarkMissed, Goto
<1>7. ASSUME NEW w \in Workers, Ack(w) PROVE HeldInvisible'
  <2>1. /\ LetGo(w)
        /\ \/ UNCHANGED <<vis, msgState>>
           \/ /\ vis' = [vis EXCEPT ![held[w]] = 0]
              /\ msgState' = [msgState EXCEPT ![held[w]] = "free"]
    BY <1>7 DEF Ack, AckMessage, DeleteMessage, Release, Loop
  <2> QED
    BY <2>1, <1>a DEF TypeOK, QueueTypeOK
<1>8. ASSUME NEW w \in Workers, AckError(w) PROVE HeldInvisible'
  BY <1>8, <1>1 DEF AckError, DeleteMessage, Release, Goto, HeldInvisible, TypeOK, QueueTypeOK
<1>9. ASSUME NEW w \in Workers, DrainedExit(w) \/ Crash(w) PROVE HeldInvisible'
  BY <1>9, <1>a, <1>c DEF DrainedExit, Crash, Replace
<1>10. ASSUME NEW w \in Workers, HeartbeatStep(w) PROVE HeldInvisible'
  <2>1. /\ UNCHANGED <<held, msgState>>
        /\ \/ UNCHANGED <<vis, since>>
           \/ /\ held[w] \in Msgs /\ vis' = [vis EXCEPT ![held[w]] = Visibility]
              /\ since' = since \/ since' = [since EXCEPT ![w] = 0]
    BY <1>10 DEF HeartbeatStep, Heartbeat, HeartbeatMessageOnly, HeartbeatRowOnly,
       HeartbeatCommit, ExtendVisibility, Carries, TryPCs
  <2>2. since'[w] \in Nat /\ Visibility + since'[w] >= Visibility
    BY <2>1, WorkerAssumption, QueueAssumption DEF TypeOK
  <2>3. ASSUME NEW v \in Workers, held[v] # NoMsg
        PROVE  vis'[held[v]] + since'[v] >= Visibility \/ msgState[held[v]] = "free"
    <3>1. CASE v # w
      <4>1. held[v] # held[w] /\ held[v] \in Msgs
        BY <2>3, <3>1 DEF HeldInvisible, TypeOK
      <4>2. vis'[held[v]] = vis[held[v]] /\ since'[v] = since[v]
        BY <2>1, <3>1, <4>1 DEF TypeOK, QueueTypeOK
      <4> QED
        BY <2>3, <4>2 DEF HeldInvisible
    <3>2. CASE v = w /\ UNCHANGED <<vis, since>>
      BY <2>3, <3>2 DEF HeldInvisible
    <3>3. CASE v = w /\ held[w] \in Msgs /\ vis' = [vis EXCEPT ![held[w]] = Visibility]
      <4>1. vis'[held[w]] = Visibility
        BY <3>3 DEF TypeOK, QueueTypeOK
      <4> QED
        BY <2>2, <3>3, <4>1
    <3> QED
      BY <2>1, <3>1, <3>2, <3>3
  <2> QED
    BY <2>1, <2>3 DEF HeldInvisible
<1>11. ASSUME NEW m \in Msgs, DeadLetter(m) PROVE HeldInvisible'
  <2>1. \A w \in Workers : held[w] # m
    BY <1>11, HeldUnseen, WorkerAssumption DEF DeadLetter, MoveToDlq
  <2>2. UNCHANGED <<held, vis, since>> /\ msgState' = [msgState EXCEPT ![m] = "dead"]
    BY <1>11 DEF DeadLetter, MoveToDlq
  <2> QED
    BY <2>1, <2>2 DEF HeldInvisible, TypeOK, QueueTypeOK
<1>12. ASSUME NEW m \in Msgs, DlqExpire(m) PROVE HeldInvisible'
  BY <1>12 DEF DlqExpire, DlqRetentionOver, Release, HeldInvisible, TypeOK, QueueTypeOK
<1>13. ASSUME Tick PROVE HeldInvisible'
  <2>1. UNCHANGED <<held, msgState>> /\ InTime
    BY <1>13 DEF Tick, QueueTick
  <2>2. ASSUME NEW w \in Workers, held[w] # NoMsg, vis[held[w]] + since[w] >= Visibility
        PROVE  vis'[held[w]] + since'[w] >= Visibility
    <3>1. /\ held[w] \in Msgs /\ since[w] \in Nat /\ since[w] < Grace /\ Grace \in Nat
          /\ Grace < Visibility /\ Visibility \in Nat /\ vis[held[w]] \in Nat
      BY <2>1, <2>2, WorkerAssumption, QueueAssumption DEF InTime, TypeOK, QueueTypeOK
    <3>2. vis[held[w]] > 0
      BY <2>2, <3>1
    <3>3. vis'[held[w]] = vis[held[w]] - 1 /\ since'[w] = since[w] + 1
      BY <1>13, <2>2, <3>1, <3>2 DEF Tick, QueueTick
    <3> QED
      BY <2>2, <3>1, <3>3
  <2> QED
    BY <2>1, <2>2 DEF HeldInvisible
<1>14. ASSUME UNCHANGED vars PROVE HeldInvisible'
  BY <1>14, <1>1 DEF vars
<1> QED
  BY <1>2, <1>3, <1>4, <1>5, <1>6, <1>7, <1>8, <1>9, <1>10, <1>11, <1>12, <1>13, <1>14,
     <1>15
  DEF Next, ProcessStep

LEMMA HeldInvariant == ASSUME Timely PROVE Spec => []HeldInvisible
<1>1. Init => HeldInvisible
  BY DEF Init, HeldInvisible
<1> QED
  BY <1>1, Typed, HeldNext, PTL DEF Spec

\* While heartbeats are in time no message is in the hands of two processes:
\* an extension is for longer than the wait until the next one.
THEOREM DeliveryIsExclusive == ASSUME Timely PROVE Spec => []NoDoubleDelivery
<1>1. HeldInvisible => NoDoubleDelivery
  BY DEF HeldInvisible, NoDoubleDelivery
<1> QED
  BY <1>1, HeldInvariant, PTL

-----------------------------------------------------------------------------
(* The contract with the submitter: timely executions without late errors    *)
(* refine JobContract.                                                        *)

\* Nothing the submitter can see changes.
LEMMA Unseen ==
  ASSUME UNCHANGED <<status, attempt>>,
         \A w \in Workers : /\ Executing(w)' <=> Executing(w)
                            /\ Executing(w) => job'[w] = job[w]
  PROVE UNCHANGED <<PhaseBar, BudgetBar, CrewBar>>
<1>1. \A j \in Jobs : Phase(j)' = Phase(j)
  BY DEF Phase
<1>2. \A j \in Jobs : {w \in Workers : Executing(w) /\ job[w] = j}'
                        = {w \in Workers : Executing(w) /\ job[w] = j}
  OBVIOUS
<1> QED
  BY <1>1, <1>2 DEF PhaseBar, BudgetBar, CrewBar

\* A status changes and nobody starts or stops working.
LEMMA SeenPhase ==
  ASSUME TypeOK, NEW j \in Jobs, NEW outcome \in Statuses,
         status' = [status EXCEPT ![j] = outcome], UNCHANGED attempt,
         \A w \in Workers : /\ Executing(w)' <=> Executing(w)
                            /\ Executing(w) => job'[w] = job[w]
  PROVE /\ PhaseBar' = [PhaseBar EXCEPT ![j] = Phase(j)']
        /\ UNCHANGED <<BudgetBar, CrewBar>>
<1>1. \A i \in Jobs : i # j => Phase(i)' = Phase(i)
  BY DEF Phase, TypeOK, RowsTypeOK
<1>2. \A i \in Jobs : {w \in Workers : Executing(w) /\ job[w] = i}'
                        = {w \in Workers : Executing(w) /\ job[w] = i}
  OBVIOUS
<1> QED
  BY <1>1, <1>2 DEF PhaseBar, BudgetBar, CrewBar

\* w stops working on its job; the others go on.
LEMMA SeenLeaving ==
  ASSUME NEW w \in Workers, Executing(w), ~Executing(w)',
         \A v \in Workers \ {w} : pc'[v] = pc[v] /\ job'[v] = job[v]
  PROVE CrewBar' = [CrewBar EXCEPT ![job[w]] = @ \ {w}]
<1>1. \A j \in Jobs : j # job[w] =>
        {v \in Workers : Executing(v) /\ job[v] = j}'
          = {v \in Workers : Executing(v) /\ job[v] = j}
  BY DEF Executing
<1>2. \A j \in Jobs : j = job[w] =>
        {v \in Workers : Executing(v)' /\ job'[v] = j}
          = {v \in Workers : Executing(v) /\ job[v] = j} \ {w}
  BY DEF Executing
<1>3. \A j \in Jobs :
        {v \in Workers : Executing(v)' /\ job'[v] = j}
          = IF j = job[w] THEN CrewBar[j] \ {w} ELSE CrewBar[j]
  BY <1>1, <1>2 DEF CrewBar
<1>4. CrewBar' = [j \in Jobs |-> IF j = job[w] THEN CrewBar[j] \ {w} ELSE CrewBar[j]]
  BY <1>3 DEF CrewBar
<1>5. CrewBar = [j \in Jobs |-> CrewBar[j]]
  BY DEF CrewBar
<1> HIDE DEF CrewBar
<1> QED BY <1>4, <1>5

\* In a timely execution the process at work is the whole crew of its job.
LEMMA LoneCrew ==
  ASSUME Carries, Exclusion, NEW w \in Workers, Executing(w)
  PROVE job[w] \in Jobs /\ CrewBar[job[w]] = {w}
  BY DEF Carries, Exclusion, OneAttempt, Executing, TryPCs, CrewBar

ContractStep == [Contract!Next]_(Contract!contractVars)

LEMMA UnseenStep ==
  ASSUME UNCHANGED <<PhaseBar, BudgetBar, CrewBar>> PROVE ContractStep
  BY DEF ContractStep, Contract!contractVars

\* A process stops working on its job and leaves the row as it is.
LEMMA AbandonStep ==
  ASSUME Carries, Exclusion, NEW w \in Workers, Executing(w), ~Executing(w)',
         \A v \in Workers \ {w} : pc'[v] = pc[v] /\ job'[v] = job[v],
         UNCHANGED <<status, attempt>>
  PROVE  ContractStep
<1>1. CrewBar' = [CrewBar EXCEPT ![job[w]] = @ \ {w}]
  BY SeenLeaving
<1>2. PhaseBar' = PhaseBar /\ BudgetBar' = BudgetBar
  BY DEF PhaseBar, Phase, BudgetBar
<1>3. job[w] \in Jobs /\ CrewBar[job[w]] = {w}
  BY LoneCrew
<1>4. Contract!Abandon(job[w], w)
  BY <1>1, <1>2, <1>3 DEF Contract!Abandon
<1> QED
  BY <1>3, <1>4 DEF ContractStep, Contract!Next

\* An attempt ends with the outcome it was given.
LEMMA SettleStep ==
  ASSUME TypeOK, Carries, Exclusion, NEW w \in Workers, Executing(w), ~Executing(w)',
         \A v \in Workers \ {w} : pc'[v] = pc[v] /\ job'[v] = job[v],
         status[job[w]] = "running", NEW outcome \in {"succeeded", "failed", "dead"},
         status' = [status EXCEPT ![job[w]] = outcome], UNCHANGED attempt
  PROVE ContractStep
<1> DEFINE j == job[w]
<1>1. j \in Jobs /\ CrewBar[j] = {w}
  BY LoneCrew
<1>2. CrewBar' = [CrewBar EXCEPT ![j] = {}]
  <2>1. CrewBar[j] \ {w} = {}
    BY <1>1
  <2>2. CrewBar' = [CrewBar EXCEPT ![j] = CrewBar[j] \ {w}]
    BY SeenLeaving
  <2> QED
    BY <2>1, <2>2
<1>3. BudgetBar' = BudgetBar
  BY DEF BudgetBar
<1>4. PhaseBar[j] = "open"
  BY <1>1 DEF PhaseBar, Phase
<1>5. PhaseBar' = [PhaseBar EXCEPT ![j] = IF outcome = "failed" THEN "open" ELSE outcome]
  BY <1>1 DEF PhaseBar, Phase, TypeOK, RowsTypeOK
<1>6. CASE outcome = "failed"
  <2>1. PhaseBar' = PhaseBar
    BY <1>1, <1>4, <1>5, <1>6 DEF PhaseBar
  <2>2. CrewBar' = [CrewBar EXCEPT ![j] = @ \ {w}]
    BY <1>1, <1>2
  <2>3. Contract!Abandon(j, w)
    BY <1>1, <1>3, <2>1, <2>2 DEF Contract!Abandon
  <2> QED
    BY <1>1, <2>3 DEF ContractStep, Contract!Next
<1>7. CASE outcome # "failed"
  <2>1. Contract!Finish(j, w, outcome)
    BY <1>1, <1>2, <1>3, <1>4, <1>5, <1>7 DEF Contract!Finish
  <2> QED
    BY <1>1, <1>7, <2>1 DEF ContractStep, Contract!Next
<1> QED
  BY <1>6, <1>7

\* The row of a kind nobody can handle is marked dead.
LEMMA RejectStep ==
  ASSUME TypeOK, Carries, Exclusion, NEW w \in Workers, pc[w] = "rejecting",
         status' = status \/ status' = [status EXCEPT ![job[w]] = "dead"],
         Exists(job[w]), UNCHANGED <<attempt, job>>,
         \A v \in Workers : Executing(v)' <=> Executing(v)
  PROVE  ContractStep
<1>1. job[w] \in Jobs /\ job[w] \in Unknown
  BY DEF Carries, Exclusion, Owns
<1>2. CrewBar[job[w]] = {}
  BY <1>1 DEF CrewBar, Executing, Exclusion, Owns, TryPCs
<1>3. status[job[w]] \in {"queued", "dead"}
  BY <1>1 DEF Exclusion, UnknownUnclaimed, TypeOK, RowsTypeOK, Statuses, Exists
<1>4. CASE UNCHANGED status
  BY <1>4, Unseen, UnseenStep
<1>5. CASE status' = [status EXCEPT ![job[w]] = "dead"] /\ status[job[w]] = "dead"
  <2>1. UNCHANGED status
    BY <1>1, <1>5 DEF TypeOK, RowsTypeOK
  <2> QED
    BY <2>1, Unseen, UnseenStep
<1>6. CASE status' = [status EXCEPT ![job[w]] = "dead"] /\ status[job[w]] = "queued"
  <2>1. /\ PhaseBar' = [PhaseBar EXCEPT ![job[w]] = Phase(job[w])']
        /\ UNCHANGED <<BudgetBar, CrewBar>>
    BY <1>1, <1>6, SeenPhase DEF Statuses
  <2>2. PhaseBar[job[w]] = "open" /\ Phase(job[w])' = "dead"
    BY <1>1, <1>6 DEF PhaseBar, Phase, TypeOK, RowsTypeOK
  <2>3. Contract!Reject(job[w])
    BY <1>2, <2>1, <2>2 DEF Contract!Reject
  <2> QED
    BY <1>1, <2>3 DEF ContractStep, Contract!Next
<1> QED
  BY <1>3, <1>4, <1>5, <1>6

LEMMA ContractNext ==
  ASSUME Timely, ~LateErrors
  PROVE TypeOK /\ Carries /\ Exclusion /\ [Next]_vars => ContractStep
<1> SUFFICES ASSUME TypeOK, Carries, Exclusion, [Next]_vars PROVE ContractStep
  OBVIOUS
<1> USE DEF rowVars, queueVars, procVars
<1>1. ASSUME NEW j \in Jobs, SubmitCommit(j) PROVE ContractStep
  <2>1. /\ status' = [status EXCEPT ![j] = "queued"] /\ UNCHANGED <<attempt, pc, job>>
        /\ status[j] = "none"
    BY <1>1 DEF SubmitCommit, InsertRow
  <2>2. /\ PhaseBar' = [PhaseBar EXCEPT ![j] = Phase(j)']
        /\ UNCHANGED <<BudgetBar, CrewBar>>
    BY <2>1, SeenPhase DEF Statuses, Executing
  <2>3. PhaseBar[j] = "absent" /\ Phase(j)' = "open"
    BY <2>1 DEF PhaseBar, Phase, TypeOK, RowsTypeOK
  <2>4. Contract!Accept(j)
    BY <2>2, <2>3 DEF Contract!Accept
  <2> QED
    BY <2>4 DEF ContractStep, Contract!Next
<1>2. ASSUME NEW j \in Jobs, DeleteJob(j) PROVE ContractStep
  <2>1. /\ status' = [status EXCEPT ![j] = "deleted"] /\ UNCHANGED <<attempt, pc, job>>
        /\ Exists(j)
    BY <1>2 DEF DeleteJob, DeleteRow
  <2>2. /\ PhaseBar' = [PhaseBar EXCEPT ![j] = Phase(j)']
        /\ UNCHANGED <<BudgetBar, CrewBar>>
    BY <2>1, SeenPhase DEF Statuses, Executing
  <2>3. PhaseBar[j] \in {"open", "succeeded", "dead"} /\ Phase(j)' = "deleted"
    BY <2>1 DEF PhaseBar, Phase, TypeOK, RowsTypeOK, Statuses, Exists
  <2>4. Contract!Delete(j)
    BY <2>2, <2>3 DEF Contract!Delete
  <2> QED
    BY <2>4 DEF ContractStep, Contract!Next
<1>4. ASSUME NEW w \in Workers, ClaimJob(w) PROVE ContractStep
  <2> DEFINE j == job[w]
  <2>1. /\ j \in Jobs /\ pc[w] = "got" /\ Claimable(j)
        /\ pc' = [pc EXCEPT ![w] = "running"] /\ job' = job
        /\ status' = [status EXCEPT ![j] = "running"]
        /\ attempt' = [attempt EXCEPT ![j] = @ + 1]
    BY <1>4 DEF ClaimJob, Carries, Take, Goto
  <2>2. \A v \in Workers : Executing(v) => job[v] # j
    BY <2>1, BusyNotClaimable DEF Executing, TryPCs
  <2>3. CrewBar[j] = {} /\ CrewBar' = [CrewBar EXCEPT ![j] = {w}]
    <3>1. \A v \in Workers : Executing(v)' <=> Executing(v) \/ v = w
      BY <2>1 DEF Executing, TypeOK
    <3>2. \A i \in Jobs : i # j =>
            {v \in Workers : Executing(v) /\ job[v] = i}'
              = {v \in Workers : Executing(v) /\ job[v] = i}
      BY <2>1, <3>1
    <3>3. \A i \in Jobs : i = j =>
            {v \in Workers : Executing(v) /\ job[v] = i}' = {w}
      BY <2>1, <2>2, <3>1
    <3>4. CrewBar' = [CrewBar EXCEPT ![j] = {w}]
      BY <2>1, <3>2, <3>3 DEF CrewBar
    <3>5. CrewBar[j] = {}
      BY <2>1, <2>2 DEF CrewBar
    <3> QED
      BY <3>4, <3>5
  <2>4. PhaseBar[j] = "open" /\ PhaseBar' = PhaseBar
    BY <2>1 DEF PhaseBar, Phase, Claimable, TypeOK, RowsTypeOK
  <2>5. BudgetBar[j] > 0 /\ BudgetBar' = [BudgetBar EXCEPT ![j] = @ - 1]
    <3>1. attempt[j] \in Nat /\ attempt[j] < MaxAttempts /\ MaxAttempts \in Nat
      BY <2>1, RowsAssumption DEF Claimable, TypeOK, RowsTypeOK
    <3>2. /\ MaxAttempts - (attempt[j] + 1) = (MaxAttempts - attempt[j]) - 1
          /\ MaxAttempts - attempt[j] > 0
      BY <3>1
    <3>3. \A i \in Jobs : attempt'[i] = IF i = j THEN attempt[j] + 1 ELSE attempt[i]
      BY <2>1 DEF TypeOK, RowsTypeOK
    <3> QED
      BY <2>1, <3>2, <3>3 DEF BudgetBar
  <2>6. Contract!Begin(j, w)
    BY <2>3, <2>4, <2>5 DEF Contract!Begin
  <2> QED
    BY <2>1, <2>6 DEF ContractStep, Contract!Next
<1>a. ASSUME NEW w \in Workers, LetGo(w) \/ AfterMark(w) \/ (\E next : Goto(w, next))
      PROVE  \A v \in Workers \ {w} : pc'[v] = pc[v] /\ job'[v] = job[v]
  BY <1>a DEF AfterMark, Loop, LetGo, Goto, TypeOK
<1>5. ASSUME NEW w \in Workers, AfterMark(w), UNCHANGED <<status, attempt>> PROVE ContractStep
  <2>1. pc[w] \in MarkPCs /\ ~Executing(w)'
    BY <1>5, AfterMarkShape DEF Executing, TypeOK, MarkPCs
  <2>2. CASE Executing(w)
    BY <1>5, <1>a, <2>1, <2>2, AbandonStep
  <2>3. CASE ~Executing(w)
    <3>1. \A v \in Workers : /\ Executing(v)' <=> Executing(v)
                             /\ Executing(v) => job'[v] = job[v]
      BY <1>5, <1>a, <2>1, <2>3 DEF Executing
    <3> QED
      BY <1>5, <3>1, Unseen, UnseenStep
  <2> QED
    BY <2>2, <2>3
<1>6. ASSUME NEW w \in Workers, Die(w) PROVE ContractStep
  <2>1. UNCHANGED <<status, attempt>> /\ LetGo(w) /\ ~Executing(w)'
    BY <1>6 DEF Die, Replace, LetGo, Executing, TypeOK
  <2>2. CASE Executing(w)
    BY <1>a, <2>1, <2>2, AbandonStep
  <2>3. CASE ~Executing(w)
    <3>1. \A v \in Workers : /\ Executing(v)' <=> Executing(v)
                             /\ Executing(v) => job'[v] = job[v]
      BY <1>a, <2>1, <2>3 DEF Executing
    <3> QED
      BY <2>1, <3>1, Unseen, UnseenStep
  <2> QED
    BY <2>2, <2>3
<1>7. ASSUME NEW w \in Workers, MarkCommit(w) PROVE ContractStep
  <2>1. /\ write[w] # NoWrite /\ CommitMark(job[w], write[w]) /\ AfterMark(w)
        /\ Exists(job[w]) /\ UNCHANGED attempt
    BY <1>7 DEF MarkCommit, CommitMark
  <2>2. pc[w] \in MarkPCs /\ ~Executing(w)'
    BY <2>1, AfterMarkShape DEF Executing, TypeOK, MarkPCs
  <2>3. CASE pc[w] \in {"finishing", "burying", "failing"}
    <3>1. /\ status[job[w]] = "running" /\ status' = [status EXCEPT ![job[w]] = write[w].to]
          /\ write[w].to \in {"succeeded", "failed", "dead"}
      BY <2>1, <2>3, CommitOwn
    <3>2. Executing(w)
      BY <2>3 DEF Executing
    <3> QED
      BY <1>a, <2>1, <2>2, <3>1, <3>2, SettleStep
  <2>4. CASE pc[w] = "rejecting"
    <3>1. /\ write[w].to = "dead"
          /\ status' = status \/ status' = [status EXCEPT ![job[w]] = write[w].to]
      BY <2>1, <2>4, CommitOwn DEF Carries
    <3>2. job' = job /\ \A v \in Workers : Executing(v)' <=> Executing(v)
      BY <1>a, <2>1, <2>2, <2>4, AfterMarkShape DEF Executing
    <3> QED
      BY <2>1, <2>4, <3>1, <3>2, RejectStep
  <2> QED
    BY <2>2, <2>3, <2>4 DEF MarkPCs
<1>8. ASSUME NEW w \in Workers, Crash(w) PROVE ContractStep
  BY <1>6, <1>8 DEF Crash
<1>9. ASSUME UNCHANGED <<status, attempt>>,
             \A w \in Workers : /\ Executing(w)' <=> Executing(w)
                                /\ Executing(w) => job'[w] = job[w]
      PROVE ContractStep
  BY <1>9, Unseen, UnseenStep
<1>10. ASSUME NEW j \in Jobs, SubmitEnqueue(j) \/ SubmitLost(j) PROVE ContractStep
  BY <1>10, <1>9 DEF SubmitEnqueue, SubmitLost, Executing
<1>11. ASSUME NEW w \in Workers, ReconcileStep(w) PROVE ContractStep
  BY <1>11, <1>9
  DEF ReconcileStep, ReconcileRead, ReconcileSend, ReconcileError, Executing, TypeOK
<1>12. ASSUME NEW w \in Workers, NEW m \in Msgs, Receive(w, m) PROVE ContractStep
  BY <1>12, <1>9 DEF Receive, Executing, TypeOK
<1>13. ASSUME NEW w \in Workers, ReturnOnDrain(w) \/ DrainedExit(w) PROVE ContractStep
  <2>1. /\ UNCHANGED <<status, attempt>> /\ pc' = [pc EXCEPT ![w] = "idle"]
        /\ job' = [job EXCEPT ![w] = NoJob] /\ pc[w] \in {"got", "idle"}
    BY <1>13 DEF ReturnOnDrain, DrainedExit, Replace, LetGo
  <2> QED
    BY <2>1, <1>9 DEF Executing, TypeOK
<1>14. ASSUME NEW w \in Workers,
              ProcessUnknown(w) \/ ClaimRefused(w) \/ HandlerReturns(w) \/ MarkRead(w)
       PROVE ContractStep
  BY <1>14, <1>9
  DEF ProcessUnknown, ClaimRefused, HandlerReturns, WorkDone, PermanentFailure,
      TransientFailure, MarkRead, Goto, Executing, TypeOK
<1>20. ASSUME NEW w \in Workers,
              \/ MarkSucceededError(w)
              \/ pc[w] = "finishing" /\ Goto(w, "failing") /\ UNCHANGED rowVars
       PROVE ContractStep
  BY <1>20, <1>9 DEF MarkSucceededError, Goto, Executing, TypeOK
<1>21. ASSUME NEW w \in Workers, MarkNothing(w) \/ MarkMissed(w) PROVE ContractStep
  BY <1>5, <1>6, <1>20, <1>21 DEF MarkNothing, MarkMissed
<1>15. ASSUME NEW w \in Workers, Ack(w) PROVE ContractStep
  <2>1. /\ UNCHANGED <<status, attempt>> /\ pc' = [pc EXCEPT ![w] = "idle"]
        /\ job' = [job EXCEPT ![w] = NoJob] /\ pc[w] \in {"acking", "dropping"}
    BY <1>15 DEF Ack, Loop, LetGo
  <2> QED
    BY <2>1, <1>9 DEF Executing, TypeOK
<1>16. ASSUME NEW w \in Workers, HeartbeatStep(w) \/ Sigterm(w) PROVE ContractStep
  BY <1>16, <1>9
  DEF HeartbeatStep, Heartbeat, HeartbeatMessageOnly, HeartbeatRowOnly, HeartbeatCommit,
      CommitLease, Sigterm, Executing
<1>17. ASSUME NEW m \in Msgs, DeadLetter(m) \/ DlqExpire(m) PROVE ContractStep
  BY <1>17, <1>9 DEF DeadLetter, DlqExpire, Executing
<1>18. ASSUME Tick \/ UNCHANGED vars PROVE ContractStep
  BY <1>18, <1>9 DEF Tick, RowsTick, vars, Executing
<1>19. ASSUME NEW w \in Workers PROVE ~AckError(w)
  BY DEF AckError
<1> QED
  BY <1>1, <1>2, <1>4, <1>7, <1>8, <1>10, <1>11, <1>12, <1>13, <1>14, <1>15, <1>16, <1>17,
     <1>18, <1>19, <1>20, <1>21
  DEF Next, SubmitStep, ProcessStep

\* The system keeps its contract with the submitter: one process at a time,
\* at most MaxAttempts attempts, and a final outcome.
THEOREM ContractKept == ASSUME Timely, ~LateErrors PROVE Spec => ImplementsContract
<1>1. Init => Contract!Init
  <2>1. ASSUME Init PROVE PhaseBar = [j \in Jobs |-> "absent"]
    BY <2>1 DEF Init, RowsInit, PhaseBar, Phase
  <2>2. ASSUME Init PROVE BudgetBar = [j \in Jobs |-> MaxAttempts]
    BY <2>2, RowsAssumption DEF Init, RowsInit, BudgetBar
  <2>3. ASSUME Init PROVE CrewBar = [j \in Jobs |-> {}]
    BY <2>3 DEF Init, CrewBar, Executing
  <2> QED
    BY <2>1, <2>2, <2>3 DEF Contract!Init
<1>2. TypeOK /\ Carries /\ Exclusion /\ [Next]_vars => [Contract!Next]_(Contract!contractVars)
  BY ContractNext DEF ContractStep
<1> QED
  BY <1>1, <1>2, Typed, ExclusionInvariant, PTL DEF Spec, ImplementsContract, Contract!Spec

-----------------------------------------------------------------------------
(* An outcome is final.                                                       *)

Outcomes == \A j \in Jobs : status[j] \in Terminal => status'[j] \in {status[j], "deleted"}

LEMMA OutcomesKept ==
  ASSUME Timely, ~LateErrors, TypeOK, Carries, Exclusion, [Next]_vars
  PROVE  Outcomes
<1> USE DEF rowVars, queueVars, procVars
<1>1. ASSUME UNCHANGED status PROVE Outcomes
  BY <1>1 DEF Outcomes
<1>2. ASSUME NEW j \in Jobs, SubmitCommit(j) \/ DeleteJob(j) PROVE Outcomes
  BY <1>2 DEF SubmitCommit, InsertRow, DeleteJob, DeleteRow, Outcomes, Terminal,
     TypeOK, RowsTypeOK
<1>3. ASSUME NEW w \in Workers, ClaimJob(w) PROVE Outcomes
  BY <1>3 DEF ClaimJob, Claimable, Take, Outcomes, Terminal, TypeOK, RowsTypeOK
<1>4. ASSUME NEW w \in Workers, MarkCommit(w) PROVE Outcomes
  <2>1. write[w] # NoWrite /\ CommitMark(job[w], write[w])
    BY <1>4 DEF MarkCommit
  <2>2. CASE pc[w] \in {"finishing", "burying", "failing"}
    <3>1. /\ job[w] \in Jobs /\ status[job[w]] = "running"
          /\ status' = [status EXCEPT ![job[w]] = write[w].to]
      BY <2>1, <2>2, CommitOwn
    <3> QED
      BY <3>1 DEF Outcomes, Terminal, TypeOK, RowsTypeOK
  <2>3. CASE pc[w] = "rejecting"
    <3>1. job[w] \in Jobs /\ job[w] \in Unknown /\ write[w].to = "dead"
      BY <2>1, <2>3 DEF Carries, Exclusion, Owns
    <3>2. status[job[w]] \notin Terminal \/ status[job[w]] = "dead"
      BY <3>1 DEF Exclusion, UnknownUnclaimed, Terminal
    <3> QED
      BY <2>1, <3>1, <3>2, CommitOwn DEF Outcomes, Terminal, TypeOK, RowsTypeOK
  <2> QED
    BY <2>1, <2>2, <2>3 DEF Carries
<1>5. ASSUME NEW w \in Workers, MarkNothing(w) \/ MarkMissed(w) PROVE Outcomes
  BY <1>5, <1>1 DEF MarkNothing, MarkMissed, Die
<1>8. ASSUME NEW j \in Jobs, SubmitEnqueue(j) \/ SubmitLost(j) PROVE Outcomes
  BY <1>8, <1>1 DEF SubmitEnqueue, SubmitLost
<1>9. ASSUME NEW w \in Workers,
             \/ ReconcileStep(w) \/ ReturnOnDrain(w) \/ ProcessUnknown(w) \/ ClaimRefused(w)
             \/ HandlerReturns(w) \/ MarkRead(w) \/ MarkSucceededError(w) \/ Ack(w)
             \/ AckError(w)
      PROVE Outcomes
  BY <1>9, <1>1 DEF ReconcileStep, ReconcileRead, ReconcileSend, ReconcileError,
     ReturnOnDrain, ProcessUnknown, ClaimRefused, HandlerReturns, WorkDone,
     PermanentFailure, TransientFailure, MarkRead, MarkSucceededError, Ack, AckError
<1>10. ASSUME NEW w \in Workers,
              HeartbeatStep(w) \/ Sigterm(w) \/ DrainedExit(w) \/ Crash(w)
       PROVE Outcomes
  BY <1>10, <1>1 DEF HeartbeatStep, Heartbeat, HeartbeatMessageOnly, HeartbeatRowOnly,
     HeartbeatCommit, CommitLease, Sigterm, DrainedExit, Crash, Die
<1>11. ASSUME NEW w \in Workers, NEW m \in Msgs, Receive(w, m) PROVE Outcomes
  BY <1>11, <1>1 DEF Receive
<1>12. ASSUME NEW m \in Msgs, DeadLetter(m) \/ DlqExpire(m) PROVE Outcomes
  BY <1>12, <1>1 DEF DeadLetter, DlqExpire
<1>13. ASSUME Tick \/ UNCHANGED vars PROVE Outcomes
  BY <1>13, <1>1 DEF Tick, RowsTick, vars
<1> QED
  BY <1>2, <1>3, <1>4, <1>5, <1>8, <1>9, <1>10, <1>11, <1>12, <1>13
  DEF Next, SubmitStep, ProcessStep

\* While heartbeats are in time and errors are not late, a terminal status is
\* final: the client that stops polling at it has seen the outcome.
THEOREM OutcomeIsFinal == ASSUME Timely, ~LateErrors PROVE Spec => TerminalIsFinal
<1>1. TypeOK /\ Carries /\ Exclusion /\ [Next]_vars => [Outcomes]_vars
  BY OutcomesKept
<1> QED
  BY <1>1, Typed, ExclusionInvariant, PTL DEF Spec, TerminalIsFinal, Outcomes

-----------------------------------------------------------------------------
(* Healthy executions: heartbeats are in time, processes stay up and errors    *)
(* are not late.  No job is left without an outcome and without anything that will    *)
(* bring it to one.                                                           *)

\* The queue gives up on a message no sooner than the worker on a job: both
\* limits are 3 (jobs/__init__.py, terraform/sqs.tf).
Healthy ==
  Timely /\ ~Crashes /\ ~Drains /\ ~LateErrors /\ MaxAttempts <= MaxReceive

\* What a process holds is in the queue, as the process received it.
HeldIsLive ==
  \A w \in Workers :
    /\ ~draining[w]
    /\ held[w] # NoMsg =>
         /\ msgState[held[w]] = "live"
         /\ msgJob[held[w]] = job[w] /\ msgCount[held[w]] = rcount[w]

\* A row says where its job is: queued means never begun, running means that
\* some process is at work on it, failed means that a message will wake one.
RowsAreTended ==
  \A j \in Jobs :
    /\ status[j] \in {"none", "queued"} => attempt[j] = 0
    /\ status[j] = "running" => \E w \in Workers : Executing(w) /\ job[w] = j
    /\ status[j] = "failed" => \E m \in Msgs : CanWake(m, j)

\* The lock of a heartbeat under way may make a claim be refused.  If the row
\* is one that failed meanwhile, its message is still to come.
StragglersWait ==
  \A j \in Jobs, v \in Workers :
    status[j] = "failed" /\ fresh[v][j] # NullLease =>
      \E m \in Msgs :
        /\ msgState[m] = "live" /\ msgJob[m] = j /\ msgCount[m] < MaxReceive /\ vis[m] > 0
        /\ \A w \in Workers : held[w] # m

Basis == TypeOK /\ Carries /\ Exclusion /\ HeldInvisible /\ Retryable

LEMMA HeldLiveNext ==
  ASSUME Healthy, Basis, HeldIsLive, [Next]_vars PROVE HeldIsLive'
<1> USE DEF rowVars, queueVars, procVars, Healthy
<1>1. ASSUME UNCHANGED <<queueVars, held, rcount, draining>>,
             \A w \in Workers : held[w] # NoMsg => job'[w] = job[w]
      PROVE HeldIsLive'
  BY <1>1 DEF HeldIsLive
<1>2. ASSUME NEW j \in Jobs, SubmitEnqueue(j) PROVE HeldIsLive'
  <2>1. PICK m \in Msgs : (\A w \in Workers : held[w] # m) /\ Enqueue(m, j)
    BY <1>2 DEF SubmitEnqueue, Send
  <2> QED BY <1>2, <2>1 DEF SubmitEnqueue, Enqueue, HeldIsLive, Basis, TypeOK, QueueTypeOK
<1>3. ASSUME NEW w \in Workers, ReconcileSend(w) PROVE HeldIsLive'
  <2>1. PICK j \in Jobs, m \in Msgs : (\A v \in Workers : held[v] # m) /\ Enqueue(m, j)
    BY <1>3 DEF ReconcileSend, Send, Basis, TypeOK
  <2> QED BY <1>3, <2>1 DEF ReconcileSend, Enqueue, HeldIsLive, Basis, TypeOK, QueueTypeOK
<1>4. ASSUME NEW j \in Jobs, SubmitCommit(j) \/ SubmitLost(j) \/ DeleteJob(j) PROVE HeldIsLive'
  BY <1>4, <1>1 DEF SubmitCommit, SubmitLost, DeleteJob
<1>5. ASSUME NEW w \in Workers, ReconcileRead(w) \/ ReconcileError(w) PROVE HeldIsLive'
  BY <1>5, <1>1 DEF ReconcileRead, ReconcileError
<1>6. ASSUME NEW w \in Workers, NEW m \in Msgs, Receive(w, m) PROVE HeldIsLive'
  <2>1. \A v \in Workers : held[v] # m
    BY <1>6, HeldUnseen, WorkerAssumption DEF Receive, Deliver, Basis
  <2>2. /\ held' = [held EXCEPT ![w] = m] /\ job' = [job EXCEPT ![w] = msgJob[m]]
        /\ rcount' = [rcount EXCEPT ![w] = msgCount[m] + 1]
        /\ msgCount' = [msgCount EXCEPT ![m] = @ + 1]
        /\ UNCHANGED <<msgState, msgJob, draining>> /\ msgState[m] = "live"
    BY <1>6 DEF Receive, Deliver, Visible
  <2> QED BY <2>1, <2>2 DEF HeldIsLive, Basis, TypeOK, QueueTypeOK
<1>7. ASSUME NEW w \in Workers,
             \/ ProcessUnknown(w) \/ ClaimJob(w) \/ ClaimRefused(w) \/ HandlerReturns(w)
             \/ MarkRead(w) \/ MarkSucceededError(w)
      PROVE HeldIsLive'
  BY <1>7, <1>1 DEF ProcessUnknown, ClaimJob, ClaimRefused, HandlerReturns, WorkDone,
     PermanentFailure, TransientFailure, MarkRead, MarkSucceededError, Goto
<1>8. ASSUME NEW w \in Workers, Ack(w) PROVE HeldIsLive'
  <2>1. /\ held' = [held EXCEPT ![w] = NoMsg] /\ UNCHANGED draining
        /\ \A v \in Workers \ {w} : job'[v] = job[v] /\ rcount'[v] = rcount[v]
    BY <1>8 DEF Ack, Loop, LetGo, Basis, TypeOK
  <2>2. \A m \in Msgs : m # held[w] => msgState'[m] = msgState[m] /\ msgJob'[m] = msgJob[m]
                                       /\ msgCount'[m] = msgCount[m]
    BY <1>8 DEF Ack, AckMessage, DeleteMessage, Release, Basis, TypeOK, QueueTypeOK
  <2>3. \A v \in Workers \ {w} : held[v] # NoMsg => held[v] # held[w] /\ held[v] \in Msgs
    BY DEF Basis, HeldInvisible, TypeOK
  <2>4. held'[w] = NoMsg /\ \A v \in Workers \ {w} : held'[v] = held[v]
    BY <2>1 DEF Basis, TypeOK
  <2> QED BY <2>1, <2>2, <2>3, <2>4 DEF HeldIsLive
<1>a. ASSUME NEW w \in Workers, UNCHANGED queueVars, LetGo(w),
             UNCHANGED draining \/ Replace(w)
      PROVE  HeldIsLive'
  BY <1>a DEF LetGo, Replace, HeldIsLive, Basis, TypeOK
<1>9. ASSUME NEW w \in Workers, MarkNothing(w) \/ MarkCommit(w) \/ MarkMissed(w)
      PROVE HeldIsLive'
  BY <1>9, <1>1, <1>a
  DEF MarkNothing, MarkCommit, MarkMissed, AfterMark, Loop, Goto, Die, Replace
<1>10. ASSUME NEW w \in Workers, HeartbeatStep(w) PROVE HeldIsLive'
  BY <1>10 DEF HeartbeatStep, Heartbeat, HeartbeatMessageOnly, HeartbeatRowOnly,
     HeartbeatCommit, ExtendVisibility, HeldIsLive
<1>11. ASSUME NEW w \in Workers
       PROVE ~AckError(w) /\ ~Sigterm(w) /\ ~Crash(w) /\ ~ReturnOnDrain(w) /\ ~DrainedExit(w)
  BY DEF AckError, Sigterm, Crash, ReturnOnDrain, DrainedExit, HeldIsLive
<1>12. ASSUME NEW m \in Msgs, DeadLetter(m) \/ DlqExpire(m) PROVE HeldIsLive'
  <2>1. \A w \in Workers : held[w] # m
    BY <1>12, HeldUnseen, WorkerAssumption DEF DeadLetter, MoveToDlq, DlqExpire, Basis
  <2>2. /\ UNCHANGED procVars
        /\ \A n \in Msgs : n # m => msgState'[n] = msgState[n] /\ msgJob'[n] = msgJob[n]
                                    /\ msgCount'[n] = msgCount[n]
    BY <1>12 DEF DeadLetter, MoveToDlq, DlqExpire, DlqRetentionOver, Release, Basis, TypeOK,
       QueueTypeOK
  <2> QED BY <2>1, <2>2 DEF HeldIsLive, Basis, TypeOK
<1>13. ASSUME Tick PROVE HeldIsLive'
  BY <1>13 DEF Tick, QueueTick, HeldIsLive
<1>14. ASSUME UNCHANGED vars PROVE HeldIsLive'
  BY <1>14, <1>1 DEF vars
<1> QED
  BY <1>2, <1>3, <1>4, <1>5, <1>6, <1>7, <1>8, <1>9, <1>10, <1>11, <1>12, <1>13, <1>14
  DEF Next, SubmitStep, ReconcileStep, ProcessStep

\* The rows are as they were, those at work go on, and whoever could be woken
\* still can.
LEMMA TendedStays ==
  ASSUME RowsAreTended, UNCHANGED <<status, attempt>>,
         \A w \in Workers : Executing(w) => Executing(w)' /\ job'[w] = job[w],
         \A j \in Jobs, m \in Msgs :
           status[j] = "failed" /\ CanWake(m, j) => \E n \in Msgs : CanWake(n, j)'
  PROVE  RowsAreTended'
<1>1. ASSUME NEW j \in Jobs, status[j] = "running"
      PROVE  \E w \in Workers : Executing(w)' /\ job'[w] = j
  BY <1>1 DEF RowsAreTended
<1>2. ASSUME NEW j \in Jobs, status[j] = "failed"
      PROVE  \E m \in Msgs : CanWake(m, j)'
  BY <1>2 DEF RowsAreTended
<1> QED BY <1>1, <1>2 DEF RowsAreTended

\* A message wakes as long as it is in the queue as it was and, if a process
\* had it and not yet claimed, that process still has.
LEMMA WakeStays ==
  ASSUME NEW m \in Msgs, NEW j \in Jobs, CanWake(m, j),
         msgState'[m] = msgState[m], msgJob'[m] = msgJob[m], msgCount'[m] = msgCount[m],
         \/ \A w \in Workers : held'[w] = held[w] /\ (pc[w] = "got" => pc'[w] = "got")
         \/ \A w \in Workers : held'[w] # m /\ held[w] # m
  PROVE  CanWake(m, j)'
  BY DEF CanWake

\* The message in a process's hands wakes before the claim.
LEMMA GotWakes ==
  ASSUME Basis, HeldIsLive, NEW w \in Workers, pc[w] = "got"
  PROVE  held[w] \in Msgs /\ CanWake(held[w], job[w])
<1>1. held[w] \in Msgs /\ held[w] # NoMsg
  BY WorkerAssumption DEF Basis, Carries
<1> QED BY <1>1 DEF CanWake, HeldIsLive

\* A process past the claim of its job has a message that wakes nobody.
LEMMA BusySleeps ==
  ASSUME Basis, NEW w \in Workers, pc[w] # "got", held[w] # NoMsg,
         NEW m \in Msgs, NEW j \in Jobs, CanWake(m, j)
  PROVE  m # held[w]
  BY DEF Basis, HeldInvisible, CanWake

\* Where a process that marks goes, and the others, who stay.
LEMMA MarkerMoves ==
  ASSUME Basis, NEW w \in Workers, AfterMark(w) \/ (pc[w] \in MarkPCs /\ LetGo(w))
  PROVE  /\ pc[w] \in MarkPCs /\ job[w] \in Jobs /\ held[w] \in Msgs /\ held[w] # NoMsg
         /\ ~Executing(w)' /\ held'[w] \in {held[w], NoMsg}
         /\ \A v \in Workers \ {w} : pc'[v] = pc[v] /\ job'[v] = job[v] /\ held'[v] = held[v]
<1> USE DEF Basis, TypeOK
<1>1. pc[w] \in MarkPCs
  BY AfterMarkShape
<1>2. job[w] \in Jobs /\ held[w] \in Msgs /\ held[w] # NoMsg
  BY <1>1, WorkerAssumption DEF Carries, MarkPCs
<1>3. /\ pc'[w] \in {"idle", "acking", "dropping"} /\ held'[w] \in {held[w], NoMsg}
      /\ \A v \in Workers \ {w} : pc'[v] = pc[v] /\ job'[v] = job[v] /\ held'[v] = held[v]
  <2>1. CASE LetGo(w)
    BY <2>1 DEF LetGo
  <2>2. CASE AfterMark(w)
    BY <2>2, AfterMarkShape
  <2> QED BY <2>1, <2>2
<1> QED BY <1>1, <1>2, <1>3 DEF Executing

\* Messages that could wake somebody still can.
LEMMA MarkerWakes ==
  ASSUME Basis, NEW w \in Workers, AfterMark(w) \/ (pc[w] \in MarkPCs /\ LetGo(w)),
         UNCHANGED queueVars, NEW m \in Msgs, NEW j \in Jobs, CanWake(m, j)
  PROVE  CanWake(m, j)'
<1>1. m # held[w]
  BY MarkerMoves, BusySleeps DEF MarkPCs
<1>2. \A v \in Workers : (held'[v] = m <=> held[v] = m) /\ (held[v] = m => pc'[v] = pc[v])
  BY <1>1, MarkerMoves, WorkerAssumption
<1> QED BY <1>2 DEF CanWake, queueVars

\* A row gets an outcome, or is found gone.
LEMMA TendedSettled ==
  ASSUME Basis, RowsAreTended, NEW w \in Workers,
         AfterMark(w) \/ (pc[w] \in MarkPCs /\ LetGo(w)), UNCHANGED <<queueVars, attempt>>,
         \A j \in Jobs : j # job[w] => status'[j] = status[j],
         status'[job[w]] \notin {"running", "failed"},
         status'[job[w]] \in {"none", "queued"} => status'[job[w]] = status[job[w]]
  PROVE  RowsAreTended'
<1>1. ASSUME NEW j \in Jobs, status'[j] = "running"
      PROVE  \E v \in Workers : Executing(v)' /\ job'[v] = j
  <2>1. PICK v \in Workers : Executing(v) /\ job[v] = j
    BY <1>1 DEF RowsAreTended
  <2> QED BY <1>1, <2>1, MarkerMoves DEF Executing
<1>2. ASSUME NEW j \in Jobs, status'[j] = "failed"
      PROVE  \E m \in Msgs : CanWake(m, j)'
  <2>1. PICK m \in Msgs : CanWake(m, j)
    BY <1>2 DEF RowsAreTended
  <2> QED BY <2>1, MarkerWakes
<1> QED BY <1>1, <1>2 DEF RowsAreTended

LEMMA TendedClaimed ==
  ASSUME Healthy, Basis, HeldIsLive, RowsAreTended, NEW w \in Workers, ClaimJob(w)
  PROVE  RowsAreTended'
<1>1. /\ job[w] \in Jobs /\ UNCHANGED <<queueVars, held, job>> /\ pc[w] = "got"
      /\ status' = [status EXCEPT ![job[w]] = "running"]
      /\ attempt' = [attempt EXCEPT ![job[w]] = @ + 1]
      /\ pc' = [pc EXCEPT ![w] = "running"]
  BY DEF ClaimJob, Take, Goto, Basis, Carries
<1>2. Executing(w)' /\ \A v \in Workers \ {w} : pc'[v] = pc[v] /\ (Executing(v) => Executing(v)')
  BY <1>1 DEF Basis, TypeOK, Executing
<1>3. \A j \in Jobs : j # job[w] => status'[j] = status[j] /\ attempt'[j] = attempt[j]
  BY <1>1 DEF Basis, TypeOK, RowsTypeOK
<1>4. status'[job[w]] = "running"
  BY <1>1 DEF Basis, TypeOK, RowsTypeOK
<1>5. ASSUME NEW j \in Jobs, status'[j] = "running"
      PROVE  \E v \in Workers : Executing(v)' /\ job'[v] = j
  <2>1. CASE j = job[w]
    BY <1>1, <1>2, <2>1
  <2>2. CASE j # job[w]
    <3>1. PICK v \in Workers : Executing(v) /\ job[v] = j
      BY <1>3, <1>5, <2>2 DEF RowsAreTended
    <3> QED BY <1>1, <1>2, <3>1
  <2> QED BY <2>1, <2>2
<1>6. ASSUME NEW j \in Jobs, status'[j] = "failed"
      PROVE  \E m \in Msgs : CanWake(m, j)'
  <2>1. PICK m \in Msgs : CanWake(m, j)
    BY <1>3, <1>4, <1>6 DEF RowsAreTended
  <2>2. msgJob[m] = j /\ job[w] # j
    BY <1>4, <1>6, <2>1 DEF CanWake
  <2>3. held[w] # m
    BY <2>2, WorkerAssumption DEF HeldIsLive, Basis, Carries
  <2>4. \A v \in Workers : held[v] = m /\ pc[v] = "got" => pc'[v] = "got"
    BY <1>2, <2>3
  <2> QED BY <1>1, <2>1, <2>4 DEF CanWake, queueVars
<1>7. ASSUME NEW j \in Jobs, status'[j] \in {"none", "queued"} PROVE attempt'[j] = 0
  BY <1>3, <1>4, <1>7 DEF RowsAreTended
<1> QED BY <1>5, <1>6, <1>7 DEF RowsAreTended

\* A row that failed on this delivery has another delivery to come.
LEMMA TendedFailed ==
  ASSUME Healthy, Basis, HeldIsLive, RowsAreTended, NEW w \in Workers, MarkCommit(w),
         write[w].to = "failed"
  PROVE  RowsAreTended'
<1>1. /\ job[w] \in Jobs /\ held[w] \in Msgs /\ held[w] # NoMsg
      /\ UNCHANGED <<queueVars, attempt>> /\ pc[w] = "failing" /\ AfterMark(w)
  BY WorkerAssumption DEF MarkCommit, CommitMark, Basis, Carries
<1>2. /\ \A v \in Workers \ {w} : pc'[v] = pc[v] /\ job'[v] = job[v] /\ held'[v] = held[v]
      /\ held'[w] = NoMsg
  BY <1>1, MarkerMoves DEF AfterMark, Loop, LetGo, Basis, TypeOK
<1>3. /\ \A j \in Jobs : j # job[w] => status'[j] = status[j]
      /\ status'[job[w]] = "failed"
  <2>1. status' = [status EXCEPT ![job[w]] = "failed"]
    BY <1>1, CommitOwn DEF MarkCommit, Basis, Healthy
  <2> QED BY <1>1, <2>1 DEF Basis, TypeOK, RowsTypeOK
<1>4. ASSUME NEW j \in Jobs, status'[j] = "running"
      PROVE  \E v \in Workers : Executing(v)' /\ job'[v] = j
  <2>1. PICK v \in Workers : Executing(v) /\ job[v] = j
    BY <1>3, <1>4 DEF RowsAreTended
  <2> QED BY <1>2, <1>3, <1>4, <2>1 DEF Executing
<1>5. ASSUME NEW m \in Msgs, NEW j \in Jobs, CanWake(m, j) PROVE CanWake(m, j)'
  BY <1>1, <1>5, MarkerWakes
<1>6. ASSUME NEW m \in Msgs, m = held[w], NEW j \in Jobs, j = job[w], status'[j] = "failed"
      PROVE  CanWake(m, j)'
  <2>1. msgCount[m] < MaxReceive
    <3>1. rcount[w] < MaxAttempts /\ rcount[w] = msgCount[m] /\ rcount[w] \in Nat
      BY <1>1, <1>6, QueueAssumption
      DEF MarkCommit, HeldIsLive, Basis, Retryable, TypeOK
    <3> QED BY <3>1, RowsAssumption, QueueAssumption DEF Healthy
  <2>2. \A v \in Workers : held'[v] # m
    BY <1>1, <1>2, <1>6, WorkerAssumption DEF Basis, HeldInvisible
  <2>3. msgState[m] = "live" /\ msgJob[m] = j
    BY <1>1, <1>6 DEF HeldIsLive
  <2> QED BY <1>1, <2>1, <2>2, <2>3 DEF CanWake, queueVars
<1>7. ASSUME NEW j \in Jobs, status'[j] = "failed"
      PROVE  \E m \in Msgs : CanWake(m, j)'
  <2>1. CASE j = job[w]
    BY <1>1, <1>6, <1>7, <2>1
  <2>2. CASE j # job[w]
    <3>1. PICK m \in Msgs : CanWake(m, j)
      BY <1>3, <1>7, <2>2 DEF RowsAreTended
    <3> QED BY <1>5, <3>1
  <2> QED BY <2>1, <2>2
<1>8. ASSUME NEW j \in Jobs, status'[j] \in {"none", "queued"} PROVE attempt'[j] = 0
  BY <1>1, <1>3, <1>8 DEF RowsAreTended
<1> QED BY <1>4, <1>7, <1>8 DEF RowsAreTended

\* A claim that is refused leaves a row that somebody else is at, or that has
\* an outcome.
LEMMA TendedRefused ==
  ASSUME Healthy, Basis, HeldIsLive, StragglersWait, RowsAreTended, NEW w \in Workers,
         ClaimRefused(w)
  PROVE  RowsAreTended'
<1>1. /\ UNCHANGED <<status, attempt, queueVars, held, job>> /\ pc[w] = "got"
      /\ pc' = [pc EXCEPT ![w] = "dropping"]
      /\ job[w] \in Jobs
  BY DEF ClaimRefused, Goto, rowVars, Basis, Carries
<1>2. \A v \in Workers \ {w} : pc'[v] = pc[v] /\ (Executing(v) => Executing(v)')
  BY <1>1 DEF Basis, TypeOK, Executing
<1>3. ASSUME NEW v \in Workers \ {w}, pc[v] = "got", NEW m, m = held[v], NEW j, j = job[v]
      PROVE  m \in Msgs /\ CanWake(m, j)'
  <2>1. m \in Msgs /\ CanWake(m, j)
    BY <1>3, GotWakes
  <2> QED BY <1>1, <1>2, <1>3, <2>1 DEF CanWake, queueVars
<1>4. ASSUME NEW j \in Jobs, status[j] = "failed"
      PROVE  \E m \in Msgs : CanWake(m, j)'
  <2>1. CASE j = job[w]
    <3>1. Claimable(job[w])
      BY <1>4, <2>1 DEF Claimable, Basis, Retryable, FailedIsRetryable
    <3>2. CASE \E v \in Workers : fresh[v][j] # NullLease
      <4>1. PICK m \in Msgs : /\ msgState[m] = "live" /\ msgJob[m] = j
                              /\ msgCount[m] < MaxReceive
                              /\ \A v \in Workers : held[v] # m
        BY <1>4, <3>2 DEF StragglersWait
      <4> QED BY <1>1, <4>1 DEF CanWake, queueVars
    <3>3. CASE \E v \in Workers \ {w} : job[v] = j /\ pc[v] \in TryPCs \cup {"got", "rejecting"}
      <4>1. PICK v \in Workers \ {w} : job[v] = j /\ pc[v] \in TryPCs \cup {"got", "rejecting"}
        BY <3>3
      <4>2. pc[v] = "got"
        BY <1>4, <4>1
        DEF Basis, Exclusion, Owns, Leased, UnknownUnclaimed, TryPCs, Healthy
      <4> QED BY <1>3, <4>1, <4>2
    <3> QED BY <2>1, <3>1, <3>2, <3>3 DEF ClaimRefused, RowLocked
  <2>2. CASE j # job[w]
    <3>1. PICK m \in Msgs : CanWake(m, j)
      BY <1>4 DEF RowsAreTended
    <3>2. held[w] # m
      BY <2>2, <3>1, WorkerAssumption DEF HeldIsLive, Basis, Carries, CanWake
    <3>3. \A v \in Workers : held[v] = m /\ pc[v] = "got" => pc'[v] = "got"
      BY <1>2, <3>2
    <3> QED BY <1>1, <3>1, <3>3 DEF CanWake, queueVars
  <2> QED BY <2>1, <2>2
<1>5. \A v \in Workers : Executing(v) => Executing(v)' /\ job'[v] = job[v]
  BY <1>1, <1>2 DEF Executing
<1> QED BY <1>1, <1>4, <1>5, TendedStays

\* The message of a kind nobody handles wakes nobody either.
LEMMA TendedRejected ==
  ASSUME Basis, HeldIsLive, RowsAreTended, NEW w \in Workers, ProcessUnknown(w)
  PROVE  RowsAreTended'
<1>1. /\ UNCHANGED <<status, attempt, queueVars, held, job>> /\ pc[w] = "got"
      /\ job[w] \in Unknown /\ pc'[w] = "rejecting"
      /\ \A v \in Workers \ {w} : pc'[v] = pc[v]
  BY DEF ProcessUnknown, Goto, rowVars, Basis, TypeOK
<1>2. ASSUME NEW j \in Jobs, NEW m \in Msgs, status[j] = "failed", CanWake(m, j)
      PROVE  CanWake(m, j)'
  <2>1. j # job[w]
    BY <1>1, <1>2 DEF Basis, Exclusion, UnknownUnclaimed
  <2>2. held[w] # m
    BY <1>1, <1>2, <2>1, WorkerAssumption DEF HeldIsLive, Basis, Carries, CanWake
  <2>3. \A v \in Workers : held[v] = m => pc'[v] = pc[v]
    BY <1>1, <2>2
  <2> QED BY <1>1, <1>2, <2>3 DEF CanWake, queueVars
<1>3. \A v \in Workers : Executing(v) => Executing(v)' /\ job'[v] = job[v]
  BY <1>1 DEF Executing
<1> QED BY <1>1, <1>2, <1>3, TendedStays

\* A row is inserted, or goes with its episode.
LEMMA TendedSubmitted ==
  ASSUME Basis, RowsAreTended, NEW k \in Jobs, SubmitCommit(k) \/ DeleteJob(k)
  PROVE  RowsAreTended'
<1>1. /\ UNCHANGED <<attempt, queueVars, procVars>>
      /\ \A j \in Jobs : j # k => status'[j] = status[j]
      /\ status'[k] = "deleted" \/ (status'[k] = "queued" /\ status[k] = "none")
  <2>1. status \in [Jobs -> Statuses]
    BY DEF Basis, TypeOK, RowsTypeOK
  <2>2. CASE SubmitCommit(k)
    BY <2>1, <2>2 DEF SubmitCommit, InsertRow
  <2>3. CASE DeleteJob(k)
    BY <2>1, <2>3 DEF DeleteJob, DeleteRow
  <2> QED BY <2>2, <2>3
<1>2. ASSUME NEW j \in Jobs, status'[j] = "running"
      PROVE  \E w \in Workers : Executing(w)' /\ job'[w] = j
  BY <1>1, <1>2 DEF RowsAreTended, Executing, procVars
<1>3. ASSUME NEW j \in Jobs, status'[j] = "failed"
      PROVE  \E m \in Msgs : CanWake(m, j)'
  BY <1>1, <1>3 DEF RowsAreTended, CanWake, procVars, queueVars
<1>4. ASSUME NEW j \in Jobs, status'[j] \in {"none", "queued"} PROVE attempt'[j] = 0
  BY <1>1, <1>4 DEF RowsAreTended
<1> QED BY <1>2, <1>3, <1>4 DEF RowsAreTended

\* A message that is sent takes an identity nobody has.
LEMMA TendedSent ==
  ASSUME Basis, RowsAreTended, NEW j \in Jobs, Send(j), UNCHANGED <<rowVars, held, job>>,
         \A w \in Workers : pc'[w] = pc[w] \/ (~Executing(w) /\ pc[w] # "got")
  PROVE  RowsAreTended'
<1>1. PICK m \in Msgs : (\A w \in Workers : held[w] # m) /\ Enqueue(m, j)
  BY DEF Send
<1>2. \A n \in Msgs : n # m => /\ msgState'[n] = msgState[n] /\ msgJob'[n] = msgJob[n]
                              /\ msgCount'[n] = msgCount[n]
  BY <1>1 DEF Enqueue, Basis, TypeOK, QueueTypeOK
<1>3. ASSUME NEW k \in Jobs, NEW n \in Msgs, CanWake(n, k) PROVE CanWake(n, k)'
  <2>1. n # m
    BY <1>1, <1>3 DEF CanWake, Enqueue
  <2> QED BY <1>2, <1>3, <2>1, WakeStays
<1> QED BY <1>3, TendedStays DEF rowVars, Executing

\* Nothing but time, a control step after the claim, or nothing.
LEMMA TendedQuiet ==
  ASSUME RowsAreTended, UNCHANGED <<status, attempt, msgState, msgJob, msgCount, held, job>>,
         \A w \in Workers : /\ Executing(w) => Executing(w)'
                            /\ pc[w] = "got" => pc'[w] = "got"
  PROVE  RowsAreTended'
<1>1. \A j \in Jobs, m \in Msgs : CanWake(m, j) => CanWake(m, j)'
  BY DEF CanWake
<1> QED BY <1>1, TendedStays

LEMMA TendedReceived ==
  ASSUME Basis, RowsAreTended, NEW w \in Workers, NEW m \in Msgs, Receive(w, m)
  PROVE  RowsAreTended'
<1>1. /\ pc[w] = "idle" /\ msgState[m] = "live" /\ UNCHANGED <<rowVars, msgState, msgJob>>
      /\ pc' = [pc EXCEPT ![w] = "got"] /\ held' = [held EXCEPT ![w] = m]
      /\ job' = [job EXCEPT ![w] = msgJob[m]] /\ msgCount' = [msgCount EXCEPT ![m] = @ + 1]
  BY DEF Receive, Deliver, Visible
<1>2. /\ held'[w] = m /\ pc'[w] = "got"
      /\ \A v \in Workers \ {w} : held'[v] = held[v] /\ pc'[v] = pc[v] /\ job'[v] = job[v]
      /\ \A n \in Msgs : n # m => msgCount'[n] = msgCount[n]
  BY <1>1 DEF Basis, TypeOK, QueueTypeOK
<1>3. ASSUME NEW j \in Jobs, NEW n \in Msgs, CanWake(n, j) PROVE CanWake(n, j)'
  <2>1. CASE n = m
    BY <1>1, <1>2, <1>3, <2>1 DEF CanWake
  <2>2. CASE n # m
    BY <1>1, <1>2, <1>3, <2>2 DEF CanWake
  <2> QED BY <2>1, <2>2
<1>4. \A v \in Workers : Executing(v) => Executing(v)' /\ job'[v] = job[v]
  BY <1>1, <1>2 DEF Executing
<1> QED BY <1>1, <1>3, <1>4, TendedStays DEF rowVars

\* Only the message of a job that is settled or refused is deleted.
LEMMA TendedAcked ==
  ASSUME Basis, RowsAreTended, NEW w \in Workers, Ack(w)
  PROVE  RowsAreTended'
<1>1. /\ pc[w] \in {"acking", "dropping"} /\ held[w] \in Msgs /\ held[w] # NoMsg
      /\ held' = [held EXCEPT ![w] = NoMsg] /\ UNCHANGED rowVars
      /\ \A v \in Workers \ {w} : held'[v] = held[v] /\ pc'[v] = pc[v] /\ job'[v] = job[v]
  BY WorkerAssumption DEF Ack, Loop, LetGo, Basis, Carries, TypeOK
<1>2. \A m \in Msgs : m # held[w] => /\ msgState'[m] = msgState[m] /\ msgJob'[m] = msgJob[m]
                                     /\ msgCount'[m] = msgCount[m]
  BY DEF Ack, AckMessage, DeleteMessage, Release, queueVars, Basis, TypeOK, QueueTypeOK
<1>3. ASSUME NEW j \in Jobs, NEW m \in Msgs, CanWake(m, j) PROVE CanWake(m, j)'
  <2>1. m # held[w]
    BY <1>1, <1>3, BusySleeps
  <2>2. \A v \in Workers : (held'[v] = m <=> held[v] = m) /\ (held[v] = m => pc'[v] = pc[v])
    BY <1>1, <2>1, WorkerAssumption DEF Basis, TypeOK
  <2> QED BY <1>2, <1>3, <2>1, <2>2 DEF CanWake
<1>4. \A v \in Workers : Executing(v) => Executing(v)' /\ job'[v] = job[v]
  BY <1>1 DEF Executing
<1> QED BY <1>1, <1>3, <1>4, TendedStays DEF rowVars

\* Only a message that has used its deliveries is buried.
LEMMA TendedBuried ==
  ASSUME Healthy, Basis, RowsAreTended, NEW m \in Msgs, DeadLetter(m) \/ DlqExpire(m)
  PROVE  RowsAreTended'
<1>1. /\ UNCHANGED <<rowVars, procVars>>
      /\ \A n \in Msgs : n # m => /\ msgState'[n] = msgState[n] /\ msgJob'[n] = msgJob[n]
                                  /\ msgCount'[n] = msgCount[n]
  BY DEF DeadLetter, MoveToDlq, DlqExpire, DlqRetentionOver, Release, Basis, TypeOK, QueueTypeOK
<1>2. \A w \in Workers : held[w] # m
  BY HeldUnseen, WorkerAssumption DEF DeadLetter, MoveToDlq, DlqExpire, Basis, Healthy
<1>3. msgState[m] = "dead" \/ ~(msgCount[m] < MaxReceive)
  BY QueueAssumption DEF DeadLetter, MoveToDlq, DlqExpire, DlqRetentionOver, Basis, TypeOK,
     QueueTypeOK
<1>4. ASSUME NEW j \in Jobs, NEW n \in Msgs, CanWake(n, j) PROVE CanWake(n, j)'
  <2>1. n # m
    BY <1>2, <1>3, <1>4 DEF CanWake
  <2> QED BY <1>1, <1>4, <2>1, WakeStays DEF procVars
<1> QED BY <1>1, <1>4, TendedStays DEF rowVars, procVars, Executing

LEMMA TendedNext ==
  ASSUME Healthy, Basis, HeldIsLive, StragglersWait, RowsAreTended, [Next]_vars
  PROVE  RowsAreTended'
<1> USE DEF rowVars, queueVars, procVars
<1>1. ASSUME NEW j \in Jobs, SubmitCommit(j) \/ DeleteJob(j) PROVE RowsAreTended'
  BY <1>1, TendedSubmitted
<1>2. ASSUME NEW j \in Jobs, SubmitEnqueue(j) PROVE RowsAreTended'
  <2>1. Send(j) /\ UNCHANGED rowVars /\ held' = held /\ job' = job /\ pc' = pc
    BY <1>2 DEF SubmitEnqueue
  <2> QED BY <2>1, TendedSent
<1>3. ASSUME NEW j \in Jobs, SubmitLost(j) PROVE RowsAreTended'
  BY <1>3, TendedQuiet DEF SubmitLost, Executing
<1>4. ASSUME NEW w \in Workers, ReconcileRead(w) \/ ReconcileError(w) PROVE RowsAreTended'
  BY <1>4, TendedQuiet DEF ReconcileRead, ReconcileError, Executing, Basis, TypeOK
<1>5. ASSUME NEW w \in Workers, ReconcileSend(w) PROVE RowsAreTended'
  <2>1. PICK j \in Jobs : Send(j)
    BY <1>5 DEF ReconcileSend, Basis, TypeOK
  <2>2. pc[w] = "sweeping" /\ \A v \in Workers : v # w => pc'[v] = pc[v]
    BY <1>5 DEF ReconcileSend, Basis, TypeOK
  <2>3. \A v \in Workers : pc'[v] = pc[v] \/ (~Executing(v) /\ pc[v] # "got")
    BY <2>2 DEF Executing
  <2> QED BY <1>5, <2>1, <2>3, TendedSent DEF ReconcileSend
<1>6. ASSUME NEW w \in Workers, NEW m \in Msgs, Receive(w, m) PROVE RowsAreTended'
  BY <1>6, TendedReceived
<1>7. ASSUME NEW w \in Workers, MarkNothing(w) \/ MarkMissed(w) PROVE RowsAreTended'
  <2>1. CASE pc[w] = "finishing" /\ Goto(w, "failing") /\ UNCHANGED <<rowVars, queueVars>>
    BY <2>1, TendedQuiet DEF Goto, Executing, Basis, TypeOK
  <2>2. CASE /\ AfterMark(w) \/ (pc[w] \in MarkPCs /\ LetGo(w))
             /\ ~Exists(job[w]) /\ UNCHANGED <<status, attempt, queueVars>>
    BY <2>2, TendedSettled DEF Exists
  <2>3. write[w] # NoWrite => pc[w] \in MarkPCs
    BY DEF Basis, Carries, MarkPCs
  <2> QED
    BY <1>7, <2>1, <2>2, <2>3 DEF MarkNothing, MarkMissed, Die, Replace
<1>8. ASSUME NEW w \in Workers, MarkCommit(w) PROVE RowsAreTended'
  <2>1. CASE write[w].to = "failed"
    BY <1>8, <2>1, TendedFailed
  <2>2. CASE write[w].to # "failed"
    <3>1. /\ AfterMark(w) /\ UNCHANGED <<queueVars, attempt>>
          /\ write[w] # NoWrite /\ CommitMark(job[w], write[w]) /\ Exists(job[w])
      BY <1>8 DEF MarkCommit, CommitMark
    <3>2. /\ job[w] \in Jobs /\ write[w].to \in {"succeeded", "dead"}
          /\ \A j \in Jobs : j # job[w] => status'[j] = status[j]
      BY <2>2, <3>1, CommitOwn DEF Basis
    <3>3. /\ status'[job[w]] \notin {"running", "failed"}
          /\ status'[job[w]] \in {"none", "queued"} => status'[job[w]] = status[job[w]]
      <4>1. CASE pc[w] \in {"finishing", "burying", "failing"}
        <5>1. status' = [status EXCEPT ![job[w]] = write[w].to]
          BY <3>1, <4>1, CommitOwn DEF Basis, Healthy
        <5> QED
          BY <3>2, <5>1 DEF Basis, TypeOK, RowsTypeOK
      <4>2. CASE pc[w] = "rejecting"
        <5>1. status[job[w]] \in {"queued", "dead"}
          BY <3>1, <3>2, <4>2
          DEF Basis, Exclusion, Owns, UnknownUnclaimed, Exists, TypeOK, RowsTypeOK, Statuses
        <5> QED
          BY <3>1, <3>2, <5>1 DEF CommitMark, Basis, TypeOK, RowsTypeOK
      <4> QED
        BY <3>1, <4>1, <4>2 DEF Basis, Carries
    <3> QED
      BY <3>1, <3>2, <3>3, TendedSettled
  <2> QED
    BY <2>1, <2>2
<1>9. ASSUME NEW w \in Workers, ProcessUnknown(w) \/ ClaimJob(w) \/ ClaimRefused(w)
      PROVE RowsAreTended'
  BY <1>9, TendedRejected, TendedClaimed, TendedRefused
<1>10. ASSUME NEW w \in Workers,
              HandlerReturns(w) \/ MarkRead(w) \/ MarkSucceededError(w)
       PROVE RowsAreTended'
  BY <1>10, TendedQuiet DEF HandlerReturns, WorkDone, PermanentFailure, TransientFailure,
     MarkRead, MarkSucceededError, Goto, Executing, Basis, TypeOK, Healthy
<1>11. ASSUME NEW w \in Workers, Ack(w) PROVE RowsAreTended'
  BY <1>11, TendedAcked
<1>12. ASSUME NEW w \in Workers
       PROVE ~AckError(w) /\ ~Sigterm(w) /\ ~Crash(w) /\ ~ReturnOnDrain(w) /\ ~DrainedExit(w)
  BY DEF AckError, Sigterm, Crash, ReturnOnDrain, DrainedExit, HeldIsLive, Healthy
<1>13. ASSUME NEW w \in Workers, HeartbeatStep(w) PROVE RowsAreTended'
  BY <1>13, TendedQuiet DEF HeartbeatStep, Heartbeat, HeartbeatMessageOnly, HeartbeatRowOnly,
     HeartbeatCommit, CommitLease, ExtendVisibility, Executing
<1>14. ASSUME NEW m \in Msgs, DeadLetter(m) \/ DlqExpire(m) PROVE RowsAreTended'
  BY <1>14, TendedBuried
<1>15. ASSUME Tick PROVE RowsAreTended'
  BY <1>15, TendedQuiet DEF Tick, RowsTick, QueueTick, Executing
<1>16. ASSUME UNCHANGED vars PROVE RowsAreTended'
  BY <1>16, TendedQuiet DEF vars, Executing
<1> QED
  BY <1>1, <1>2, <1>3, <1>4, <1>5, <1>6, <1>7, <1>8, <1>9, <1>10, <1>11, <1>12, <1>13,
     <1>14, <1>15, <1>16
  DEF Next, SubmitStep, ReconcileStep, ProcessStep

\* A message waits on where nobody takes it: it is not visible yet.
LEMMA WaitStays ==
  ASSUME StragglersWait, \A j \in Jobs : status'[j] = "failed" => status[j] = "failed",
         \A v \in Workers, j \in Jobs :
           fresh'[v][j] # NullLease => fresh[v][j] # NullLease \/ status[j] # "failed",
         \A m \in Msgs :
           msgState[m] = "live" /\ vis[m] > 0 /\ (\A w \in Workers : held[w] # m) =>
             /\ msgState'[m] = "live" /\ msgJob'[m] = msgJob[m]
             /\ msgCount'[m] = msgCount[m] /\ vis'[m] = vis[m]
             /\ \A w \in Workers : held'[w] # m
  PROVE  StragglersWait'
<1> SUFFICES ASSUME NEW j \in Jobs, NEW v \in Workers, status'[j] = "failed",
                    fresh'[v][j] # NullLease
             PROVE  \E m \in Msgs :
                      /\ msgState'[m] = "live" /\ msgJob'[m] = j
                      /\ msgCount'[m] < MaxReceive /\ vis'[m] > 0
                      /\ \A w \in Workers : held'[w] # m
  BY DEF StragglersWait
<1>1. PICK m \in Msgs :
        /\ msgState[m] = "live" /\ msgJob[m] = j /\ msgCount[m] < MaxReceive /\ vis[m] > 0
        /\ \A w \in Workers : held[w] # m
  BY DEF StragglersWait
<1> QED BY <1>1

LEMMA WaitNext ==
  ASSUME Healthy, Basis, HeldIsLive, StragglersWait, [Next]_vars PROVE StragglersWait'
<1> USE DEF rowVars, queueVars, procVars
<1>a. ASSUME UNCHANGED <<queueVars, held, fresh>>,
             \A j \in Jobs : status'[j] = "failed" => status[j] = "failed"
      PROVE  StragglersWait'
  BY <1>a, WaitStays
<1>b. ASSUME NEW w \in Workers, LetGo(w) \/ AfterMark(w) \/ (\E next : Goto(w, next))
      PROVE  \A m \in Msgs : (\A v \in Workers : held[v] # m) => \A v \in Workers : held'[v] # m
  BY <1>b, WorkerAssumption DEF AfterMark, Loop, LetGo, Goto, Basis, TypeOK
<1>1. ASSUME NEW j \in Jobs, SubmitCommit(j) \/ DeleteJob(j) \/ SubmitLost(j)
      PROVE  StragglersWait'
  BY <1>1, <1>a
  DEF SubmitCommit, InsertRow, DeleteJob, DeleteRow, SubmitLost, Basis, TypeOK, RowsTypeOK
<1>2. ASSUME NEW j \in Jobs, Send(j), UNCHANGED <<rowVars, held, fresh>> PROVE StragglersWait'
  <2>1. PICK m \in Msgs : Enqueue(m, j)
    BY <1>2 DEF Send
  <2> QED
    BY <1>2, <2>1, WaitStays DEF Enqueue, Basis, TypeOK, QueueTypeOK
<1>3. ASSUME NEW j \in Jobs, SubmitEnqueue(j) PROVE StragglersWait'
  BY <1>2, <1>3 DEF SubmitEnqueue
<1>4. ASSUME NEW w \in Workers, ReconcileStep(w) PROVE StragglersWait'
  <2>1. CASE ReconcileSend(w)
    <3>1. PICK j \in Jobs : Send(j)
      BY <2>1 DEF ReconcileSend, Basis, TypeOK
    <3> QED
      BY <1>2, <2>1, <3>1 DEF ReconcileSend
  <2> QED
    BY <1>4, <1>a, <2>1 DEF ReconcileStep, ReconcileRead, ReconcileError
<1>5. ASSUME NEW w \in Workers, NEW m \in Msgs, Receive(w, m) PROVE StragglersWait'
  <2>1. /\ UNCHANGED <<status, fresh, msgState, msgJob>> /\ vis[m] = 0
        /\ held' = [held EXCEPT ![w] = m]
        /\ \A n \in Msgs : n # m => msgCount'[n] = msgCount[n] /\ vis'[n] = vis[n]
    BY <1>5 DEF Receive, Deliver, Visible, Basis, TypeOK, QueueTypeOK
  <2>2. ASSUME NEW n \in Msgs, vis[n] > 0, \A v \in Workers : held[v] # n
        PROVE  n # m /\ \A v \in Workers : held'[v] # n
    BY <2>1, <2>2 DEF Basis, TypeOK
  <2> QED
    BY <2>1, <2>2, WaitStays
<1>6. ASSUME NEW w \in Workers,
             ProcessUnknown(w) \/ ClaimRefused(w) \/ HandlerReturns(w) \/ MarkRead(w)
             \/ MarkSucceededError(w)
      PROVE  StragglersWait'
  BY <1>6, <1>a
  DEF ProcessUnknown, ClaimRefused, HandlerReturns, WorkDone, PermanentFailure,
      TransientFailure, MarkRead, MarkSucceededError, Goto, Healthy
<1>7. ASSUME NEW w \in Workers, ClaimJob(w) PROVE StragglersWait'
  BY <1>7, <1>a DEF ClaimJob, Take, Goto, Basis, TypeOK, RowsTypeOK
<1>8. ASSUME NEW w \in Workers, MarkNothing(w) \/ MarkMissed(w) PROVE StragglersWait'
  <2>1. UNCHANGED <<queueVars, status>>
    BY <1>8 DEF MarkNothing, MarkMissed, Die
  <2>2. \A m \in Msgs : (\A v \in Workers : held[v] # m) => \A v \in Workers : held'[v] # m
    BY <1>8, <1>b DEF MarkNothing, MarkMissed, Die, Replace
  <2>3. \A v \in Workers, j \in Jobs : fresh'[v][j] # NullLease => fresh[v][j] # NullLease
    BY <1>8 DEF MarkNothing, MarkMissed, AfterMark, Loop, Goto, Die, Replace, Basis, TypeOK
  <2> QED
    BY <2>1, <2>2, <2>3, WaitStays
<1>9. ASSUME NEW w \in Workers, MarkCommit(w) PROVE StragglersWait'
  <2>1. /\ UNCHANGED <<queueVars, fresh>> /\ AfterMark(w)
        /\ write[w] # NoWrite /\ CommitMark(job[w], write[w])
    BY <1>9 DEF MarkCommit, AfterMark, Loop, Goto
  <2>2. \A m \in Msgs : (\A v \in Workers : held[v] # m) => \A v \in Workers : held'[v] # m
    BY <1>b, <2>1
  <2>3. CASE write[w].to # "failed"
    <3>1. \A j \in Jobs : status'[j] = "failed" => status[j] = "failed"
      BY <2>1, <2>3, CommitOwn DEF Basis, TypeOK, RowsTypeOK
    <3> QED
      BY <2>1, <2>2, <3>1, WaitStays
  <2>4. CASE write[w].to = "failed"
    <3>1. /\ pc[w] = "failing" /\ held[w] \in Msgs /\ held[w] # NoMsg
          /\ rcount[w] < MaxAttempts /\ job[w] \in Jobs
      BY <2>1, <2>4, WorkerAssumption DEF Basis, Carries, Retryable
    <3>2. /\ msgState[held[w]] = "live" /\ msgJob[held[w]] = job[w]
          /\ msgCount[held[w]] = rcount[w] /\ rcount[w] \in Nat
      BY <3>1, QueueAssumption DEF HeldIsLive, Basis, TypeOK
    <3>3. msgCount[held[w]] < MaxReceive
      BY <3>1, <3>2, RowsAssumption, QueueAssumption DEF Healthy
    <3>4. vis[held[w]] > 0
      BY <3>1, <3>2, HeldUnseen, QueueAssumption DEF Basis, Healthy, Visible, TypeOK, QueueTypeOK
    <3>5. \A v \in Workers : held'[v] # held[w]
      <4>1. held'[w] = NoMsg /\ \A v \in Workers \ {w} : held'[v] = held[v]
        BY <2>1, <3>1 DEF AfterMark, Loop, LetGo, Basis, TypeOK
      <4> QED
        BY <3>1, <4>1, WorkerAssumption DEF Basis, HeldInvisible
    <3>6. \A j \in Jobs : j # job[w] => status'[j] = status[j]
      BY <2>1, CommitOwn DEF Basis
    <3> SUFFICES ASSUME NEW j \in Jobs, NEW v \in Workers, status'[j] = "failed",
                        fresh[v][j] # NullLease
                 PROVE  \E m \in Msgs :
                          /\ msgState[m] = "live" /\ msgJob[m] = j
                          /\ msgCount[m] < MaxReceive /\ vis[m] > 0
                          /\ \A u \in Workers : held'[u] # m
      BY <2>1 DEF StragglersWait
    <3>7. CASE j = job[w]
      BY <3>1, <3>2, <3>3, <3>4, <3>5, <3>7
    <3>8. CASE j # job[w]
      <4>1. PICK m \in Msgs :
              /\ msgState[m] = "live" /\ msgJob[m] = j
              /\ msgCount[m] < MaxReceive /\ vis[m] > 0
              /\ \A u \in Workers : held[u] # m
        BY <3>6, <3>8 DEF StragglersWait
      <4> QED
        BY <2>2, <4>1
    <3> QED
      BY <3>7, <3>8
  <2> QED
    BY <2>3, <2>4
<1>10. ASSUME NEW w \in Workers, Ack(w) PROVE StragglersWait'
  <2>1. /\ UNCHANGED <<status, fresh>> /\ LetGo(w)
        /\ \A m \in Msgs : m # held[w] =>
             /\ msgState'[m] = msgState[m] /\ msgJob'[m] = msgJob[m]
             /\ msgCount'[m] = msgCount[m] /\ vis'[m] = vis[m]
    BY <1>10 DEF Ack, Loop, AckMessage, DeleteMessage, Release, Basis, TypeOK, QueueTypeOK
  <2> QED
    BY <1>b, <2>1, WaitStays
<1>11. ASSUME NEW w \in Workers, HeartbeatStep(w) PROVE StragglersWait'
  <2>1. CASE \E j \in Jobs : HeartbeatCommit(w, j)
    BY <2>1, WaitStays DEF HeartbeatCommit, CommitLease, Basis, TypeOK
  <2>2. CASE Heartbeat(w) \/ HeartbeatMessageOnly(w) \/ HeartbeatRowOnly(w)
    <3>1. /\ UNCHANGED <<status, held, msgState, msgJob, msgCount>>
          /\ \A m \in Msgs : m # held[w] => vis'[m] = vis[m]
      BY <2>2
      DEF Heartbeat, HeartbeatMessageOnly, HeartbeatRowOnly, ExtendVisibility, Basis, TypeOK,
          QueueTypeOK
    <3>2. \A v \in Workers, j \in Jobs :
            fresh'[v][j] # NullLease => fresh[v][j] # NullLease \/ status[j] # "failed"
      <4>1. CASE UNCHANGED fresh
        BY <4>1
      <4>2. CASE ReadLease(w)
        <5>1. CASE status[job[w]] = "running"
          <6>1. \A v \in Workers, j \in Jobs : v # w \/ j # job[w] => fresh'[v][j] = fresh[v][j]
            BY <4>2 DEF ReadLease, Basis, TypeOK
          <6> QED
            BY <5>1, <6>1
        <5>2. CASE status[job[w]] # "running"
          BY <4>2, <5>2 DEF ReadLease, MayExtend
        <5> QED
          BY <5>1, <5>2
      <4> QED
        BY <2>2, <4>1, <4>2 DEF Heartbeat, HeartbeatMessageOnly, HeartbeatRowOnly
    <3> QED
      BY <3>1, <3>2, WaitStays
  <2> QED
    BY <1>11, <2>1, <2>2 DEF HeartbeatStep
<1>12. ASSUME NEW w \in Workers
       PROVE ~AckError(w) /\ ~Sigterm(w) /\ ~Crash(w) /\ ~ReturnOnDrain(w) /\ ~DrainedExit(w)
  BY DEF AckError, Sigterm, Crash, ReturnOnDrain, DrainedExit, HeldIsLive, Healthy
<1>13. ASSUME NEW m \in Msgs, DeadLetter(m) \/ DlqExpire(m) PROVE StragglersWait'
  <2>1. UNCHANGED <<rowVars, procVars>> /\ (msgState[m] # "live" \/ vis[m] = 0)
    BY <1>13 DEF DeadLetter, MoveToDlq, Visible, DlqExpire, DlqRetentionOver
  <2>2. \A n \in Msgs : n # m =>
          /\ msgState'[n] = msgState[n] /\ msgJob'[n] = msgJob[n]
          /\ msgCount'[n] = msgCount[n] /\ vis'[n] = vis[n]
    BY <1>13 DEF DeadLetter, MoveToDlq, DlqExpire, DlqRetentionOver, Release, Basis, TypeOK,
       QueueTypeOK
  <2> QED
    BY <2>1, <2>2, WaitStays
<1>14. ASSUME Tick PROVE StragglersWait'
  <2>1. \A v \in Workers, j \in Jobs : fresh'[v][j] = NullLease
    BY <1>14 DEF Tick, InTime, Healthy, Later, LeaseOver, NullLease
  <2> QED
    BY <2>1 DEF StragglersWait
<1>15. ASSUME UNCHANGED vars PROVE StragglersWait'
  BY <1>15, <1>a DEF vars
<1> QED
  BY <1>1, <1>3, <1>4, <1>5, <1>6, <1>7, <1>8, <1>9, <1>10, <1>11, <1>12, <1>13, <1>14, <1>15
  DEF Next, SubmitStep, ProcessStep

LEMMA TendedInvariant ==
  ASSUME Healthy PROVE Spec => [](Basis /\ HeldIsLive /\ StragglersWait /\ RowsAreTended)
<1>1. Init => HeldIsLive /\ StragglersWait /\ RowsAreTended
  BY DEF Init, RowsInit, HeldIsLive, StragglersWait, RowsAreTended
<1>2. Basis /\ HeldIsLive /\ StragglersWait /\ RowsAreTended /\ [Next]_vars =>
        HeldIsLive' /\ StragglersWait' /\ RowsAreTended'
  BY HeldLiveNext, WaitNext, TendedNext
<1>3. Spec => []Basis
  BY Typed, ExclusionInvariant, HeldInvariant, RetryableInvariant, PTL DEF Healthy, Basis
<1> QED
  BY <1>1, <1>2, <1>3, PTL DEF Spec

\* In a healthy execution no job is stranded: one without an outcome waits for
\* the reconciler, is being executed, or has a message that can start it.
THEOREM NobodyStranded == ASSUME Healthy PROVE Spec => []NoStranded
<1>1. RowsAreTended => NoStranded
  BY DEF RowsAreTended, NoStranded
<1> QED
  BY <1>1, TendedInvariant, PTL

\* In a healthy execution a row whose attempts are used up is at its last
\* attempt or has an outcome: mark_failed does not leave it to a claim that
\* would be refused.
THEOREM ExhaustionSettles == ASSUME Healthy PROVE Spec => []ExhaustedIsSettled
<1>1. Basis /\ RowsAreTended => ExhaustedIsSettled
  BY RowsAssumption
  DEF Basis, RowsAreTended, Retryable, FailedIsRetryable, ExhaustedIsSettled, TypeOK,
      RowsTypeOK
<1> QED
  BY <1>1, TendedInvariant, PTL

=============================================================================
