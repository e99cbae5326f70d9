------------------------------- MODULE Worker -------------------------------
(* The job system as it runs: API tasks that submit jobs, worker processes    *)
(* (apps/worker/main.py), the jobs table (JobRows) and the queue (JobQueue).  *)
(*                                                                            *)
(* A worker process is identified by its slot w; pc[w] is where its loop is:  *)
(*   idle       at the top of the while loop, or polling                      *)
(*   sweeping   in reconcile(), between two enqueues                          *)
(*   got        holding a message receive() returned, not yet claimed         *)
(*   rejecting  the kind has no handler: in mark_dead                         *)
(*   running    in the handler                                                *)
(*   finishing  the handler returned: in mark_succeeded                       *)
(*   acking     the row says succeeded, the message is not yet deleted        *)
(*   burying    the handler raised PermanentFailure: in mark_dead             *)
(*   failing    anything else was raised inside the try: in mark_failed       *)
(*   dropping   only the ack is left                                          *)
(* A mark_ function that has read the row and not yet committed has its       *)
(* UPDATE in write[w].  The heartbeat thread of a process() call runs beside  *)
(* it; fresh[w][j] is the lease it is about to commit to row j.               *)
(* When a process ends (crash, SIGKILL, drain or an exception main() does not *)
(* catch) another takes its slot: a new process has a new WORKER_ID, so what  *)
(* the old one owned becomes owned by Ghost.                                  *)
EXTENDS JobRows, JobQueue

CONSTANTS
  Unknown,     \* jobs whose kind has no handler
  NoMsg,       \* the process holds no message
  Crashes,     \* BOOLEAN: processes may die at any point
  Drains,      \* BOOLEAN: processes may be sent SIGTERM
  MaySend,     \* BOOLEAN: the role the workers run under may send to the queue
  LateErrors,  \* BOOLEAN: a call that took effect may raise afterwards
  Grace,       \* ticks within which a process beats; 0: there is no such limit
  NoWrite      \* the process is not between a read and its commit

\* In a timely execution a process that holds a message has, within Grace of
\* receiving it and of each heartbeat, sent the next heartbeat or finished: 60
\* seconds in the code, against 300 of lease and of visibility.
Timely == Grace > 0

\* What mark_succeeded, mark_failed or mark_dead may be about to commit.
Writes == [to : {"succeeded", "failed", "dead"}, cols : SUBSET Columns]

ASSUME WorkerAssumption ==
  /\ Unknown \subseteq Jobs
  /\ NoMsg \notin Msgs
  /\ NoJob \notin Jobs
  /\ Crashes \in BOOLEAN
  /\ Drains \in BOOLEAN
  /\ MaySend \in BOOLEAN
  /\ LateErrors \in BOOLEAN
  /\ Grace \in Nat
  /\ Timely => Grace < Visibility /\ Grace <= Lease
  /\ NoWrite \notin Writes

VARIABLES
  pc, held, job, rcount,  \* per process: control, message, its payload, its receive_count
  draining,               \* per process: _shutdown is set
  sweep,                  \* per process: rows reconcile() read and has still to enqueue
  write,                  \* per process: the UPDATE a mark_ function is about to commit
  fresh,                  \* per process and row: the lease a heartbeat is about to commit
  since,                  \* per process, if timely: ticks since it received or beat
  sending,                \* jobs an API task committed and has still to enqueue
  done                    \* history: jobs whose handler has returned

procVars == <<pc, held, job, rcount, draining, sweep, write, fresh, since>>
vars == <<rowVars, queueVars, procVars, sending, done>>

PCs == {"idle", "sweeping", "got", "rejecting", "running", "finishing", "acking",
        "burying", "failing", "dropping"}

\* Inside process()'s try block: the heartbeat thread runs.
TryPCs == {"running", "finishing", "acking", "burying", "failing"}

TypeOK ==
  /\ RowsTypeOK
  /\ QueueTypeOK(Jobs)
  /\ pc \in [Workers -> PCs]
  /\ held \in [Workers -> Msgs \cup {NoMsg}]
  /\ job \in [Workers -> Jobs \cup {NoJob}]
  /\ rcount \in [Workers -> 0..MaxReceive]
  /\ draining \in [Workers -> BOOLEAN]
  /\ sweep \in [Workers -> SUBSET Jobs]
  /\ write \in [Workers -> Writes \cup {NoWrite}]
  /\ fresh \in [Workers -> [Jobs -> NullLease..Lease]]
  /\ since \in [Workers -> 0..Grace]
  /\ sending \in SUBSET Jobs
  /\ done \in SUBSET Jobs

Init ==
  /\ RowsInit
  /\ QueueInit
  /\ pc = [w \in Workers |-> "idle"]
  /\ held = [w \in Workers |-> NoMsg]
  /\ job = [w \in Workers |-> NoJob]
  /\ rcount = [w \in Workers |-> 0]
  /\ draining = [w \in Workers |-> FALSE]
  /\ sweep = [w \in Workers |-> {}]
  /\ write = [w \in Workers |-> NoWrite]
  /\ fresh = [w \in Workers |-> [j \in Jobs |-> NullLease]]
  /\ since = [w \in Workers |-> 0]
  /\ sending = {}
  /\ done = {}

-----------------------------------------------------------------------------
(* Control of one process.                                                    *)

\* The process moves on with the message it holds.
Goto(w, next) ==
  /\ pc' = [pc EXCEPT ![w] = next]
  /\ write' = [write EXCEPT ![w] = NoWrite]
  /\ UNCHANGED <<held, job, rcount, draining, sweep, fresh, since>>

\* Back to the top of the loop with no message.
LetGo(w) ==
  /\ pc' = [pc EXCEPT ![w] = "idle"]
  /\ held' = [held EXCEPT ![w] = NoMsg]
  /\ job' = [job EXCEPT ![w] = NoJob]
  /\ rcount' = [rcount EXCEPT ![w] = 0]
  /\ write' = [write EXCEPT ![w] = NoWrite]
  /\ since' = [since EXCEPT ![w] = 0]

\* process() returned.  It does not wait for its heartbeat thread, which may
\* still be about to commit.
Loop(w) ==
  /\ LetGo(w)
  /\ UNCHANGED <<draining, sweep, fresh>>

\* The process ended, its threads with it, and a new one is in its slot.
Replace(w) ==
  /\ LetGo(w)
  /\ draining' = [draining EXCEPT ![w] = FALSE]
  /\ sweep' = [sweep EXCEPT ![w] = {}]
  /\ fresh' = [fresh EXCEPT ![w] = [j \in Jobs |-> NullLease]]

\* The process died in the middle of something.
Die(w) ==
  /\ owner' = [j \in Jobs |-> IF owner[j] = w THEN Ghost ELSE owner[j]]
  /\ Replace(w)
  /\ UNCHANGED <<status, attempt, lease, age, queueVars, sending, done>>

\* Identities of messages are reused once no process can still name them.
Send(j) == \E m \in Msgs : (\A w \in Workers : held[w] # m) /\ Enqueue(m, j)

-----------------------------------------------------------------------------
(* API tasks: commit the row first, enqueue after (apps/api/app/submit.py).   *)

SubmitCommit(j) ==
  /\ InsertRow(j)
  /\ sending' = sending \cup {j}
  /\ UNCHANGED <<queueVars, procVars, done>>

SubmitEnqueue(j) ==
  /\ j \in sending
  /\ Send(j)
  /\ sending' = sending \ {j}
  /\ UNCHANGED <<rowVars, procVars, done>>

\* The API task died, or the enqueue raised, between the two.
SubmitLost(j) ==
  /\ j \in sending
  /\ sending' = sending \ {j}
  /\ UNCHANGED <<rowVars, queueVars, procVars, done>>

\* The episode of the job is deleted, whatever the job is doing.
DeleteJob(j) ==
  /\ DeleteRow(j)
  /\ UNCHANGED <<queueVars, procVars, sending, done>>

-----------------------------------------------------------------------------
(* reconcile(): read the stale rows, then enqueue them one by one.            *)

ReconcileRead(w) ==
  /\ pc[w] = "idle" /\ ~draining[w]
  /\ StaleQueuedJobs # {}
  /\ sweep' = [sweep EXCEPT ![w] = StaleQueuedJobs]
  /\ pc' = [pc EXCEPT ![w] = "sweeping"]
  /\ UNCHANGED <<rowVars, queueVars, held, job, rcount, draining, write, fresh, since,
                 sending, done>>

\* Where the workers' role may not send (the SQS deployment grants only the API
\* sqs:SendMessage: terraform/sqs.tf) the enqueue always raises.
ReconcileSend(w) ==
  /\ pc[w] = "sweeping"
  /\ MaySend
  /\ \E j \in sweep[w] :
       /\ Send(j)
       /\ sweep' = [sweep EXCEPT ![w] = @ \ {j}]
       /\ pc' = [pc EXCEPT ![w] = IF sweep[w] = {j} THEN "idle" ELSE "sweeping"]
  /\ UNCHANGED <<rowVars, held, job, rcount, draining, write, fresh, since, sending, done>>

\* An enqueue raised: main() logs it and goes on, the rest is left unsent.
ReconcileError(w) ==
  /\ pc[w] = "sweeping"
  /\ sweep' = [sweep EXCEPT ![w] = {}]
  /\ pc' = [pc EXCEPT ![w] = "idle"]
  /\ UNCHANGED <<rowVars, queueVars, held, job, rcount, draining, write, fresh, since,
                 sending, done>>

-----------------------------------------------------------------------------
(* The loop and process().                                                    *)

Receive(w, m) ==
  /\ pc[w] = "idle" /\ ~draining[w]
  /\ Deliver(m)
  /\ pc' = [pc EXCEPT ![w] = "got"]
  /\ held' = [held EXCEPT ![w] = m]
  /\ job' = [job EXCEPT ![w] = msgJob[m]]
  /\ rcount' = [rcount EXCEPT ![w] = msgCount[m] + 1]
  /\ UNCHANGED <<rowVars, draining, sweep, write, fresh, since, sending, done>>

\* SIGTERM came while polling: give the message back at once and stop.  A
\* handle that is no longer current makes SQS raise, which stops it as well.
ReturnOnDrain(w) ==
  /\ pc[w] = "got" /\ draining[w]
  /\ \/ ExtendVisibility(held[w], rcount[w], 0)
     \/ ~Current(held[w], rcount[w]) /\ UNCHANGED queueVars
  /\ Replace(w)
  /\ UNCHANGED <<rowVars, sending, done>>

\* A kind without a handler: the row is marked dead, then the message acked.
ProcessUnknown(w) ==
  /\ pc[w] = "got" /\ ~draining[w]
  /\ job[w] \in Unknown
  /\ Goto(w, "rejecting")
  /\ UNCHANGED <<rowVars, queueVars, sending, done>>

ClaimJob(w) ==
  /\ pc[w] = "got" /\ ~draining[w]
  /\ job[w] \notin Unknown
  /\ Claimable(job[w])
  /\ Take(job[w], w)
  /\ Goto(w, "running")
  /\ UNCHANGED <<queueVars, sending, done>>

\* claim_job() skips a row another transaction has locked: a rival process
\* with a message for the same job may be claiming, extending or marking it,
\* and any heartbeat may be committing to it.
RowLocked(j, w) ==
  \/ \E v \in Workers \ {w} : job[v] = j /\ pc[v] \in TryPCs \cup {"got", "rejecting"}
  \/ \E v \in Workers : fresh[v][j] # NullLease

\* Finished, leased to another, deleted or locked: drop the message.
ClaimRefused(w) ==
  /\ pc[w] = "got" /\ ~draining[w]
  /\ job[w] \notin Unknown
  /\ ~Claimable(job[w]) \/ RowLocked(job[w], w)
  /\ Goto(w, "dropping")
  /\ UNCHANGED <<rowVars, queueVars, sending, done>>

\* The three ways a handler ends.
WorkDone(w) ==
  /\ pc[w] = "running"
  /\ done' = done \cup {job[w]}
  /\ Goto(w, "finishing")
  /\ UNCHANGED <<rowVars, queueVars, sending>>

PermanentFailure(w) ==
  /\ pc[w] = "running"
  /\ Goto(w, "burying")
  /\ UNCHANGED <<rowVars, queueVars, sending, done>>

TransientFailure(w) ==
  /\ pc[w] = "running"
  /\ Goto(w, "failing")
  /\ UNCHANGED <<rowVars, queueVars, sending, done>>

-----------------------------------------------------------------------------
(* mark_succeeded, mark_failed and mark_dead: read, then commit.              *)

MarkPCs == {"finishing", "failing", "burying", "rejecting"}

\* Mutant of Verdict: marked succeeded however the handler ended.
VerdictAlways(w) ==
  CASE pc[w] \in {"finishing", "failing"} -> "succeeded"
    [] OTHER -> "dead"

\* What the row is to say.
Verdict(w) ==
  CASE pc[w] = "finishing" -> "succeeded"
    [] pc[w] = "failing" -> IF Exhausted(job[w], rcount[w]) THEN "dead" ELSE "failed"
    [] OTHER -> "dead"

\* Mutant of AfterMark: the message of a transient failure is acked.
AfterMarkAcking(w) ==
  \/ pc[w] = "finishing" /\ Goto(w, "acking")
  \/ pc[w] \in {"failing", "burying", "rejecting"} /\ Goto(w, "dropping")

\* The mark has returned.  After a transient failure the message is not acked:
\* it comes back when its visibility is over.
AfterMark(w) ==
  \/ pc[w] = "finishing" /\ Goto(w, "acking")
  \/ pc[w] = "failing" /\ Loop(w)
  \/ pc[w] \in {"burying", "rejecting"} /\ Goto(w, "dropping")

MarkRead(w) ==
  /\ pc[w] \in MarkPCs /\ write[w] = NoWrite
  /\ Exists(job[w])
  /\ write' = [write EXCEPT ![w] = Differing(job[w], Verdict(w))]
  /\ UNCHANGED <<rowVars, queueVars, pc, held, job, rcount, draining, sweep, fresh, since,
                 sending, done>>

\* The row is already gone: nothing to mark.
MarkNothing(w) ==
  /\ pc[w] \in MarkPCs /\ write[w] = NoWrite
  /\ ~Exists(job[w])
  /\ AfterMark(w)
  /\ UNCHANGED <<rowVars, queueVars, sending, done>>

MarkCommit(w) ==
  /\ write[w] # NoWrite
  /\ CommitMark(job[w], write[w])
  /\ AfterMark(w)
  /\ UNCHANGED <<queueVars, sending, done>>

\* The row went after it was read: the UPDATE matches no row and SQLAlchemy
\* raises StaleDataError.  After a success `except Exception` takes over; from
\* anywhere else it escapes main() and ends the process.  (A failure that
\* differs in no column at all has nothing to update.)
MarkMissed(w) ==
  /\ write[w] # NoWrite
  /\ ~Exists(job[w])
  /\ \/ /\ pc[w] = "finishing"
        /\ Goto(w, "failing")
        /\ UNCHANGED <<rowVars, queueVars, sending, done>>
     \/ /\ pc[w] # "finishing"
        /\ Die(w)
     \/ /\ write[w].to = "failed" /\ write[w].cols = {}
        /\ AfterMark(w)
        /\ UNCHANGED <<rowVars, queueVars, sending, done>>

\* Mutant of MarkSucceededError: the handler is run again, with no limit.
MarkSucceededErrorAgain(w) ==
  /\ pc[w] = "finishing"
  /\ Goto(w, "running")
  /\ UNCHANGED <<rowVars, queueVars, sending, done>>

\* mark_succeeded raised, before its commit took effect or after: `except
\* Exception` takes over.
MarkSucceededError(w) ==
  /\ pc[w] = "finishing"
  /\ \/ UNCHANGED rowVars
     \/ LateErrors /\ write[w] # NoWrite /\ CommitMark(job[w], write[w])
  /\ Goto(w, "failing")
  /\ UNCHANGED <<queueVars, sending, done>>

-----------------------------------------------------------------------------
Ack(w) ==
  /\ pc[w] \in {"acking", "dropping"}
  /\ AckMessage(held[w], rcount[w])
  /\ Loop(w)
  /\ UNCHANGED <<rowVars, sending, done>>

\* The ack of a job that succeeded raised, before or after SQS deleted the
\* message.  It stands inside the try, after the durable commit: `except
\* Exception` takes over here too.
AckError(w) ==
  /\ LateErrors
  /\ pc[w] = "acking"
  /\ \/ UNCHANGED queueVars
     \/ DeleteMessage(held[w])
  /\ Goto(w, "failing")
  /\ UNCHANGED <<rowVars, sending, done>>

-----------------------------------------------------------------------------
(* The heartbeat thread: the message first, then the row.                     *)

\* The thread reads the row; if it is still leased to this process, it is about
\* to commit a new lease.
ReadLease(w) ==
  /\ fresh[w][job[w]] = NullLease
  /\ fresh' = IF MayExtend(job[w], w) THEN [fresh EXCEPT ![w][job[w]] = Lease] ELSE fresh

\* Mutant of Heartbeat: it keeps the lease of the row and not the message.
HeartbeatOfRow(w) ==
  /\ pc[w] \in TryPCs
  /\ ReadLease(w)
  /\ since' = [since EXCEPT ![w] = 0]
  /\ UNCHANGED <<rowVars, queueVars, pc, held, job, rcount, draining, sweep, write,
                 sending, done>>

Heartbeat(w) ==
  /\ pc[w] \in TryPCs
  /\ ExtendVisibility(held[w], rcount[w], Visibility)
  /\ ReadLease(w)
  /\ since' = [since EXCEPT ![w] = 0]
  /\ UNCHANGED <<rowVars, pc, held, job, rcount, draining, sweep, write, sending, done>>

\* The message is extended; reading or committing the row raised.
HeartbeatMessageOnly(w) ==
  /\ pc[w] \in TryPCs
  /\ fresh[w][job[w]] = NullLease
  /\ ExtendVisibility(held[w], rcount[w], Visibility)
  /\ UNCHANGED <<rowVars, procVars, sending, done>>

\* The handle is stale and the backend does not mind (Redis ZADD XX): the row
\* is extended all the same.
HeartbeatRowOnly(w) ==
  /\ pc[w] \in TryPCs
  /\ ~Current(held[w], rcount[w])
  /\ ReadLease(w)
  /\ UNCHANGED <<rowVars, queueVars, pc, held, job, rcount, draining, sweep, write, since,
                 sending, done>>

\* The commit; the thread survives a StaleDataError.
HeartbeatCommit(w, j) ==
  /\ fresh[w][j] # NullLease
  /\ CommitLease(j, fresh[w][j])
  /\ fresh' = [fresh EXCEPT ![w][j] = NullLease]
  /\ UNCHANGED <<queueVars, pc, held, job, rcount, draining, sweep, write, since,
                 sending, done>>

-----------------------------------------------------------------------------
(* Processes come and go, messages are buried, time passes.                   *)

Sigterm(w) ==
  /\ Drains
  /\ ~draining[w]
  /\ draining' = [draining EXCEPT ![w] = TRUE]
  /\ UNCHANGED <<rowVars, queueVars, pc, held, job, rcount, sweep, write, fresh, since,
                 sending, done>>

DrainedExit(w) ==
  /\ pc[w] = "idle" /\ draining[w]
  /\ Replace(w)
  /\ UNCHANGED <<rowVars, queueVars, sending, done>>

\* SIGKILL, out of memory, a lost machine, or an exception process() lets out.
Crash(w) ==
  /\ Crashes
  /\ pc[w] # "idle"
  /\ Die(w)

DeadLetter(m) ==
  /\ MoveToDlq(m)
  /\ UNCHANGED <<rowVars, procVars, sending, done>>

DlqExpire(m) ==
  /\ \A w \in Workers : held[w] # m
  /\ DlqRetentionOver(m)
  /\ UNCHANGED <<rowVars, procVars, sending, done>>

\* Whoever holds a message may still wait, and no heartbeat is under way.
InTime ==
  \A w \in Workers : /\ held[w] # NoMsg => since[w] < Grace
                     /\ \A j \in Jobs : fresh[w][j] = NullLease

Tick ==
  /\ Timely => InTime
  /\ RowsTick
  /\ QueueTick
  /\ fresh' = [w \in Workers |-> [j \in Jobs |-> Later(fresh[w][j])]]
  /\ since' = [w \in Workers |-> IF Timely /\ held[w] # NoMsg THEN since[w] + 1 ELSE 0]
  /\ UNCHANGED <<pc, held, job, rcount, draining, sweep, write, sending, done>>

-----------------------------------------------------------------------------
SubmitStep(j) == SubmitCommit(j) \/ SubmitEnqueue(j) \/ SubmitLost(j) \/ DeleteJob(j)

ReconcileStep(w) == ReconcileRead(w) \/ ReconcileSend(w) \/ ReconcileError(w)

HandlerReturns(w) == WorkDone(w) \/ PermanentFailure(w) \/ TransientFailure(w)

ProcessStep(w) ==
  \/ ReturnOnDrain(w) \/ ProcessUnknown(w) \/ ClaimJob(w) \/ ClaimRefused(w)
  \/ HandlerReturns(w)
  \/ MarkRead(w) \/ MarkNothing(w) \/ MarkCommit(w) \/ MarkMissed(w)
  \/ MarkSucceededError(w) \/ Ack(w) \/ AckError(w)

HeartbeatStep(w) ==
  \/ Heartbeat(w) \/ HeartbeatMessageOnly(w) \/ HeartbeatRowOnly(w)
  \/ \E j \in Jobs : HeartbeatCommit(w, j)

Next ==
  \/ \E j \in Jobs : SubmitStep(j)
  \/ \E w \in Workers : ReconcileStep(w)
  \/ \E w \in Workers, m \in Msgs : Receive(w, m)
  \/ \E w \in Workers : ProcessStep(w)
  \/ \E w \in Workers : HeartbeatStep(w)
  \/ \E w \in Workers : Sigterm(w) \/ DrainedExit(w) \/ Crash(w)
  \/ \E m \in Msgs : DeadLetter(m) \/ DlqExpire(m)
  \/ Tick

Spec == Init /\ [][Next]_vars

(* Fairness of a healthy deployment, where processes stay up and dependencies *)
(* answer again after an error: time passes, a process that has something to  *)
(* do does it, a row is not locked by a rival every time a claim looks at it, *)
(* heartbeats are sent and commit, and a visible message is eventually        *)
(* received by one of the polling processes.  A sweep ends, but nothing makes *)
(* its enqueues succeed, nor those of the API.                                *)
Fairness ==
  /\ WF_vars(Tick)
  /\ \A w \in Workers :
       /\ WF_vars(ProcessStep(w))
       /\ SF_vars(ClaimJob(w))
       /\ WF_vars(Heartbeat(w))
       /\ \A j \in Jobs : WF_vars(HeartbeatCommit(w, j))
       /\ WF_vars(ReconcileSend(w) \/ ReconcileError(w))
  /\ \A m \in Msgs :
       /\ SF_vars(\E w \in Workers : Receive(w, m))
       /\ WF_vars(DeadLetter(m))
       /\ WF_vars(DlqExpire(m))

FairSpec == Spec /\ Fairness

(* On top of that, an API task comes to its enqueue and sends or loses it, the *)
(* sweep each process repeats every minute is made and, as often as it is     *)
(* possible, an enqueue of it succeeds.                                       *)
SweepingSpec ==
  /\ FairSpec
  /\ \A j \in Jobs : WF_vars(SubmitEnqueue(j) \/ SubmitLost(j))
  /\ \A w \in Workers : SF_vars(ReconcileRead(w)) /\ SF_vars(ReconcileSend(w))

-----------------------------------------------------------------------------
(* What the system must guarantee.                                            *)

Terminal == {"succeeded", "dead"}

\* At work on its job: claimed, and the outcome not yet in the row.
Executing(w) == pc[w] \in {"running", "finishing", "burying", "failing"}

\* Work is never reported that was not done: a row says succeeded only if a
\* handler for it returned, whichever processes lost their leases, crashed or
\* marked the row of another (mark_succeeded does not look at the owner).
SucceededIsDurable == \A j \in Jobs : status[j] = "succeeded" => j \in done

\* No lease is leaked: a row that names a live process is one this process is
\* executing, so no process leaves its name behind in a row it is done with,
\* however the marks and heartbeats of several of them interleave.  (A process
\* that lost its lease may have the outcome of another written over the row.)
NoLeakedLease ==
  \A j \in Jobs, w \in Workers : owner[j] = w => Executing(w) /\ job[w] = j

\* A failed row always has an attempt left to be claimed for ("After the last
\* attempt it is dead."): mark_failed counts the attempts of the row and not
\* only the deliveries of one message.  It holds while heartbeats are in time;
\* a process that lost its lease reads the attempt before another's claim and
\* commits after it.
FailedIsRetryable ==
  \A j \in Jobs : status[j] = "failed" => attempt[j] < MaxAttempts

\* While heartbeats are in time no job is executed by two processes at once,
\* over duplicate messages, crashes and heartbeats that straggle (claim_job).
ExclusiveExecution ==
  \A w, v \in Workers : w # v /\ Executing(w) /\ Executing(v) => job[w] # job[v]

\* While heartbeats are in time no message is in the hands of two processes:
\* the heartbeat is there so that long work is not delivered twice.
NoDoubleDelivery ==
  \A w, v \in Workers : w # v /\ held[w] # NoMsg => held[w] # held[v]

\* A terminal status is final; only the deletion of the row ends it.  The web
\* client stops polling at the first terminal status it sees.
TerminalIsFinal ==
  [][\A j \in Jobs : status[j] \in Terminal =>
       status'[j] \in {status[j], "deleted"}]_vars

\* The message of j can still make a process claim j.
CanWake(m, j) ==
  /\ msgState[m] = "live" /\ msgJob[m] = j
  /\ \/ msgCount[m] < MaxReceive /\ \A w \in Workers : held[w] # m
     \/ \E w \in Workers : held[w] = m /\ pc[w] = "got"

\* No job is stranded: one without an outcome is being executed, or has a
\* message that can start it, or is one the reconciler looks for.
NoStranded ==
  \A j \in Jobs : status[j] \in {"queued", "running", "failed"} =>
    \/ status[j] = "queued" /\ attempt[j] = 0
    \/ \E w \in Workers : Executing(w) /\ job[w] = j
    \/ \E m \in Msgs : CanWake(m, j)

\* After the last attempt a job is dead (or has succeeded): a row whose attempts
\* are used up and that has no outcome is being executed.  (No message could
\* start it again: the claim would be refused.)
ExhaustedIsSettled ==
  \A j \in Jobs :
    attempt[j] = MaxAttempts /\ status[j] \in {"queued", "running", "failed"} =>
      \E w \in Workers : Executing(w) /\ job[w] = j

\* A message returned on drain can make the next process start its job.
DrainReturnsMessage ==
  [][\A w \in Workers, m \in Msgs, j \in Jobs :
       /\ held[w] = m /\ job[w] = j /\ Current(m, rcount[w])
       /\ pc[w] = "got" /\ draining[w] /\ pc'[w] = "idle"
       => CanWake(m, j)']_vars

\* A job that has a message to start it comes to an outcome, over failures,
\* errors of the marks and duplicate messages.
SettledOnceSent ==
  \A j \in Jobs : (\E m \in Msgs : CanWake(m, j)) ~> status[j] \in Terminal \cup {"deleted"}

\* Every submitted job comes to an outcome, its enqueue lost or not.
EventuallySettled ==
  \A j \in Jobs : status[j] = "queued" ~> status[j] \in Terminal \cup {"deleted"}

\* The contract with the submitter, with the queue and the leases hidden.
Phase(j) ==
  CASE status[j] = "none" -> "absent"
    [] status[j] \in {"queued", "running", "failed"} -> "open"
    [] OTHER -> status[j]

PhaseBar == [j \in Jobs |-> Phase(j)]
BudgetBar == [j \in Jobs |-> MaxAttempts - attempt[j]]
CrewBar == [j \in Jobs |-> {w \in Workers : Executing(w) /\ job[w] = j}]

Contract == INSTANCE JobContract WITH
  phase <- PhaseBar, budget <- BudgetBar, crew <- CrewBar

\* The system keeps its contract: every step of it is a step of JobContract.
ImplementsContract == Contract!Spec

=============================================================================
