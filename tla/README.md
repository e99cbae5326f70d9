# Edlo: specifications and proofs

Edlo takes a podcast episode from a raw recording to a publishing pack. A FastAPI
service keeps the records (Postgres) and creates background jobs; worker processes
receive wake-up messages from a queue (SQS, or Redis in development), run the jobs
and write their results; a React client polls. This directory holds TLA+ modules
that model that system, TLC configurations that check them on small instances, and
TLAPS proofs of the properties that matter most for every value of the constants.

Run everything from this directory: `tlc -config worker_any.cfg MCWorker.tla`,
`tlapm WorkerProofs.tla`.

## 1. Inventory

| Component | State | Operations | Interacts with | Hard behaviour | What makes it correct |
|---|---|---|---|---|---|
| Job rows (`edlo/jobs/__init__.py`, `models.py`) | status, attempt, lease owner and expiry, creation time | claim, extend lease, mark succeeded / failed / dead, list stale | written by API (insert, delete) and workers | leases that expire under a live process; marks that do not look at the owner | one executor at a time, attempts bounded, terminal is final, nothing leaked or stranded |
| Worker (`apps/worker/main.py`) | loop position, held message, shutdown flag, heartbeat thread | receive, claim, run, mark, ack, heartbeat, reconcile, drain | queue, job rows, handlers | crash and SIGTERM anywhere, errors in each call, ack last | every job reaches an outcome, success is durable, nothing acked too early |
| Production queue (`queue/sqs_queue.py`, `terraform/sqs.tf`) | messages, receive counts, visibility, DLQ | enqueue, receive, ack, extend | API enqueues, workers receive | redelivery, stale handles, redrive | at least once; one holder while visibility is kept |
| Development queue (`queue/rq_queue.py`) | ready list, in-flight sorted set, dead list in Redis | enqueue, requeue expired, receive, ack, extend | same | each operation is several Redis commands | the same at-least-once semantics as SQS |
| Submission and idempotency (`apps/api/app/submit.py`, `idempotency.py`) | job rows' unique (kind, key), idempotency records | replay, create-or-find, enqueue, remember | API routes, queue | concurrent duplicates, crash between commits, retention | one job per key, one answer per key |
| Stage workflow (`services/workflow.py`, `routes/episodes.py`) | episode stage, published_at, transitions | transition, routes and jobs that move the stage | transcription, plan and pack jobs, approval, deletion | read-then-write without locks | only legal moves; the history explains the stage; published is terminal |
| Posting schedule (`services/schedule.py`) | posting slots | assign, next free slot, countdown | create_episode, set_slot | races between requests | one episode, one slot |
| Transcription artifacts (`jobs/transcribe.py`, `storage/`) | audio rows, transcript rows, storage objects | upload, complete, transcribe with cache, delete | worker, deletion | object and row cannot change together; zombies | a live row never points to a missing object |
| Deletion (`services/deletion.py`) | all rows of an episode, storage objects | delete rows, then objects | everything | races with jobs and shared artifacts | nothing left behind, nothing live broken |
| Plan (`jobs/plan.py`, `routes/plans.py`) | plan, cut items, cold opens, checklist | generate, regenerate, decide, pick, tick, export | AI gateway, workflow | regeneration against decisions; duplicates | one plan and one checklist per episode; decisions are kept or refused |
| Publishing pack (`jobs/pack.py`, `routes/publish.py`, `services/policy.py`) | pack, approval | generate, approve | workflow | approve against regenerate | only a checked pack is approved |
| AI layer (`ai/gateway.py`, `grounding.py`, `windows.py`) | none (pure), retry loops | classify errors, structured calls, windows, grounding, merge | plan and pack jobs | retries, boundaries | nothing ungrounded passes; no candidate is lost at a window edge |
| Web client (`apps/web/src`) | polled job, panels | poll, react once | API | late answers, terminal statuses | one reaction per job |
| Config, logging, auth, DB session, migrations, terraform, Docker, evals, CSS | configuration | none that the above depends on beyond the constants named here | | | not modelled: no behaviour of their own |

## 2. Plan

Modules, in order of importance. Those that exist are in bold.

| # | Module | What it models | Composed with | Proofs |
|---|---|---|---|---|
| 1 | **JobRows**, **JobQueue**, **Worker** | the job system in production | Worker EXTENDS the two others | **WorkerProofs** |
| 2 | **JobContract** | what a submitter is promised | refined by Worker | in **WorkerProofs** |
| 3 | **RQQueue** | the Redis queue, one step per command | | **RQProofs** |
| 4 | **AtLeastOnce** | what a consumer is promised | refined by RQQueue | in **RQProofs** |
| 5 | **Submission** | a route that creates a job, with its idempotency key | | **SubmissionProofs** |
| 6 | **Schedule** | the posting calendar | | **ScheduleProofs** |
| 7 | **Stages** | the workflow of one episode, the approval, the deletion | | **StagesProofs** |
| 8 | **PlanBoard** | plan generations and the editors' board | | **BoardProofs** |
| 9 | **Artifacts** | uploads, the transcript cache, shared objects, the deletion of objects | | **ArtifactsProofs** |
| 10 | **Windows**, **Grounding**, **Planning** | one plan job: windows, the gateway's retry loops, the windows it skips, grounding and merge under the cap | each EXTENDS the one before | **PlanningProofs** |
| 11 | JobPoll | `useJob` and the panels that react to a terminal status | JobContract as its environment | |

Abstract specifications: JobContract and AtLeastOnce. For Artifacts the promise is
one invariant (`RowsHaveObjects`, a row's object is there), stated as such.

Left of the plan: JobPoll.

Runs. Each run asks one question of one component. Two of the runs show a
disagreement between code and documentation; other executions of that kind
are kept as configurations outside the list of runs (section 6).

## 3. Modules and code

### Worker, JobRows, JobQueue (`apps/worker/main.py`, `edlo/jobs/__init__.py`, `edlo/queue/sqs_queue.py`)

State: the columns of a job row (`status`, `attempt`, `owner`, `lease`, `age`),
each message (`msgState`, `msgJob`, `msgCount`, `vis`), each process (`pc`, what it
holds, and the commits it is about to make: `write`, `fresh`), `sending` (an API
task between its commit and its enqueue) and the history `done` (handlers that
returned). One action per database or queue call, in the code's order: `Receive`,
`ClaimJob` / `ClaimRefused` / `ProcessUnknown`, the three ends of a handler, the marks,
`Ack`, the heartbeat thread, `ReconcileRead` / `ReconcileSend` / `ReconcileError`,
`ReturnOnDrain`, `Sigterm`, `Crash`. `Tick` lowers all timers; a lease is over below
zero (`lease_expires_at < now`), a message is visible at zero.

A claim locks the row it reads and is one step. `mark_succeeded`, `mark_failed`,
`mark_dead` and `extend_job_lease` read the row without a lock, decide on what they
read and commit later, and SQLAlchemy writes only the columns that differ from what
was read. So a mark is `MarkRead`, which puts the UPDATE (`Differing`, for the
outcome `Verdict` picks) into `write`, and `MarkCommit`, which applies it to the row
as it is by then; `MarkNothing` is a row already gone, `MarkMissed` one that goes in
between: SQLAlchemy's StaleDataError, which after a success is caught like any error
of the handler and otherwise ends the process. Likewise the heartbeat: the message,
then `ReadLease`, then `HeartbeatCommit`, which may come after the thread's job is
over. Other steps of other processes fall in between, another claim among them.

`MarkSucceededError` and `AckError` are there because both calls stand inside the
`try`: what raises there, before it took effect or (`LateErrors`) after, leads to
`mark_failed`. `MaySend` says whether the workers' role may send to the queue: in
the SQS deployment it may not (`terraform/sqs.tf:37-50`), and the reconciler's
enqueue always raises.

Time. `Timely` executions (`Grace > 0`) are those in which a process that holds a
message sends the next heartbeat, or is done, within `Grace` ticks of receiving it
and of each heartbeat, and a heartbeat's commit takes no tick: `since` counts, and
`InTime` guards `Tick`. `Grace` is less than the visibility timeout and no more than
the lease (60 seconds against 300). The visibility and the lease themselves guard
nothing: that a beat renews them is what the heartbeat's code does.

Abstractions: a process that ends is replaced in its slot and its leases become
those of `Ghost`; SQS delivers a message to one receiver at a time while its
visibility lasts (its rare duplicate deliveries are what the reconciler's
duplicates already exercise), and a lost `receive` response counts as a
process that crashed holding the message. Not modelled: `claim_next_job` (only
tests call it), the progress column, `depth()`, `delay_seconds` (no caller),
`sweep_scratch`.

### RQQueue, AtLeastOnce (`edlo/queue/rq_queue.py`)

One action per Redis command: `ScanExpired` / `Zrem` / `Rpush` are
`_requeue_expired`, `Brpop` / `PushDead` / `Zadd` the loop of `receive`, `Ack`,
`ExtendLease`. A member of the in-flight set is a pair (id, receive_count), which is
all the stored JSON tells apart. `lost` remembers the messages that were in a
process's memory only when it died. `ImplementsPromise` maps each id to one place of
AtLeastOnce, and a process that dies to a failure of a consumer. What AtLeastOnce
promises is what the code can keep, not what its docstring says
(`rq_crash_loses.cfg`): a failure may take one message with it, which is `lost` from
then on, and nothing else takes any.

### Submission (`apps/api/app/submit.py`, `idempotency.py`)

A request goes through `Lookup` (replay, conflict, miss, or a record past its
retention), `FlushDelete`, for an upload `Refuse` or `CheckUpload` and
`CommitReady`, then `CommitJob` (or its IntegrityError, whose rollback also takes
back the flushed delete), `Enqueue`, `Remember`. The delete is by primary key: it
takes whatever record is in the slot by then, a rival's fresh one too, waits for a
rival that holds the row (`WakeDelete`), and is durable with the next commit of its
transaction: the `ready` commit of `complete_upload`, the job's, or the answer's.
`Calls` are the routes' requests: key, route, body, the upload and the job key
derived from them. An answer is out of `AnswerIsKept` once its own retention has
passed (`aged`, forgotten when the request asks anew) or if it was given while
another request of its slot was in the middle of replacing the expired record
(`crossed`; its loss is `answer_deleted.cfg`). Answers that change nothing (403,
404, 422) have no action.

### Schedule (`edlo/services/schedule.py`, `routes/episodes.py`, `services/deletion.py`)

Each request is one READ COMMITTED transaction over the slot rows: `FindSlots` /
`ReleaseSlots` is the DELETE statement (what it finds, then the wait for locked
rows), `InsertSlot` the flushed INSERT with the unique day, then the commit, which
writes `publish_on` only if it differs from what the session loaded. Rows locked by
others are waited for; `DeadlockVictim` is the database's choice.

### Stages (`services/workflow.py`, `routes/episodes.py`, `routes/publish.py`, `jobs/*.py`, `services/deletion.py`, `services/policy.py`)

A transaction reads the episode (`ChangeStage`, `PlanReady`, `Transcribed`, `Draft`,
`Approve`, `Delete`), decides on what it read, and commits later (`CommitMove`,
`CommitTranscript`, `CommitPack`, `CommitViolations`, `CommitDelete`). The approval
reads three things at three moments: episode, pack, transcript. A pack is reduced to
the set of transcripts it is clean for and whether violations are written on it.
`torn` is set by a commit made on a stage that had moved since it was read, and by
nothing else. Overlapping pack jobs leave two pack rows; the model keeps the latest,
the only one that is read.

### PlanBoard (`jobs/plan.py`, `routes/plans.py`)

A save deletes cuts, cold opens and plan (`Delete`, `Wake`), flushes the new plan
and counts the checklists (`Fill`), and commits or dies. Editors' requests load a
row and commit the columns that differ. A cut is reduced to its edited span, a
generation to its number; `decision`, ticked steps and texts are columns
that nothing else reads. Rows of a generation disappear with its delete.

### Artifacts (`jobs/transcribe.py`, `routes/audio.py`, `services/deletion.py`, `routes/episodes.py`, `storage/`)

Four kinds of actors. The client of an audio file: `AskTarget` and `CommitTarget`
are `create_upload_target`, `Put` the upload that goes straight to storage,
`Complete` and `Submit` (or `QueueNothing`) `complete_upload`, `AskAgain` the
client's retry. An execution of `transcribe_audio`: `Begin` is GUARD 1, the audio
row and the cache lookup, `Fetch` the download, `Undecodable` a permanent failure,
`Save` the artifact, `PersistRead` and `Commit` `_persist`, `Finish` the worker's
mark, `Die` the end of an execution anywhere in between. The deletion: `Collect` the
keys no other episode shares, `DeleteRows` (or `Rollback`), then `Remove` /
`RemoveFails` of one object after the other. There are no foreign keys, so inserts
succeed whatever was deleted since.

Abstractions: an object is its content, a checksum is the bytes it was computed
from, a key is opaque, and an audio file is its own key. `Put` may store other bytes
than the client sent, and with `Resends` again at any later time: the upload target
stays valid after the upload is complete. `Complete` compares checksums only if
storage kept one (`kept`, chosen from `Keeping`); if not, it believes the client
(`audio.py:140`, `154`). `unchecked` collects the contents of which some recording
was accepted unverified or replaced afterwards. An artifact a deletion had collected
when a cache hit pointed at it is `crossed`. `Deletable` (the episodes somebody
deletes) and `MaxRows` are bounds.

### Windows, Grounding, Planning (`ai/windows.py`, `ai/grounding.py`, `ai/gateway.py`, `jobs/plan.py`, `routes/flags.py`)

Windows is the loop of `make_windows`, a step for each turn. Grounding is `validate`
and `merge` as operators on sequences of candidates. Planning is one plan job:
`Load` / `LoadNothing`, `MakeWindow`, two calls for each window (`Answer`, and for
an error `TryAgain`, `SkipWindow` or `ModelUnavailable`, by the attempt and by
`Classify`), `Check`, `Save`; `Die` is an execution that ends anywhere;
`Redelivered` starts the job over, and may never come (`crash_strands`). `AddFlag`
and `RemoveFlag` run beside it. The job reads the flags once (`flagsRead`).

Abstractions: a segment is a span in which someone speaks; of a quote only what
the rules ask is kept, whether it is too short and which sets of segments say it; the
two providers have the same retry loop and are one set of actions; prompts and
the length of the backoff are left out. What the save does to an earlier plan
is PlanBoard; who redelivers, and when, is Worker.

## 4. Runs

| Run | Question | Bounds and why they are enough |
|---|---|---|
| `worker_any` | what holds in every execution: heartbeats of any lateness (`Grace` 0), marks and heartbeats that commit over another's claim, calls that raise after they took effect, crashes, drains, deletion | 1 job, 2 processes, 2 attempts, 3 deliveries of 1 message: while a zombie holds it the message is delivered to a rival, up to the last attempt |
| `worker_timely` | exclusion, retries, finality and the contract when heartbeats are in time and no call raises after it took effect | 2 jobs, one of an unknown kind, 2 processes, 2 messages, 2 attempts and deliveries, `StaleAfter` 0 (duplicates at once), crashes but no drains (a drain without a crash is in `worker_any`) |
| `worker_live` | in a healthy system no job is out of reach, and one that has a message comes to an outcome | 1 job, 2 processes, 2 messages, 3 attempts and 3 deliveries as in the code; no crashes, drains or late errors; without symmetry, under fairness |
| `rq` | the Redis queue under one crash anywhere | 2 messages, 2 processes, 2 deliveries; a race needs two of each |
| `submit` | one job, one message, one answer | 2 requests over two keys, bodies and uploads; faults and retention on, requests ask anew without limit |
| `calendar` | slots and dates | 2 requests, 2 episodes, 4 days: a swap, a contest for one day, a late registration |
| `board` | plan saves and editors | 2 jobs, 2 editors, 2 generations, 2 cold opens; timecodes {0, 1, 2}, enough for an empty span |
| `stages` | from registration to publication or deletion | 2 transactions, 4 moves (registered, blocked, review, published and one more), 2 transcripts, 2 packs; the stage route asks for `Targets`: those that lead to publication and around it, one that nobody may set and an unknown one (transcription and plan jobs move to `mixing` and `plan_ready`) |
| `artifacts` | rows, objects and what is in them | 2 episodes, one of them deleted, 2 audio files, 1 content and a damaged one, 2 executions, 2 rows, storage with and without checksums, targets used again: a cache hit over two episodes, two jobs for equal bytes, a deletion in between. Two deletions at once are in `artifact_races.cfg` |
| `planning` | one plan job from its transcript to its plan | windows of 5 that share 2; a transcript of three windows and one whose first two windows are silent; two flags under a cap of 2; a timeout, a 429, a 401 and schema violations; 2 executions, the second of which may not come; candidates that break each rule |
| `crash_strands` | (violation) one crash strands a job | 1 crash-capable instance |
| `published_reverts` | (violation) a published episode is taken back | 2 transactions |

What the passing runs show.

* **Jobs.** `SucceededIsDurable` and `NoLeakedLease` hold whatever goes wrong: a
  zombie's late UPDATE may write its outcome over another's, but no row says
  succeeded for work that was not done, and none keeps the name of a process that is
  not at it. With heartbeats in time (`Timely`) a job is executed by one process at
  a time, a message is in one process's hands, and a failed row has an attempt left
  (`ExclusiveExecution`, `NoDoubleDelivery`, `FailedIsRetryable`); if moreover no
  call raises after it took effect, an outcome is final and Worker implements
  JobContract. Without crashes and drains `NoStranded` (every open job is executed,
  never begun, or has a message that can start it), `ExhaustedIsSettled`, and every
  job with a message that can wake it comes to an outcome (`SettledOnceSent`). A job
  whose first enqueue is lost has no such message: it depends on the reconciler,
  which in the SQS deployment cannot send (`lost_enqueue.cfg`).
* **Redis queue.** One copy of a message at all times (`ExactlyOneCopy`), over
  racing requeues, late acks and late heartbeats; a dead message was delivered as
  often as allowed; every message is acked, buried, or was lost to a crash, one for
  each at most.
* **Submission.** One message per job at most and none before the row, an answer
  stays on record until its retention ends unless it crossed another request's
  delete, and each row is sent unless its request failed in between.
* **Calendar.** A registered episode is never without a slot; calendar and
  episode agree unless two requests worked on that episode at the same time.
* **Workflow.** Whatever overlaps, a published episode has its date, a pack and a
  transcript (`PublishedIsBacked`), and a deleted episode does not come back: no
  transaction that had read it restores its row or adds to its history
  (`DeletedStaysDeleted`). Unless a commit was made on a stage that had moved, the
  history is a chain that explains the stage, and published stays published. The
  approval's verdict is about the pack and transcript that are published, if these
  stayed as it read them (`GateHolds`).
* **Plan.** Whatever overlaps, a plan never loses its cuts or cold opens and stays
  (`PlansAreWhole`), and one cold open at most is picked (the bulk UPDATE locks
  the plan's rows). Saves that do not overlap leave one plan and one checklist;
  spans go forward unless two requests edit one cut at once.
* **Artifacts.** A transcript that can be read is that of the bytes its client
  uploaded (`ContentIsTrue`), through damaged uploads, the cache and executions that
  overlap, if storage checked those bytes and nobody put others afterwards. A live
  row's object is there, but for the artifact a cache hit pointed at after a
  deletion had collected it (`RowsHaveObjects`, `crossed`). Whatever was uploaded to
  an episode that exists has its row (`UploadsAreFound`). An execution repeated
  after its own row adds none (`RetryAddsNothing`).
* **Planning.** Every moment up to the overlap is inside a window (`Covered`);
  the plan is made of whole windows only and a transient error never drops one
  (`AllOrNothing`); kept plus rejected is what was proposed (`Accounted`); flags stand
  first and the cap takes the least sure (`CapIsFair`); an execution comes
  to its end, saved, failed or stopped, whatever the model answers (`GenerationEnds`).

`TypeOK` is an invariant of `worker_any`, `submit` and `calendar`; in Worker,
Submission, Schedule, Stages, RQQueue and Artifacts it is proved, and in PlanBoard
as `Typed` but for the bound of the checklists.

Deadlock is checked in every run but `calendar`, `board`, `stages`, `artifacts`,
`planning` and `published_reverts`, where the system may really stop. `planning` stops when
the job is over, `artifacts` when the uploads and episodes of the instance are used
up. In `calendar`, `stages` and
`published_reverts` all ids or rows of the bounds are used up, or the episode is
deleted and every request answers 404. `board` (and `edits_cross`) stops when the
generations are used up and a job waits to number another.

Symmetry is used for processes, messages, requests, editors, jobs, episodes, audio
files, contents and executions, in runs without liveness properties only.

### Fairness

`worker_live` uses `FairSpec` of Worker: weak fairness on the tick, on each
process's next step, on the heartbeat and its commit, and on ending a sweep, with or
without an enqueue; strong fairness where an attempt can fail time and again but
does not for ever: a claim (a rival may hold the row lock at that moment), and the
receive of a visible message by one of the polling processes. The processes poll in
an endless loop, so this is what the code's scheduling gives while processes stay up
and dependencies answer again. Nothing is assumed of an enqueue, the API's or the
reconciler's. `SweepingSpec`, for `lost_enqueue.cfg` only, assumes sweeps that are
made every minute and an enqueue that succeeds as often as the role may send: even
so the job is never sent when it may not.

`rq` needs weak fairness only: time passes, and each process keeps polling and
finishes its work. `planning` needs weak fairness of the job's own steps together
(`Progress`): a process that executes the handler goes on with it, and every call
returns or times out. That a job whose process died is executed again is not assumed.

## 5. Proofs

All theorems are for every number of jobs, processes, messages, requests,
episodes and days, and for any lease, visibility and limits the named assumptions
of the modules allow.

* **WorkerProofs.** `TypeCorrect` needs `Carries` (a live message has a job, a busy
  process a message and a job). The next two have no hypothesis. `LeaseNotLeaked`:
  the invariant `LeaseInv` adds that an UPDATE read from a row that names its
  process will clear the name, for only the process's own claim could have put it
  there since, and that a row that is gone names nobody. `SuccessIsDurable`:
  `FinishingIsDone` says that a process in `mark_succeeded` has seen its handler
  return, and an UPDATE to `succeeded` is only made there.

  Under `Timely`: the invariant `Exclusion` says that processes in the try block
  have different jobs (`OneAttempt`); that the row of such a job is leased to its
  process, deleted, or succeeded (`Owns`), and that what a mark is about to write
  covers every column (`Leased`); that unknown kinds are never claimed; and that a
  commit of the heartbeat writes a full lease (`FreshIsFull`). The step that needs
  care is the tick: the lease left plus the ticks since the last beat is at least
  `Lease`, so a process still in time has not lost it. From it follow
  `ExecutionIsExclusive`, for a leased row is not claimable, and
  `FailureIsRetryable` (`Retryable`: the attempt `mark_failed` read is still the
  row's when it commits). `DeliveryIsExclusive` has the same argument for the queue:
  `HeldInvisible` says that the visibility left of a held message plus the ticks
  since the last beat is at least `Visibility`, so it is not delivered again before
  the next beat. `ContractKept` and `OutcomeIsFinal`, under `Timely` and
  `~LateErrors`: each action maps to one action of JobContract or a stutter, since
  the crew of a job has one member, and that one found the row without an outcome.

  `NobodyStranded` and `ExhaustionSettles` are about a system in which nothing fails
  (`Healthy`: `Timely`, no crash, no drain, no late error) and whose queue gives up
  on a message no sooner than the worker on a job (`MaxAttempts <= MaxReceive`; both
  are 3). Each hypothesis is needed: with crashes the statement is false
  (`crash_strands`), and so it is with drains (`drain_dead_letters.cfg`). The
  invariant adds `HeldIsLive` (what a process holds is a live message, received as
  often as the queue has counted), `RowsAreTended` (`running` means that a process
  is at it, `failed` that a live message with a delivery left will wake it, `queued`
  that it was never begun) and `StragglersWait` (while a late heartbeat holds the
  lock of a failed row, the row's message is still invisible, so no claim is refused
  for good because of it). The step that needs the care is the commit of a failure:
  the row is not exhausted, so the message it came with has a delivery to come. TLC
  checked this invariant on `worker_live`.
* **RQProofs.** A message is carried by a process (`Carrying`: between two commands,
  with a member Redis knows nothing of), listed, stored in the sorted set, or dead.
  `OnePlace` says it is in one of these at most, and once; `SomePlace` that until it is
  acked or lost it is in one; `CountsAgree` that each copy carries the number of
  its deliveries, so that a member a late heartbeat or ack names is the one it
  received or nothing. A ZREM that finds nothing pushes nothing, which is why two processes
  that requeue one member leave one copy. From these `OneCopyKept` (with the cardinalities
  that count copies), `BurialIsDue`, and `PromiseKept`: each command maps to an
  action of AtLeastOnce or a stutter, and a crash to `Fail`, with the one message that
  was in the process's memory, if any (`SeenFail`). A lost message has a place of its own
  that no action leaves.
* **SubmissionProofs.** The invariant adds `Sending` (a request between commit and
  enqueue is alone with its job, whose message is not sent), `Recorded` (a record is
  the answer to some call whose job exists; only a request between its lookup and
  its answer holds a delete) and `Kept` (an answer that is promised is on record,
  fresh, and nobody holds a delete of it or what it read before). From it
  `JobSentOnce`, `AnswersAreKept`, `RowsAreSent`.
* **ScheduleProofs.** `OwnRows` (a request holds rows of its own episode only) and
  `Locks` (a deleted row has one deleter, a flushed insert is alone on its day)
  give `SlotsAreKept`; `Current` (an uncontested episode has one request, which has
  seen all its slots and loaded its date) gives `CalendarIsKept`.
* **StagesProofs.** Two conjuncts beside the types. `MovesOK`: a transaction's
  target is legal from the stage it read, only an approval aims at `published`, and
  a deletion did not read `published`. `GateOK`: the pack an approval read is the
  latest or older, and its verdict is about that pack and the transcript it read.
  From the first: `PublishedKept` (LEGAL has no way out of published, so a commit
  that takes it back read another stage), `HistoryTold` (a commit that is not torn
  starts where the history ended); from the second `PublishedBacked` and
  `GateIsKept`. `DeletionIsFinal` looks at every commit on a row that is gone: each
  writes nothing but a transcript or a pack. `LatestIsOne` (a nonempty set of
  transcripts has a last one) rests on the well-foundedness of `<` on Nat.
* **ArtifactsProofs.** `ClientsOK`, `RunsOK`, `RowsOK` and `StoreOK` carry one fact
  through the four actors: unless the content is `unchecked`, what an execution
  downloaded and what an artifact holds is what the checksum in its row and its key
  says; hence `TranscriptsAreTrue`, over any number of uploads into one target.
  `LiveRowsKeepTheirObjects` adds that a deletion has collected only keys whose rows
  are its own, or that came later and are `crossed`. `RepeatsAddNothing`: an
  execution that will add a row is alone with its audio file, whose last row is not
  the last of all (`RetriesOK`). `UploadsHaveRows`: an object was put only by a
  client that has its target, and the row was committed before that (`RowsFirst`).
* **PlanningProofs.** `EveryMomentCovered`, for every transcript, window and
  overlap: moments that begin before the next window are inside one that was made
  (`CoveredSoFar`), since the next window reaches back by the overlap. The other
  three are for every set of answers, errors and flags, and all caps and spans. The
  invariant `PlanInv` says that the two lists are the answers heard of the windows
  before `at`, one after the other (`AsHeard`); where the job is in its questions
  (`InTurn`); that the two valid lists are `Grounded` of these (`Judged`) and a
  saved plan what `Save` makes of them (`Written`). `WindowsWhole` is `AsHeard` when
  the job is over, with the errors that `Classify` lets through.
  `CandidatesAccounted`: every candidate has one verdict (`VerdictsAddUp`), the loop
  of `validate` keeps as many as have "kept" (`GroundedKeeps`), and the cap divides
  these in two (`CapDivides`). `CapKept`: ranks are a bijection onto the places
  (`RankFollows`, `SortedPlaces`), so sorting loses nobody and a candidate behind
  the cap is not surer than one before it. What recursive functions compute
  (`FlattenSeq`, the loop of `validate`) is proved by induction on sets of naturals
  (`Induction`) and recursion with a step function that is a value (`Recursion`),
  both from the well-foundedness of `<` on Nat. `PlanningAssumption` asks that an
  answer is a sequence of candidates of the schema, which is what the gateway
  returns or it raises.
* **BoardProofs.** `Settled` are the generations no job is about to write: what is
  there, what a job found and what an editor asks about is settled, so a new
  generation meets no old request (`Fresh`). `Whole`: a job that holds rows of a
  generation has its plan or waits for it, hence `PlansKeptWhole`. `SpansOK`: the
  one request on a cut makes it go forward. `CleanOK`: unless saves overlapped, the
  one that runs holds all that is there.

Only model-checked: the three liveness properties (`SettledOnceSent`,
`EventuallyConsumed`, `GenerationEnds`), which need fairness and ENABLED. Every
invariant, action property and refinement of the passing runs is a theorem.

## 6. What the checks found

Runs with a counterexample:

* `crash_strands` (`NoStranded`): a crash's redelivered message comes back before
  the lease of the dead process is over, is refused and acked, and the job stays
  `running`.
* `published_reverts` (`PublishedIsTerminal`): a stage change that read the episode
  before the approval committed takes it out of `published`; a deletion that
  read it before then deletes it.

Further executions, each with its configuration (they end in a counterexample and
are not among the runs):

| Configuration | Module | Property | What happens |
|---|---|---|---|
| `zombie_fails.cfg` | MCWorker | `FailedIsRetryable` | without `Timely`: a process that lost its lease reads `attempt` in `mark_failed` (`jobs/__init__.py:124-128`, no lock), another claims the last attempt, the first commits (`134`): `failed`, with no attempt left, though line 123 says "After the last attempt it is dead." |
| `lost_enqueue.cfg` | MCWorker | `EventuallySettled` | the API's enqueue is lost and the reconciler, which exists for this (`jobs/__init__.py:153-156`), may not send: the workers' role has no `sqs:SendMessage` (`terraform/sqs.tf:37-50`) |
| `ack_error_reopens.cfg` | MCWorker | `TerminalIsFinal` | `queue.ack` stands inside the `try` (`main.py:118`): if it raises, the succeeded row becomes `failed` or `dead`, though `useJob.ts:5` stops polling at `succeeded` |
| `drain_dead_letters.cfg` | MCWorker | `DrainReturnsMessage` | each drain uses one delivery of the message it gives back; the last one leaves the job to the DLQ |
| `rq_crash_loses.cfg` | MCRQQueue | `NothingLost` | a crash between BRPOP and ZADD takes the only copy, against the at-least-once of `rq_queue.py:4-7` |
| `answer_deleted.cfg` | MCSubmission | `EveryAnswerIsKept` | two requests find the same expired record; one answers 202 anew, the other's delete by primary key takes the fresh record |
| `retry_after_retention.cfg` | MCSubmission | `NoServerError` | the rollback of a duplicate job takes back the delete of the expired record; the request fails for good |
| `retry_races.cfg` | MCSubmission | `NoServerError` | of two overlapping requests with one key one is answered 500 |
| `calendar_races.cfg` | MCSchedule | `OneSlot` | two overlapping moves of one episode leave two slots |
| | | `NoSharedDate` | overlapping moves leave two episodes with one date |
| | | `NoOrphanSlot` | a move commits after the deletion and leaves a slot |
| `register_late.cfg` | MCSchedule | `RegistrationSucceeds` | registering long after the recording: the next slot is in the past, answered 500 |
| `deletion_leaves.cfg` | MCStages | `DeletedIsGone` | a transcript that commits during a deletion is left behind, though `deletion.py:2` says "removes everything it owns" |
| | | `HistoryIsAppendOnly` | every deletion deletes the history (`deletion.py:45-46`), which `models.py:73` calls "Append-only history. Never updated, never deleted." |
| `artifact_races.cfg` | MCArtifacts | `LiveRowsHaveObjects` | a cache hit points at an artifact after the deletion of the only episode that had it collected its key: the object goes, the row stays |
| | | `OneRowPerAudio` | a job executed again, after another audio file of the same bytes was transcribed, hits the cache and adds a second row |
| | | `TranscriptsAreOfUploads` | storage kept no checksum (`s3.py:102` returns the empty one), so `audio.py:140` compares nothing and the damaged recording gets the client's checksum and, through the cache, other uploads its transcript |
| | | `OrphansAreReturned` | the last row of an object goes and `delete_episode` does not return its key, against `deletion.py:25`: two episodes that share an artifact are deleted at once and each takes it for the other's, or the row came after the keys were collected |
| `moment_lost.cfg` | MCPlanning | `NothingLost` | a cold open longer than the overlap is cut by both windows. `windows.py:21-23` says thirty seconds "is longer than any cold open we would accept, so nothing is lost", but `plan.py:131` accepts sixty and the prompt asks for ten to forty |
| `edits_cross.cfg` | MCPlanBoard | `EndAfterStart` | two edits, of one end each, make an empty span |

A configuration with several properties is for one of them at a time: TLC stops at
the first it finds violated.

Seen while modelling, without a run: LEGAL lists `registered` as a way out of
`blocked` but OWNERS lets nobody take it; an edited start of 0 counts as not
edited when the end is edited next (`Span`); `delete_episode` leaves plans, cuts,
cold opens, flags and packs; overlapping plan saves can leave two plans and two
checklists; `mark_failed` and `mark_dead` of a row deleted in between raise
StaleDataError, which nothing catches: the worker process ends (`MarkMissed`).

## 7. Not modelled

`PROJECT.json` lists each component with its reason. In short: the speech model, the
AI providers, SQS, Redis, S3 and Postgres are external and appear by what the code
relies on; rendering, configuration, logging, migrations, infrastructure and the
offline evals keep no state the properties are about. The web client's polling
(`useJob`) is the one loop left; it reads a status and writes nothing. `export.py`
and the read routes change nothing.
