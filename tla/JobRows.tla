------------------------------ MODULE JobRows ------------------------------
(* The jobs table and every operation the code performs on a row of it        *)
(* (edlo/jobs/__init__.py).  A row is the durable truth about a piece of      *)
(* background work; queue messages are only wake-ups.                         *)
(*                                                                            *)
(* Time is a Tick that lowers bounded timers.  lease[j] is lease_expires_at   *)
(* minus now: a lease is over when it is strictly negative, as the code's     *)
(* `lease_expires_at < now`.  age[j] is now minus created_at, up to the       *)
(* two minutes after which the reconciler looks at a row.                     *)
(*                                                                            *)
(* A claim locks the row it reads and is one step.  The mark_ functions and   *)
(* extend_job_lease read the row without a lock and commit later: they are    *)
(* two steps here, a read that decides and a commit that writes.  SQLAlchemy  *)
(* writes only the columns whose new value differs from the value it read.    *)
EXTENDS Integers

CONSTANTS
  Jobs,         \* the rows that may ever be inserted
  Workers,      \* the live worker processes (their WORKER_ID)
  Ghost,        \* the WORKER_ID of any process that is gone
  Nobody,       \* lease_owner is NULL
  MaxAttempts,  \* max_attempts: 3 in the code
  Lease,        \* LEASE_SECONDS, in ticks
  StaleAfter    \* the reconciler's two minutes, in ticks

ASSUME RowsAssumption ==
  /\ MaxAttempts \in Nat \ {0}
  /\ Lease \in Nat \ {0}
  /\ StaleAfter \in Nat
  /\ Ghost \notin Workers
  /\ Nobody \notin Workers

VARIABLES status, attempt, owner, lease, age

rowVars == <<status, attempt, owner, lease, age>>

\* "none": not submitted yet; "deleted": the row went with its episode.
Statuses == {"none", "queued", "running", "succeeded", "failed", "dead",
             "deleted"}

NullLease == -2  \* lease_expires_at is NULL: compares with nothing
LeaseOver == -1  \* lease_expires_at is past

RowsTypeOK ==
  /\ status \in [Jobs -> Statuses]
  /\ attempt \in [Jobs -> 0..MaxAttempts]
  /\ owner \in [Jobs -> Workers \cup {Ghost, Nobody}]
  /\ lease \in [Jobs -> NullLease..Lease]
  /\ age \in [Jobs -> 0..StaleAfter]

RowsInit ==
  /\ status = [j \in Jobs |-> "none"]
  /\ attempt = [j \in Jobs |-> 0]
  /\ owner = [j \in Jobs |-> Nobody]
  /\ lease = [j \in Jobs |-> NullLease]
  /\ age = [j \in Jobs |-> 0]

Exists(j) == status[j] \notin {"none", "deleted"}

\* Mutants of Claimable: no attempt limit; a live lease does not protect; a
\* job that succeeded can be claimed again.
ClaimableNoLimit(j) ==
  \/ status[j] \in {"queued", "failed"}
  \/ status[j] = "running" /\ lease[j] = LeaseOver

ClaimableIgnoringLease(j) ==
  attempt[j] < MaxAttempts /\ status[j] \in {"queued", "failed", "running"}

ClaimableAgain(j) ==
  /\ attempt[j] < MaxAttempts
  /\ \/ status[j] \in {"queued", "failed", "succeeded"}
     \/ status[j] = "running" /\ lease[j] = LeaseOver

Claimable(j) ==
  /\ attempt[j] < MaxAttempts
  /\ \/ status[j] \in {"queued", "failed"}
     \/ status[j] = "running" /\ lease[j] = LeaseOver

\* Mutant of Take: the attempt is not counted.
TakeUncounted(j, w) ==
  /\ status' = [status EXCEPT ![j] = "running"]
  /\ owner' = [owner EXCEPT ![j] = w]
  /\ lease' = [lease EXCEPT ![j] = Lease]
  /\ UNCHANGED <<attempt, age>>

Take(j, w) ==
  /\ status' = [status EXCEPT ![j] = "running"]
  /\ owner' = [owner EXCEPT ![j] = w]
  /\ lease' = [lease EXCEPT ![j] = Lease]
  /\ attempt' = [attempt EXCEPT ![j] = @ + 1]
  /\ UNCHANGED age

\* What extend_job_lease looks at before it sets lease_expires_at.
MayExtend(j, w) == status[j] = "running" /\ owner[j] = w

\* Its commit: one column, of the row as it is now, whoever owns it now.
CommitLease(j, until) ==
  /\ lease' = IF Exists(j) THEN [lease EXCEPT ![j] = until] ELSE lease
  /\ UNCHANGED <<status, attempt, owner, age>>

\* The columns the three mark_ functions share.
Columns == {"status", "owner", "lease"}

\* Mutant of Differing: the owner is left in the row.
DifferingButOwner(j, outcome) ==
  [to |-> outcome,
   cols |-> {c \in Columns :
               \/ c = "status" /\ status[j] # outcome
               \/ c = "lease" /\ lease[j] # NullLease}]

\* The UPDATE a mark_ function that read row j now will commit: outcome, and
\* NULL for the lease, in those columns that do not have this value yet.
\* Nobody checks who owns the row.
Differing(j, outcome) ==
  [to |-> outcome,
   cols |-> {c \in Columns :
               \/ c = "status" /\ status[j] # outcome
               \/ c = "owner" /\ owner[j] # Nobody
               \/ c = "lease" /\ lease[j] # NullLease}]

\* The UPDATE on the row as it is now.
CommitMark(j, write) ==
  /\ Exists(j)
  /\ status' = IF "status" \in write.cols THEN [status EXCEPT ![j] = write.to] ELSE status
  /\ owner' = IF "owner" \in write.cols THEN [owner EXCEPT ![j] = Nobody] ELSE owner
  /\ lease' = IF "lease" \in write.cols THEN [lease EXCEPT ![j] = NullLease] ELSE lease
  /\ UNCHANGED <<attempt, age>>

\* Mutant of Exhausted: only the deliveries of this message are counted.
ExhaustedByMessage(j, receiveCount) == receiveCount >= MaxAttempts

\* max(receive_count, attempt) >= max_attempts
Exhausted(j, receiveCount) ==
  receiveCount >= MaxAttempts \/ attempt[j] >= MaxAttempts

StaleQueuedJobs ==
  {j \in Jobs : status[j] = "queued" /\ attempt[j] = 0 /\ age[j] = StaleAfter}

InsertRow(j) ==
  /\ status[j] = "none"
  /\ status' = [status EXCEPT ![j] = "queued"]
  /\ UNCHANGED <<attempt, owner, lease, age>>

DeleteRow(j) ==
  /\ Exists(j)
  /\ status' = [status EXCEPT ![j] = "deleted"]
  /\ owner' = [owner EXCEPT ![j] = Nobody]
  /\ lease' = [lease EXCEPT ![j] = NullLease]
  /\ UNCHANGED <<attempt, age>>

\* One unit of time later.
Later(until) == IF until > LeaseOver THEN until - 1 ELSE until

RowsTick ==
  /\ lease' = [j \in Jobs |-> Later(lease[j])]
  /\ age' = [j \in Jobs |-> IF status[j] = "queued" /\ age[j] < StaleAfter
                              THEN age[j] + 1 ELSE age[j]]
  /\ UNCHANGED <<status, attempt, owner>>

=============================================================================
