------------------------------ MODULE JobQueue ------------------------------
(* The job queue as the worker loop uses it in production: an SQS standard    *)
(* queue with a visibility timeout and a redrive policy                       *)
(* (edlo/queue/sqs_queue.py, edlo/queue/base.py, terraform/sqs.tf).  What SQS *)
(* itself does is external and modelled from these uses.                      *)
(*                                                                            *)
(* A receipt handle is the message and its receive count at the delivery:     *)
(* a later delivery makes the earlier handle stale.  vis[m] is the time left  *)
(* until the message is visible again; 0 is visible.                          *)
EXTENDS Integers

CONSTANTS
  Msgs,        \* bound: messages in the queue and its DLQ at one time
  NoJob,       \* the payload of an identity that is not in use
  MaxReceive,  \* maxReceiveCount of the redrive policy: 3
  Visibility   \* visibility timeout, also what a heartbeat extends to, in ticks

ASSUME QueueAssumption ==
  /\ MaxReceive \in Nat \ {0}
  /\ Visibility \in Nat \ {0}

VARIABLES msgState, msgJob, msgCount, vis

queueVars == <<msgState, msgJob, msgCount, vis>>

\* "free": the identity is not in use; "dead": in the dead-letter queue.
QueueTypeOK(payloads) ==
  /\ msgState \in [Msgs -> {"free", "live", "dead"}]
  /\ msgJob \in [Msgs -> payloads \cup {NoJob}]
  /\ msgCount \in [Msgs -> 0..MaxReceive]
  /\ vis \in [Msgs -> 0..Visibility]

QueueInit ==
  /\ msgState = [m \in Msgs |-> "free"]
  /\ msgJob = [m \in Msgs |-> NoJob]
  /\ msgCount = [m \in Msgs |-> 0]
  /\ vis = [m \in Msgs |-> 0]

Visible(m) == msgState[m] = "live" /\ vis[m] = 0

\* The handle of delivery c is the last one, and its visibility is not over.
Current(m, c) == msgState[m] = "live" /\ msgCount[m] = c /\ vis[m] > 0

Enqueue(m, j) ==
  /\ msgState[m] = "free"
  /\ msgState' = [msgState EXCEPT ![m] = "live"]
  /\ msgJob' = [msgJob EXCEPT ![m] = j]
  /\ msgCount' = [msgCount EXCEPT ![m] = 0]
  /\ vis' = [vis EXCEPT ![m] = 0]

Deliver(m) ==
  /\ Visible(m)
  /\ msgCount[m] < MaxReceive
  /\ msgCount' = [msgCount EXCEPT ![m] = @ + 1]
  /\ vis' = [vis EXCEPT ![m] = Visibility]
  /\ UNCHANGED <<msgState, msgJob>>

\* The delivery after the last allowed one goes to the dead-letter queue.
MoveToDlq(m) ==
  /\ Visible(m)
  /\ msgCount[m] >= MaxReceive
  /\ msgState' = [msgState EXCEPT ![m] = "dead"]
  /\ UNCHANGED <<msgJob, msgCount, vis>>

Release(m) ==
  /\ msgState' = [msgState EXCEPT ![m] = "free"]
  /\ msgJob' = [msgJob EXCEPT ![m] = NoJob]
  /\ msgCount' = [msgCount EXCEPT ![m] = 0]
  /\ vis' = [vis EXCEPT ![m] = 0]

\* The dead-letter queue keeps a message for its retention period only.
DlqRetentionOver(m) ==
  /\ msgState[m] = "dead"
  /\ Release(m)

DeleteMessage(m) ==
  /\ msgState[m] = "live"
  /\ Release(m)

\* ack(): a current handle deletes.  One that is stale or whose visibility is
\* over is accepted too, and may or may not delete.
AckMessage(m, c) ==
  \/ DeleteMessage(m)
  \/ ~Current(m, c) /\ UNCHANGED queueVars

\* extend_lease() with a current handle; with any other it changes nothing.
ExtendVisibility(m, c, seconds) ==
  /\ Current(m, c)
  /\ vis' = [vis EXCEPT ![m] = seconds]
  /\ UNCHANGED <<msgState, msgJob, msgCount>>

QueueTick ==
  /\ vis' = [m \in Msgs |-> IF vis[m] > 0 THEN vis[m] - 1 ELSE 0]
  /\ UNCHANGED <<msgState, msgJob, msgCount>>

=============================================================================
