------------------------------ MODULE RQQueue ------------------------------
(* The Redis-backed development queue (edlo/queue/rq_queue.py), one step per  *)
(* Redis command: each method is several commands, and other processes run    *)
(* between them.  A stored message is its id and its receive_count, which is  *)
(* what the JSON in the list or the sorted set tells apart: each delivery is  *)
(* a new member of the in-flight set.  Redis itself is external and atomic    *)
(* per command.                                                               *)
EXTENDS Integers, Sequences, FiniteSets

CONSTANTS
  Ids,         \* messages that are ever enqueued
  Procs,       \* worker processes
  MaxReceive,  \* max_receive_count
  Visibility,  \* visibility_timeout, in ticks
  NoMsg,
  MaxCrashes   \* bound: how many times processes die between two commands

ASSUME RQAssumption ==
  /\ MaxReceive \in Nat \ {0}
  /\ Visibility \in Nat \ {0}
  /\ MaxCrashes \in Nat

Raws == Ids \X (0..MaxReceive)

ASSUME RQNoMsgAssumption == NoMsg \notin Raws

Absent == -1  \* not a member of the sorted set

VARIABLES
  ready,     \* the list; messages are taken from its end
  inflight,  \* the sorted set: time left to the deadline, or Absent
  dead,      \* ids in the dead-letter list
  pc,        \* where a process is in receive() or in its work
  scan,      \* expired members _requeue_expired read and has still to move
  hand,      \* the message a process has taken out of Redis, or works on
  sent,      \* history: ids enqueued
  acked,     \* history: ids an ack removed
  given,     \* history: how many times receive() returned a message
  crashes,   \* history: how many processes died
  lost       \* history: ids a process had taken out of Redis when it died

hist == <<sent, acked, given, crashes, lost>>
rqVars == <<ready, inflight, dead, pc, scan, hand, hist>>

\* "idle": between two calls of receive(); "scanning": in the loop of
\* _requeue_expired; "moving": between its zrem and its rpush; "popping":
\* before brpop; "popped": between brpop and zadd; "working": receive()
\* returned the message.
RQPCs == {"idle", "scanning", "moving", "popping", "popped", "working"}

TypeOK ==
  /\ ready \in Seq(Raws)
  /\ inflight \in [Raws -> Absent..Visibility]
  /\ dead \in SUBSET Ids
  /\ pc \in [Procs -> RQPCs]
  /\ scan \in [Procs -> SUBSET Raws]
  /\ hand \in [Procs -> Raws \cup {NoMsg}]
  /\ sent \in SUBSET Ids /\ acked \in SUBSET Ids
  /\ given \in [Ids -> 0..MaxReceive]
  /\ crashes \in 0..MaxCrashes /\ lost \in SUBSET Ids

Init ==
  /\ ready = <<>>
  /\ inflight = [r \in Raws |-> Absent]
  /\ dead = {}
  /\ pc = [p \in Procs |-> "idle"]
  /\ scan = [p \in Procs |-> {}]
  /\ hand = [p \in Procs |-> NoMsg]
  /\ sent = {} /\ acked = {}
  /\ given = [i \in Ids |-> 0]
  /\ crashes = 0 /\ lost = {}

Stored(r) == inflight[r] # Absent

-----------------------------------------------------------------------------
\* enqueue(): lpush, or with a delay an in-flight message nobody holds.
Enqueue(i) ==
  /\ i \notin sent
  /\ sent' = sent \cup {i}
  /\ ready' = <<<<i, 0>>>> \o ready
  /\ UNCHANGED <<inflight, dead, pc, scan, hand, acked, given, crashes, lost>>

EnqueueDelayed(i) ==
  /\ i \notin sent
  /\ sent' = sent \cup {i}
  /\ inflight' = [inflight EXCEPT ![<<i, 0>>] = Visibility]
  /\ UNCHANGED <<ready, dead, pc, scan, hand, acked, given, crashes, lost>>

\* Mutant of ScanExpired: the bounds of the score swapped.
ScanUnexpired(p) ==
  /\ pc[p] = "idle"
  /\ scan' = [scan EXCEPT ![p] = {r \in Raws : inflight[r] > 0}]
  /\ pc' = [pc EXCEPT ![p] = "scanning"]
  /\ UNCHANGED <<ready, inflight, dead, hand, hist>>

\* receive() starts: zrangebyscore reads the members past their deadline.
ScanExpired(p) ==
  /\ pc[p] = "idle"
  /\ scan' = [scan EXCEPT ![p] = {r \in Raws : inflight[r] = 0}]
  /\ pc' = [pc EXCEPT ![p] = "scanning"]
  /\ UNCHANGED <<ready, inflight, dead, hand, hist>>

\* Mutant of Zrem: moves the member without checking who removed it.
ZremUnchecked(p, r) ==
  /\ pc[p] = "scanning" /\ r \in scan[p]
  /\ scan' = [scan EXCEPT ![p] = @ \ {r}]
  /\ inflight' = [inflight EXCEPT ![r] = Absent]
  /\ hand' = [hand EXCEPT ![p] = r]
  /\ pc' = [pc EXCEPT ![p] = "moving"]
  /\ UNCHANGED <<ready, dead, hist>>

\* zrem: whoever removes the member has won it, others skip it.
Zrem(p, r) ==
  /\ pc[p] = "scanning" /\ r \in scan[p]
  /\ scan' = [scan EXCEPT ![p] = @ \ {r}]
  /\ \/ /\ Stored(r)
        /\ inflight' = [inflight EXCEPT ![r] = Absent]
        /\ hand' = [hand EXCEPT ![p] = r]
        /\ pc' = [pc EXCEPT ![p] = "moving"]
     \/ /\ ~Stored(r)
        /\ UNCHANGED <<inflight, hand, pc>>
  /\ UNCHANGED <<ready, dead, hist>>

\* rpush: back at the front, the end that is popped.
Rpush(p) ==
  /\ pc[p] = "moving"
  /\ ready' = Append(ready, hand[p])
  /\ hand' = [hand EXCEPT ![p] = NoMsg]
  /\ pc' = [pc EXCEPT ![p] = "scanning"]
  /\ UNCHANGED <<inflight, dead, scan, hist>>

ScanDone(p) ==
  /\ pc[p] = "scanning" /\ scan[p] = {}
  /\ pc' = [pc EXCEPT ![p] = "popping"]
  /\ UNCHANGED <<ready, inflight, dead, scan, hand, hist>>

Brpop(p) ==
  /\ pc[p] = "popping" /\ ready # <<>>
  /\ hand' = [hand EXCEPT ![p] = ready[Len(ready)]]
  /\ ready' = SubSeq(ready, 1, Len(ready) - 1)
  /\ pc' = [pc EXCEPT ![p] = "popped"]
  /\ UNCHANGED <<inflight, dead, scan, hist>>

\* Nothing arrived within wait_seconds: receive() returns an empty list.
PopTimeout(p) ==
  /\ pc[p] = "popping" /\ ready = <<>>
  /\ pc' = [pc EXCEPT ![p] = "idle"]
  /\ UNCHANGED <<ready, inflight, dead, scan, hand, hist>>

\* Mutant of PushDead: `>=` for `>`, one delivery too few.
PushDeadEarly(p) ==
  /\ pc[p] = "popped" /\ hand[p][2] + 1 >= MaxReceive
  /\ dead' = dead \cup {hand[p][1]}
  /\ hand' = [hand EXCEPT ![p] = NoMsg]
  /\ pc' = [pc EXCEPT ![p] = "popping"]
  /\ UNCHANGED <<ready, inflight, scan, hist>>

\* The delivery after the last allowed one goes to the dead list; pop again.
PushDead(p) ==
  /\ pc[p] = "popped" /\ hand[p][2] + 1 > MaxReceive
  /\ dead' = dead \cup {hand[p][1]}
  /\ hand' = [hand EXCEPT ![p] = NoMsg]
  /\ pc' = [pc EXCEPT ![p] = "popping"]
  /\ UNCHANGED <<ready, inflight, scan, hist>>

\* zadd under the new receive_count, and receive() returns the message.
Zadd(p) ==
  /\ pc[p] = "popped" /\ hand[p][2] + 1 <= MaxReceive
  /\ LET packed == <<hand[p][1], hand[p][2] + 1>> IN
       /\ inflight' = [inflight EXCEPT ![packed] = Visibility]
       /\ hand' = [hand EXCEPT ![p] = packed]
       /\ given' = [given EXCEPT ![packed[1]] = @ + 1]
  /\ pc' = [pc EXCEPT ![p] = "working"]
  /\ UNCHANGED <<ready, dead, scan, sent, acked, crashes, lost>>

-----------------------------------------------------------------------------
\* ack(): zrem of the member this delivery stored; nothing if it has expired
\* and was moved on.
Ack(p) ==
  /\ pc[p] = "working"
  /\ \/ /\ Stored(hand[p])
        /\ inflight' = [inflight EXCEPT ![hand[p]] = Absent]
        /\ acked' = acked \cup {hand[p][1]}
     \/ /\ ~Stored(hand[p])
        /\ UNCHANGED <<inflight, acked>>
  /\ hand' = [hand EXCEPT ![p] = NoMsg]
  /\ pc' = [pc EXCEPT ![p] = "idle"]
  /\ UNCHANGED <<ready, dead, scan, sent, given, crashes, lost>>

\* The work failed: not acked, the deadline brings the message back.
GiveUp(p) ==
  /\ pc[p] = "working"
  /\ hand' = [hand EXCEPT ![p] = NoMsg]
  /\ pc' = [pc EXCEPT ![p] = "idle"]
  /\ UNCHANGED <<ready, inflight, dead, scan, hist>>

\* Mutant of ExtendLease: ZADD without XX stores the member anew.
ExtendLeaseAnyway(p, seconds) ==
  /\ pc[p] = "working"
  /\ inflight' = [inflight EXCEPT ![hand[p]] = seconds]
  /\ UNCHANGED <<ready, dead, pc, scan, hand, hist>>

\* extend_lease(): zadd with XX, only while the member is there.
ExtendLease(p, seconds) ==
  /\ pc[p] = "working" /\ Stored(hand[p])
  /\ inflight' = [inflight EXCEPT ![hand[p]] = seconds]
  /\ UNCHANGED <<ready, dead, pc, scan, hand, hist>>

\* Out of Redis, in the memory of one process only.
Carried(p) ==
  IF pc[p] \in {"moving", "popped"} THEN {hand[p][1]} ELSE {}

\* The process dies; what it had taken out of Redis goes with it.
Crash(p) ==
  /\ crashes < MaxCrashes /\ pc[p] # "idle"
  /\ crashes' = crashes + 1
  /\ lost' = lost \cup Carried(p)
  /\ pc' = [pc EXCEPT ![p] = "idle"]
  /\ scan' = [scan EXCEPT ![p] = {}]
  /\ hand' = [hand EXCEPT ![p] = NoMsg]
  /\ UNCHANGED <<ready, inflight, dead, sent, acked, given>>

Tick ==
  /\ inflight' = [r \in Raws |-> IF inflight[r] > 0 THEN inflight[r] - 1
                                                    ELSE inflight[r]]
  /\ UNCHANGED <<ready, dead, pc, scan, hand, hist>>

Receive(p) ==
  \/ ScanExpired(p) \/ (\E r \in Raws : Zrem(p, r)) \/ Rpush(p) \/ ScanDone(p)
  \/ Brpop(p) \/ PopTimeout(p) \/ PushDead(p) \/ Zadd(p)

Work(p) == Ack(p) \/ GiveUp(p)

Next ==
  \/ \E i \in Ids : Enqueue(i) \/ EnqueueDelayed(i)
  \/ \E p \in Procs : Receive(p) \/ Work(p) \/ Crash(p)
  \/ \E p \in Procs, seconds \in {0, Visibility} : ExtendLease(p, seconds)
  \/ Tick

Spec == Init /\ [][Next]_rqVars

\* Processes keep polling and finish what they work on; time passes.
Fairness ==
  /\ WF_rqVars(Tick)
  /\ \A p \in Procs : WF_rqVars(Receive(p)) /\ WF_rqVars(Work(p))

FairSpec == Spec /\ Fairness

-----------------------------------------------------------------------------
\* The message with id i exists somewhere: in a structure of Redis or in the
\* hands of a process that is about to put it back.
InReady(i) == {k \in 1..Len(ready) : ready[k][1] = i}
InFlight(i) == {r \in Raws : r[1] = i /\ Stored(r)}
InTransit(i) == {p \in Procs : i \in Carried(p)}

Copies(i) ==
  Cardinality(InReady(i)) + Cardinality(InFlight(i)) + Cardinality(InTransit(i))
  + IF i \in dead THEN 1 ELSE 0

\* A message neither multiplies nor vanishes: two processes that requeue the
\* same expired member, late acks and late heartbeats leave one copy of it
\* until it is acked, and none after; only a crash between two commands, with
\* the message in the process's memory, takes it away.
ExactlyOneCopy ==
  \A i \in Ids : Copies(i) = IF i \in sent \ (acked \cup lost) THEN 1 ELSE 0

\* A message in the dead list was delivered as often as allowed, not less.
DeadIsExhausted == \A i \in dead : given[i] = MaxReceive

\* The same at-least-once semantics as SQS: a message that was sent and not
\* acked is still somewhere.
NothingLost == \A i \in sent \ acked : Copies(i) = 1

\* Every message is acked or buried in the end, but for those a crash took.
EventuallyConsumed ==
  \A i \in Ids : i \in sent ~> i \in acked \cup dead \cup lost

\* Where the promise sees the message.
Place(i) ==
  CASE i \notin sent -> "new"
    [] i \in acked -> "acked"
    [] i \in dead -> "dead"
    [] i \in lost -> "lost"
    [] \E r \in InFlight(i) : r[2] > 0 -> "out"
    [] OTHER -> "waiting"

Promise == INSTANCE AtLeastOnce WITH
  place <- [i \in Ids |-> Place(i)], tries <- given, failures <- crashes

\* Over races, late calls and crashes the queue keeps the promise of
\* AtLeastOnce: what it hands out, takes back and buries, and that only a
\* process that dies loses a message, one at most, and for good.
ImplementsPromise == Promise!Spec

=============================================================================
