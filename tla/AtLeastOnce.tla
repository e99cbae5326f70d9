---------------------------- MODULE AtLeastOnce ----------------------------
(* What the worker loop is promised by its queue (queue/base.py, the          *)
(* docstring of queue/rq_queue.py): a message sent is handed out, taken back  *)
(* when its visibility ends and handed out again, until a consumer acks it or *)
(* it has been handed out MaxReceive times and is buried.  A failure of a      *)
(* consumer may take one waiting message with it; nothing else loses one, and *)
(* a message that is lost is never handed out, acked or buried again.         *)
EXTENDS Integers

CONSTANTS Ids, MaxReceive

VARIABLES
  place,    \* "new", "waiting", "out", "acked", "dead" or "lost"
  tries,    \* how many times it was handed out
  failures  \* how many consumers have failed

qVars == <<place, tries, failures>>

Init ==
  /\ place = [i \in Ids |-> "new"]
  /\ tries = [i \in Ids |-> 0]
  /\ failures = 0

Move(i, from, to) ==
  /\ place[i] \in from
  /\ place' = [place EXCEPT ![i] = to]

Send(i) == Move(i, {"new"}, "waiting") /\ UNCHANGED <<tries, failures>>

HandOut(i) ==
  /\ Move(i, {"waiting"}, "out")
  /\ tries[i] < MaxReceive
  /\ tries' = [tries EXCEPT ![i] = @ + 1]
  /\ UNCHANGED failures

TakeBack(i) == Move(i, {"out"}, "waiting") /\ UNCHANGED <<tries, failures>>

Ack(i) == Move(i, {"out"}, "acked") /\ UNCHANGED <<tries, failures>>

Bury(i) ==
  /\ Move(i, {"waiting"}, "dead")
  /\ tries[i] = MaxReceive
  /\ UNCHANGED <<tries, failures>>

\* At most one message for each failure.
Fail ==
  /\ failures' = failures + 1
  /\ UNCHANGED place \/ \E i \in Ids : Move(i, {"waiting"}, "lost")
  /\ UNCHANGED tries

Next ==
  \/ \E i \in Ids : Send(i) \/ HandOut(i) \/ TakeBack(i) \/ Ack(i) \/ Bury(i)
  \/ Fail

Spec == Init /\ [][Next]_qVars

=============================================================================
