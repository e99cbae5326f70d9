------------------------------ MODULE RQProofs ------------------------------
(* Proofs about the development queue (RQQueue): a message has one copy,     *)
(* whichever processes race for it, and what the list, the sorted set and    *)
(* the processes do with it keeps the promise of AtLeastOnce.                *)
EXTENDS RQQueue, SequenceTheorems, FiniteSetTheorems, TLAPS

\* Neither acked nor taken away by a crash.
Live == sent \ (acked \cup lost)

Listed(r) == \E k \in 1..Len(ready) : ready[k] = r

\* Between two commands of receive(), with a message of which Redis knows nothing.
Carrying(p) == pc[p] \in {"moving", "popped"}

InHand ==
  \A p \in Procs :
    /\ Carrying(p) => hand[p] \in Raws
    /\ pc[p] = "working" => hand[p] \in Raws /\ hand[p][2] > 0

\* Every copy carries the number of deliveries, and no copy outlives its message.
CountsAgree ==
  /\ \A r \in Raws : Listed(r) \/ Stored(r) => r[1] \in Live /\ r[2] = given[r[1]]
  /\ \A p \in Procs : Carrying(p) => hand[p][1] \in Live /\ hand[p][2] = given[hand[p][1]]
  /\ \A i \in dead : i \in Live /\ given[i] = MaxReceive
  /\ \A i \in Ids : i \notin sent => given[i] = 0 /\ i \notin acked \cup lost
  /\ acked \cap lost = {}

\* No message is in two places, or twice in one.
OnePlace ==
  /\ \A k, l \in 1..Len(ready) : ready[k][1] = ready[l][1] => k = l
  /\ \A r, s \in Raws :
       r[1] = s[1] => /\ Stored(r) /\ Stored(s) => r = s
                      /\ ~(Listed(r) /\ Stored(s))
  /\ \A p \in Procs, r \in Raws :
       Carrying(p) /\ r[1] = hand[p][1] => ~Listed(r) /\ ~Stored(r)
  /\ \A p, q \in Procs : Carrying(p) /\ Carrying(q) /\ hand[p][1] = hand[q][1] => p = q
  /\ \A r \in Raws : r[1] \in dead => ~Listed(r) /\ ~Stored(r)
  /\ \A p \in Procs : Carrying(p) => hand[p][1] \notin dead

\* No message is in no place.
SomePlace ==
  \A i \in Live :
    \/ i \in dead
    \/ \E r \in Raws : r[1] = i /\ (Listed(r) \/ Stored(r))
    \/ \E p \in Procs : Carrying(p) /\ hand[p][1] = i

IInv == TypeOK /\ InHand /\ CountsAgree /\ OnePlace /\ SomePlace

-----------------------------------------------------------------------------
(* The list.                                                                  *)

LEMMA PushedFirst ==
  ASSUME ready \in Seq(Raws), NEW r \in Raws, ready' = <<r>> \o ready,
         \A k, l \in 1..Len(ready) : ready[k][1] = ready[l][1] => k = l,
         \A s \in Raws : s[1] = r[1] => ~Listed(s)
  PROVE  /\ ready' \in Seq(Raws)
         /\ \A s : Listed(s)' <=> Listed(s) \/ s = r
         /\ \A k, l \in 1..Len(ready') : ready'[k][1] = ready'[l][1] => k = l
<1>1. /\ ready' \in Seq(Raws) /\ Len(ready') = Len(ready) + 1 /\ Len(ready) \in Nat
      /\ ready'[1] = r /\ \A k \in 2..Len(ready') : ready'[k] = ready[k - 1]
  OBVIOUS
<1>2. \A k \in 1..Len(ready) : k + 1 \in 2..Len(ready') /\ ready'[k + 1] = ready[k]
  BY <1>1
<1>3. \A s : Listed(s)' <=> Listed(s) \/ s = r
  <2>1. ASSUME NEW s, Listed(s)' PROVE Listed(s) \/ s = r
    <3>1. PICK k \in 1..Len(ready') : ready'[k] = s
      BY <2>1 DEF Listed
    <3>2. CASE k = 1
      BY <1>1, <3>1, <3>2
    <3>3. CASE k # 1
      <4>1. k \in 2..Len(ready') /\ k - 1 \in 1..Len(ready)
        BY <1>1, <3>3
      <4> QED BY <1>1, <3>1, <4>1 DEF Listed
    <3> QED BY <3>2, <3>3
  <2>2. ASSUME NEW s, Listed(s) PROVE Listed(s)'
    <3>1. PICK k \in 1..Len(ready) : ready[k] = s
      BY <2>2 DEF Listed
    <3> QED BY <1>1, <1>2, <3>1 DEF Listed
  <2>3. Listed(r)'
    BY <1>1 DEF Listed
  <2> QED BY <2>1, <2>2, <2>3
<1>4. ASSUME NEW k \in 1..Len(ready'), NEW l \in 1..Len(ready'), ready'[k][1] = ready'[l][1], k < l
      PROVE  FALSE
  <2>1. l \in 2..Len(ready') /\ l - 1 \in 1..Len(ready) /\ ready'[l] = ready[l - 1]
    BY <1>1, <1>4
  <2>2. CASE k = 1
    BY <1>1, <1>4, <2>1, <2>2 DEF Listed
  <2>3. CASE k # 1
    <3>1. k - 1 \in 1..Len(ready) /\ ready'[k] = ready[k - 1]
      BY <1>1, <2>3
    <3> QED BY <1>4, <2>1, <3>1
  <2> QED BY <2>2, <2>3
<1> QED BY <1>1, <1>3, <1>4

LEMMA PushedLast ==
  ASSUME ready \in Seq(Raws), NEW r \in Raws, ready' = Append(ready, r),
         \A k, l \in 1..Len(ready) : ready[k][1] = ready[l][1] => k = l,
         \A s \in Raws : s[1] = r[1] => ~Listed(s)
  PROVE  /\ ready' \in Seq(Raws)
         /\ \A s : Listed(s)' <=> Listed(s) \/ s = r
         /\ \A k, l \in 1..Len(ready') : ready'[k][1] = ready'[l][1] => k = l
<1>1. /\ ready' \in Seq(Raws) /\ Len(ready') = Len(ready) + 1 /\ Len(ready) \in Nat
      /\ ready'[Len(ready')] = r /\ \A k \in 1..Len(ready) : ready'[k] = ready[k]
  OBVIOUS
<1>2. \A s : Listed(s)' <=> Listed(s) \/ s = r
  BY <1>1 DEF Listed
<1>3. ASSUME NEW k \in 1..Len(ready'), NEW l \in 1..Len(ready'), ready'[k][1] = ready'[l][1], k < l
      PROVE  FALSE
  BY <1>1, <1>3 DEF Listed
<1> QED BY <1>1, <1>2, <1>3

LEMMA FrontOfSeq ==
  ASSUME NEW S, NEW s \in Seq(S), Len(s) # 0
  PROVE  /\ SubSeq(s, 1, Len(s) - 1) \in Seq(S) /\ Len(SubSeq(s, 1, Len(s) - 1)) = Len(s) - 1
         /\ \A k \in 1..Len(s) - 1 : SubSeq(s, 1, Len(s) - 1)[k] = s[k]
<1>1. PICK n \in Nat : Len(s) = n + 1
  <2>1. Len(s) \in Nat \ {0}
    BY LenProperties
  <2> QED BY <2>1
<1>2. Len(s) - 1 = n
  BY <1>1
<1>3. \A k \in 1..n : s[k] \in S
  BY <1>1
<1>4. /\ SubSeq(s, 1, n) \in Seq(S) /\ Len(SubSeq(s, 1, n)) = n
      /\ \A k \in 1..n : SubSeq(s, 1, n)[k] = s[k]
  BY <1>3, SubSeqProperties
<1> QED BY <1>2, <1>4

LEMMA PoppedLast ==
  ASSUME ready \in Seq(Raws), ready # <<>>, ready' = SubSeq(ready, 1, Len(ready) - 1),
         \A k, l \in 1..Len(ready) : ready[k][1] = ready[l][1] => k = l,
         NEW r, r = ready[Len(ready)]
  PROVE  /\ ready' \in Seq(Raws) /\ r \in Raws /\ Listed(r)
         /\ \A s : Listed(s)' <=> Listed(s) /\ s # r
         /\ \A s : s[1] = r[1] => ~Listed(s)'
         /\ \A k, l \in 1..Len(ready') : ready'[k][1] = ready'[l][1] => k = l
<1>1. /\ ready' \in Seq(Raws) /\ Len(ready') = Len(ready) - 1 /\ Len(ready) \in Nat \ {0}
      /\ r \in Raws /\ \A k \in 1..Len(ready') : ready'[k] = ready[k]
  <2>1. Len(ready) \in Nat \ {0} /\ \A k \in 1..Len(ready) : ready[k] \in Raws
    BY EmptySeq, LenProperties
  <2>2. /\ ready' \in Seq(Raws) /\ Len(ready') = Len(ready) - 1
        /\ \A k \in 1..Len(ready) - 1 : ready'[k] = ready[k]
    BY <2>1, FrontOfSeq
  <2> QED BY <2>1, <2>2
<1>2. \A s : Listed(s)' <=> Listed(s) /\ s # r
  BY <1>1 DEF Listed
<1>3. Listed(r)
  BY <1>1 DEF Listed
<1>4. \A s : s[1] = r[1] => ~Listed(s)'
  BY <1>1 DEF Listed
<1> QED BY <1>1, <1>2, <1>3, <1>4

-----------------------------------------------------------------------------
(* Each step, with what it moves.                                             *)

LEMMA RawsTyped ==
  ASSUME NEW r \in Raws
  PROVE  r[1] \in Ids /\ r[2] \in 0..MaxReceive /\ r = <<r[1], r[2]>>
  BY DEF Raws

\* A message that was never sent is nowhere.
LEMMA FreshIsNowhere ==
  ASSUME IInv, NEW i \in Ids, i \notin sent, NEW r, r = <<i, 0>>
  PROVE  /\ r \in Raws /\ r[1] = i /\ r[2] = 0 /\ given[i] = 0
         /\ i \notin Live \cup acked \cup lost \cup dead
         /\ \A s \in Raws : s[1] = i => ~Listed(s) /\ ~Stored(s)
         /\ \A p \in Procs : Carrying(p) => hand[p][1] # i
  BY RQAssumption DEF Raws, IInv, CountsAgree, Live

LEMMA KeptByEnqueue ==
  ASSUME IInv, NEW i \in Ids, Enqueue(i)
  PROVE  IInv'
<1>1. PICK r : r = <<i, 0>>
  OBVIOUS
<1>2. /\ r \in Raws /\ r[1] = i /\ r[2] = 0 /\ given[i] = 0
      /\ i \notin Live \cup acked \cup lost \cup dead
      /\ \A s \in Raws : s[1] = i => ~Listed(s) /\ ~Stored(s)
      /\ \A p \in Procs : Carrying(p) => hand[p][1] # i
  BY <1>1, FreshIsNowhere DEF Enqueue
<1>3. /\ ready' = <<r>> \o ready /\ sent' = sent \cup {i} /\ i \notin sent
      /\ UNCHANGED <<inflight, dead, pc, scan, hand, acked, given, crashes, lost>>
  BY <1>1 DEF Enqueue
<1>4. /\ ready' \in Seq(Raws)
      /\ \A s : Listed(s)' <=> Listed(s) \/ s = r
      /\ \A k, l \in 1..Len(ready') : ready'[k][1] = ready'[l][1] => k = l
  BY <1>2, <1>3, PushedFirst DEF IInv, TypeOK, OnePlace
<1>5. TypeOK'
  BY <1>3, <1>4 DEF IInv, TypeOK
<1>6. InHand'
  BY <1>3 DEF IInv, InHand, Carrying
<1>7. CountsAgree'
  BY <1>2, <1>3, <1>4 DEF IInv, CountsAgree, Live, Stored, Carrying
<1>8. OnePlace'
  BY <1>2, <1>3, <1>4 DEF IInv, OnePlace, Stored, Carrying
<1>9. SomePlace'
  BY <1>2, <1>3, <1>4 DEF IInv, SomePlace, Live, Stored, Carrying
<1> QED BY <1>5, <1>6, <1>7, <1>8, <1>9 DEF IInv

LEMMA KeptByEnqueueDelayed ==
  ASSUME IInv, NEW i \in Ids, EnqueueDelayed(i)
  PROVE  IInv'
<1>1. PICK r : r = <<i, 0>>
  OBVIOUS
<1>2. /\ r \in Raws /\ r[1] = i /\ r[2] = 0 /\ given[i] = 0
      /\ i \notin Live \cup acked \cup lost \cup dead
      /\ \A s \in Raws : s[1] = i => ~Listed(s) /\ ~Stored(s)
      /\ \A p \in Procs : Carrying(p) => hand[p][1] # i
  BY <1>1, FreshIsNowhere DEF EnqueueDelayed
<1>3. /\ inflight' = [inflight EXCEPT ![r] = Visibility] /\ sent' = sent \cup {i}
      /\ UNCHANGED <<ready, dead, pc, scan, hand, acked, given, crashes, lost>> /\ i \notin sent
  BY <1>1 DEF EnqueueDelayed
<1>4. /\ inflight' \in [Raws -> Absent..Visibility]
      /\ \A s \in Raws : Stored(s)' <=> Stored(s) \/ s = r
  BY <1>2, <1>3, RQAssumption DEF IInv, TypeOK, Stored, Absent
<1>5. TypeOK'
  BY <1>3, <1>4 DEF IInv, TypeOK
<1>6. InHand'
  BY <1>3 DEF IInv, InHand, Carrying
<1>7. CountsAgree'
  BY <1>2, <1>3, <1>4 DEF IInv, CountsAgree, Live, Listed, Carrying
<1>8. OnePlace'
  BY <1>2, <1>3, <1>4 DEF IInv, OnePlace, Listed, Carrying
<1>9. SomePlace'
  BY <1>2, <1>3, <1>4 DEF IInv, SomePlace, Live, Listed, Carrying
<1> QED BY <1>5, <1>6, <1>7, <1>8, <1>9 DEF IInv

\* Nothing that holds a message has changed.
LEMMA KeptByQuiet ==
  ASSUME IInv, UNCHANGED <<ready, dead, sent, acked, given, lost>>,
         \A r \in Raws : Stored(r)' <=> Stored(r),
         \A p \in Procs : Carrying(p)' <=> Carrying(p),
         \A p \in Procs : Carrying(p) => hand'[p] = hand[p],
         TypeOK', InHand'
  PROVE  IInv'
<1>1. CountsAgree'
  BY DEF IInv, CountsAgree, Live, Listed
<1>2. OnePlace'
  BY DEF IInv, OnePlace, Listed
<1>3. SomePlace'
  BY DEF IInv, SomePlace, Live, Listed
<1> QED BY <1>1, <1>2, <1>3 DEF IInv

LEMMA KeptByZrem ==
  ASSUME IInv, NEW p \in Procs, NEW r \in Raws, Zrem(p, r), Stored(r)
  PROVE  IInv'
<1>1. /\ pc[p] = "scanning" /\ UNCHANGED <<ready, dead, sent, acked, given, lost, crashes>>
      /\ inflight' = [inflight EXCEPT ![r] = Absent] /\ hand' = [hand EXCEPT ![p] = r]
      /\ pc' = [pc EXCEPT ![p] = "moving"] /\ scan' = [scan EXCEPT ![p] = @ \ {r}]
  BY DEF Zrem, hist
<1>2. \A s \in Raws : Stored(s)' <=> Stored(s) /\ s # r
  BY <1>1 DEF IInv, TypeOK, Stored
<1>3. /\ Carrying(p)' /\ ~Carrying(p) /\ hand'[p] = r /\ pc'[p] # "working"
      /\ \A q \in Procs : q # p => pc'[q] = pc[q] /\ hand'[q] = hand[q]
                                   /\ (Carrying(q)' <=> Carrying(q))
  BY <1>1 DEF IInv, TypeOK, Carrying
<1>4. TypeOK'
  BY <1>1, RQAssumption DEF IInv, TypeOK, Absent, RQPCs
<1>5. InHand'
  BY <1>3 DEF IInv, InHand
<1>6. CountsAgree'
  BY <1>1, <1>2, <1>3 DEF IInv, CountsAgree, Live, Listed
<1>7. OnePlace'
  BY <1>1, <1>2, <1>3 DEF IInv, OnePlace, Listed
<1>8. SomePlace'
  BY <1>1, <1>2, <1>3 DEF IInv, SomePlace, Live, Listed
<1> QED BY <1>4, <1>5, <1>6, <1>7, <1>8 DEF IInv

LEMMA KeptByRpush ==
  ASSUME IInv, NEW p \in Procs, Rpush(p)
  PROVE  IInv'
<1>1. /\ pc[p] = "moving" /\ Carrying(p) /\ hand[p] \in Raws
      /\ UNCHANGED <<inflight, dead, scan, sent, acked, given, lost, crashes>>
      /\ ready' = Append(ready, hand[p]) /\ hand' = [hand EXCEPT ![p] = NoMsg]
      /\ pc' = [pc EXCEPT ![p] = "scanning"]
  BY DEF Rpush, hist, IInv, InHand, Carrying
<1>2. /\ ready' \in Seq(Raws)
      /\ \A s : Listed(s)' <=> Listed(s) \/ s = hand[p]
      /\ \A k, l \in 1..Len(ready') : ready'[k][1] = ready'[l][1] => k = l
  BY <1>1, PushedLast DEF IInv, TypeOK, OnePlace
<1>3. /\ ~Carrying(p)' /\ pc'[p] # "working"
      /\ \A q \in Procs : q # p => pc'[q] = pc[q] /\ hand'[q] = hand[q]
                                   /\ (Carrying(q)' <=> Carrying(q))
  BY <1>1 DEF IInv, TypeOK, Carrying
<1>4. TypeOK'
  BY <1>1, <1>2 DEF IInv, TypeOK, RQPCs
<1>5. InHand'
  BY <1>3 DEF IInv, InHand
<1>6. CountsAgree'
  BY <1>1, <1>2, <1>3 DEF IInv, CountsAgree, Live, Stored
<1>7. OnePlace'
  BY <1>1, <1>2, <1>3 DEF IInv, OnePlace, Stored
<1>8. SomePlace'
  BY <1>1, <1>2, <1>3 DEF IInv, SomePlace, Live, Stored
<1> QED BY <1>4, <1>5, <1>6, <1>7, <1>8 DEF IInv

LEMMA KeptByBrpop ==
  ASSUME IInv, NEW p \in Procs, Brpop(p)
  PROVE  IInv'
<1>1. PICK r : r = ready[Len(ready)]
  OBVIOUS
<1>2. /\ pc[p] = "popping" /\ ready # <<>>
      /\ UNCHANGED <<inflight, dead, scan, sent, acked, given, lost, crashes>>
      /\ ready' = SubSeq(ready, 1, Len(ready) - 1) /\ hand' = [hand EXCEPT ![p] = r]
      /\ pc' = [pc EXCEPT ![p] = "popped"]
  BY <1>1 DEF Brpop, hist
<1>3. /\ ready' \in Seq(Raws) /\ r \in Raws /\ Listed(r)
      /\ \A s : Listed(s)' <=> Listed(s) /\ s # r
      /\ \A s \in Raws : s[1] = r[1] => ~Listed(s)'
      /\ \A k, l \in 1..Len(ready') : ready'[k][1] = ready'[l][1] => k = l
  BY <1>1, <1>2, PoppedLast DEF IInv, TypeOK, OnePlace
<1>4. /\ Carrying(p)' /\ ~Carrying(p) /\ hand'[p] = r /\ pc'[p] # "working"
      /\ \A q \in Procs : q # p => pc'[q] = pc[q] /\ hand'[q] = hand[q]
                                   /\ (Carrying(q)' <=> Carrying(q))
  BY <1>2 DEF IInv, TypeOK, Carrying
<1>5. TypeOK'
  BY <1>2, <1>3 DEF IInv, TypeOK, RQPCs
<1>6. InHand'
  BY <1>3, <1>4 DEF IInv, InHand
<1>7. CountsAgree'
  BY <1>2, <1>3, <1>4 DEF IInv, CountsAgree, Live, Stored
<1>8. OnePlace'
  BY <1>2, <1>3, <1>4 DEF IInv, OnePlace, Stored
<1>9. SomePlace'
  BY <1>2, <1>3, <1>4 DEF IInv, SomePlace, Live, Stored
<1> QED BY <1>5, <1>6, <1>7, <1>8, <1>9 DEF IInv

LEMMA KeptByPushDead ==
  ASSUME IInv, NEW p \in Procs, PushDead(p)
  PROVE  IInv'
<1>1. /\ pc[p] = "popped" /\ Carrying(p) /\ hand[p] \in Raws
      /\ hand[p][1] \in Ids /\ hand[p][2] = MaxReceive
      /\ UNCHANGED <<ready, inflight, scan, sent, acked, given, lost, crashes>>
      /\ dead' = dead \cup {hand[p][1]} /\ hand' = [hand EXCEPT ![p] = NoMsg]
      /\ pc' = [pc EXCEPT ![p] = "popping"]
  BY RawsTyped, RQAssumption DEF PushDead, hist, IInv, InHand, Carrying
<1>2. /\ ~Carrying(p)' /\ pc'[p] # "working"
      /\ \A q \in Procs : q # p => pc'[q] = pc[q] /\ hand'[q] = hand[q]
                                   /\ (Carrying(q)' <=> Carrying(q))
  BY <1>1 DEF IInv, TypeOK, Carrying
<1>3. TypeOK'
  BY <1>1 DEF IInv, TypeOK, RQPCs
<1>4. InHand'
  BY <1>2 DEF IInv, InHand
<1>5. CountsAgree'
  BY <1>1, <1>2 DEF IInv, CountsAgree, Live, Stored, Listed
<1>6. OnePlace'
  BY <1>1, <1>2 DEF IInv, OnePlace, Stored, Listed
<1>7. SomePlace'
  BY <1>1, <1>2 DEF IInv, SomePlace, Live, Stored, Listed
<1> QED BY <1>3, <1>4, <1>5, <1>6, <1>7 DEF IInv

LEMMA KeptByZadd ==
  ASSUME IInv, NEW p \in Procs, Zadd(p)
  PROVE  IInv'
<1>1. PICK r : r = <<hand[p][1], hand[p][2] + 1>>
  OBVIOUS
<1>2. /\ pc[p] = "popped" /\ Carrying(p) /\ hand[p] \in Raws
      /\ r \in Raws /\ r[1] = hand[p][1] /\ r[2] = hand[p][2] + 1 /\ r[2] > 0
      /\ UNCHANGED <<ready, dead, scan, sent, acked, lost, crashes>>
      /\ inflight' = [inflight EXCEPT ![r] = Visibility] /\ hand' = [hand EXCEPT ![p] = r]
      /\ given' = [given EXCEPT ![r[1]] = @ + 1] /\ pc' = [pc EXCEPT ![p] = "working"]
  BY <1>1, RQAssumption DEF Zadd, Raws, IInv, InHand, Carrying
<1>3. /\ inflight' \in [Raws -> Absent..Visibility]
      /\ \A s \in Raws : Stored(s)' <=> Stored(s) \/ s = r
  BY <1>2, RQAssumption DEF IInv, TypeOK, Stored, Absent
<1>4. /\ ~Carrying(p)' /\ hand'[p] = r
      /\ \A q \in Procs : q # p => pc'[q] = pc[q] /\ hand'[q] = hand[q]
                                   /\ (Carrying(q)' <=> Carrying(q))
  BY <1>2 DEF IInv, TypeOK, Carrying
<1>5. /\ r[1] \in Ids /\ r[2] \in 0..MaxReceive /\ r[1] \in Live
      /\ given' \in [Ids -> 0..MaxReceive] /\ given'[r[1]] = r[2]
      /\ \A i \in Ids : i # r[1] => given'[i] = given[i]
  BY <1>2, RawsTyped DEF IInv, TypeOK, CountsAgree
<1>6. TypeOK'
  BY <1>2, <1>3, <1>5 DEF IInv, TypeOK, RQPCs
<1>7. InHand'
  BY <1>2, <1>4 DEF IInv, InHand
<1>8. CountsAgree'
  <2>1. \A s \in Raws : s[1] \in Ids /\ (Listed(s) \/ Stored(s) => s[1] # r[1])
    BY <1>2, RawsTyped DEF IInv, OnePlace
  <2>2. \A q \in Procs : Carrying(q) => hand[q][1] \in Ids /\ (q # p => hand[q][1] # r[1])
    BY <1>2, RawsTyped DEF IInv, InHand, OnePlace
  <2>3. \A i \in dead : i \in Ids /\ i # r[1]
    BY <1>2 DEF IInv, TypeOK, OnePlace
  <2>4. \A s \in Raws : Listed(s)' \/ Stored(s)' => s[1] \in Live' /\ s[2] = given'[s[1]]
    BY <1>2, <1>3, <1>5, <2>1 DEF IInv, CountsAgree, Live, Listed
  <2>5. \A q \in Procs :
          Carrying(q)' => hand'[q][1] \in Live' /\ hand'[q][2] = given'[hand'[q][1]]
    BY <1>2, <1>4, <1>5, <2>2 DEF IInv, CountsAgree, Live
  <2>6. \A i \in Ids : i \notin sent' => given'[i] = 0 /\ i \notin acked' \cup lost'
    BY <1>2, <1>5 DEF IInv, CountsAgree, Live
  <2> QED BY <1>2, <1>5, <2>3, <2>4, <2>5, <2>6 DEF IInv, CountsAgree, Live
<1>9. OnePlace'
  BY <1>2, <1>3, <1>4 DEF IInv, OnePlace, Listed
<1>10. SomePlace'
  BY <1>2, <1>3, <1>4 DEF IInv, SomePlace, Live, Listed
<1> QED BY <1>6, <1>7, <1>8, <1>9, <1>10 DEF IInv

LEMMA KeptByAck ==
  ASSUME IInv, NEW p \in Procs, Ack(p), Stored(hand[p])
  PROVE  IInv'
<1>1. PICK r : r = hand[p]
  OBVIOUS
<1>2. /\ pc[p] = "working" /\ ~Carrying(p) /\ r \in Raws /\ Stored(r) /\ r[1] \in Ids
      /\ UNCHANGED <<ready, dead, scan, sent, given, lost, crashes>>
      /\ inflight' = [inflight EXCEPT ![r] = Absent] /\ hand' = [hand EXCEPT ![p] = NoMsg]
      /\ acked' = acked \cup {r[1]} /\ pc' = [pc EXCEPT ![p] = "idle"]
  BY <1>1, RawsTyped DEF Ack, IInv, InHand, Carrying
<1>3. \A s \in Raws : Stored(s)' <=> Stored(s) /\ s # r
  BY <1>2 DEF IInv, TypeOK, Stored
<1>4. /\ ~Carrying(p)' /\ pc'[p] # "working"
      /\ \A q \in Procs : q # p => pc'[q] = pc[q] /\ hand'[q] = hand[q]
                                   /\ (Carrying(q)' <=> Carrying(q))
  BY <1>2 DEF IInv, TypeOK, Carrying
<1>5. TypeOK'
  BY <1>2, RQAssumption DEF IInv, TypeOK, RQPCs, Absent
<1>6. InHand'
  BY <1>4 DEF IInv, InHand
<1>7. CountsAgree'
  <2>1. \A i : i \in Live' <=> i \in Live /\ i # r[1]
    BY <1>2 DEF Live
  <2>2. \A s \in Raws : Listed(s)' \/ Stored(s)' => s[1] # r[1] /\ (Listed(s) \/ Stored(s))
    BY <1>2, <1>3 DEF IInv, OnePlace, Listed
  <2>3. \A q \in Procs : Carrying(q)' => /\ Carrying(q) /\ hand'[q] = hand[q]
                                         /\ hand[q][1] # r[1]
    BY <1>2, <1>4 DEF IInv, OnePlace
  <2>4. \A i \in dead : i # r[1]
    BY <1>2 DEF IInv, OnePlace
  <2>5. \A i \in Ids : i \notin sent => i \notin acked'
    BY <1>2 DEF IInv, CountsAgree, Live
  <2>6. \A s \in Raws : Listed(s)' \/ Stored(s)' => s[1] \in Live' /\ s[2] = given'[s[1]]
    BY <1>2, <2>1, <2>2 DEF IInv, CountsAgree
  <2>7. \A q \in Procs :
          Carrying(q)' => hand'[q][1] \in Live' /\ hand'[q][2] = given'[hand'[q][1]]
    BY <1>2, <2>1, <2>3 DEF IInv, CountsAgree
  <2>8. acked' \cap lost' = {}
    BY <1>2 DEF IInv, CountsAgree, Live
  <2> QED BY <1>2, <2>1, <2>4, <2>5, <2>6, <2>7, <2>8 DEF IInv, CountsAgree
<1>8. OnePlace'
  BY <1>2, <1>3, <1>4 DEF IInv, OnePlace, Listed
<1>9. SomePlace'
  BY <1>2, <1>3, <1>4 DEF IInv, SomePlace, Live, Listed
<1> QED BY <1>5, <1>6, <1>7, <1>8, <1>9 DEF IInv

LEMMA KeptByCrash ==
  ASSUME IInv, NEW p \in Procs, Crash(p)
  PROVE  IInv'
<1>1. /\ UNCHANGED <<ready, inflight, dead, sent, acked, given>>
      /\ crashes' = crashes + 1 /\ crashes < MaxCrashes
      /\ lost' = lost \cup Carried(p) /\ hand' = [hand EXCEPT ![p] = NoMsg]
      /\ pc' = [pc EXCEPT ![p] = "idle"] /\ scan' = [scan EXCEPT ![p] = {}]
  BY DEF Crash
<1>2. /\ ~Carrying(p)' /\ pc'[p] # "working"
      /\ \A q \in Procs : q # p => pc'[q] = pc[q] /\ hand'[q] = hand[q]
                                   /\ (Carrying(q)' <=> Carrying(q))
  BY <1>1 DEF IInv, TypeOK, Carrying
<1>3. Carried(p) = (IF Carrying(p) THEN {hand[p][1]} ELSE {}) /\ Carried(p) \subseteq Ids
  BY RawsTyped DEF Carried, Carrying, IInv, InHand
<1>4. TypeOK'
  BY <1>1, <1>3, RQAssumption DEF IInv, TypeOK, RQPCs
<1>5. InHand'
  BY <1>2 DEF IInv, InHand
<1>6. CountsAgree'
  BY <1>1, <1>2, <1>3 DEF IInv, CountsAgree, OnePlace, Live, Listed, Stored
<1>7. OnePlace'
  BY <1>1, <1>2 DEF IInv, OnePlace, Listed, Stored
<1>8. SomePlace'
  BY <1>1, <1>2, <1>3 DEF IInv, SomePlace, Live, Listed, Stored
<1> QED BY <1>4, <1>5, <1>6, <1>7, <1>8 DEF IInv

LEMMA KeptByNext == IInv /\ [Next]_rqVars => IInv'
<1> SUFFICES ASSUME IInv, [Next]_rqVars PROVE IInv'
  OBVIOUS
<1>1. ASSUME NEW i \in Ids, Enqueue(i) \/ EnqueueDelayed(i) PROVE IInv'
  BY <1>1, KeptByEnqueue, KeptByEnqueueDelayed
<1>2. ASSUME NEW p \in Procs, ScanExpired(p) \/ ScanDone(p) \/ PopTimeout(p) PROVE IInv'
  <2>1. /\ UNCHANGED <<ready, inflight, dead, hand, sent, acked, given, lost, crashes>>
        /\ \A q \in Procs : pc'[q] # "working" => (Carrying(q)' <=> Carrying(q))
        /\ \A q \in Procs : pc'[q] = "working" <=> pc[q] = "working"
    BY <1>2 DEF ScanExpired, ScanDone, PopTimeout, hist, Carrying, IInv, TypeOK
  <2>2. \A q \in Procs : Carrying(q)' <=> Carrying(q)
    BY <2>1 DEF Carrying
  <2>3. TypeOK'
    BY <1>2, <2>1 DEF ScanExpired, ScanDone, PopTimeout, IInv, TypeOK, RQPCs
  <2>4. InHand'
    BY <2>1, <2>2 DEF IInv, InHand
  <2> QED BY <2>1, <2>2, <2>3, <2>4, KeptByQuiet DEF Stored
<1>3. ASSUME NEW p \in Procs, NEW r \in Raws, Zrem(p, r) PROVE IInv'
  <2>1. CASE Stored(r)
    BY <1>3, <2>1, KeptByZrem
  <2>2. CASE ~Stored(r)
    <3>1. UNCHANGED <<ready, inflight, dead, hand, pc, sent, acked, given, lost, crashes>>
      BY <1>3, <2>2 DEF Zrem, hist
    <3>2. TypeOK'
      BY <1>3, <3>1 DEF Zrem, IInv, TypeOK
    <3>3. InHand'
      BY <3>1 DEF IInv, InHand, Carrying
    <3> QED BY <3>1, <3>2, <3>3, KeptByQuiet DEF Stored, Carrying
  <2> QED BY <2>1, <2>2
<1>4. ASSUME NEW p \in Procs, Rpush(p) \/ Brpop(p) \/ PushDead(p) \/ Zadd(p) \/ Crash(p)
      PROVE  IInv'
  BY <1>4, KeptByRpush, KeptByBrpop, KeptByPushDead, KeptByZadd, KeptByCrash
<1>5. ASSUME NEW p \in Procs, Ack(p), Stored(hand[p]) PROVE IInv'
  BY <1>5, KeptByAck
<1>6. ASSUME NEW p \in Procs, GiveUp(p) \/ (Ack(p) /\ ~Stored(hand[p])) PROVE IInv'
  <2>1. /\ UNCHANGED <<ready, inflight, dead, scan, sent, acked, given, lost, crashes>>
        /\ pc[p] = "working" /\ pc' = [pc EXCEPT ![p] = "idle"]
        /\ hand' = [hand EXCEPT ![p] = NoMsg]
    BY <1>6 DEF GiveUp, Ack, hist
  <2>2. /\ \A q \in Procs : (Carrying(q)' <=> Carrying(q)) /\ (Carrying(q) => hand'[q] = hand[q])
        /\ \A q \in Procs : pc'[q] = "working" => pc[q] = "working" /\ hand'[q] = hand[q]
    BY <2>1 DEF Carrying, IInv, TypeOK
  <2>3. TypeOK'
    BY <2>1 DEF IInv, TypeOK, RQPCs
  <2>4. InHand'
    BY <2>2 DEF IInv, InHand
  <2> QED BY <2>1, <2>2, <2>3, <2>4, KeptByQuiet DEF Stored
<1>7. ASSUME NEW p \in Procs, NEW seconds \in {0, Visibility}, ExtendLease(p, seconds)
      PROVE  IInv'
  <2>1. /\ UNCHANGED <<ready, dead, pc, scan, hand, sent, acked, given, lost, crashes>>
        /\ Stored(hand[p]) /\ inflight' = [inflight EXCEPT ![hand[p]] = seconds]
    BY <1>7 DEF ExtendLease, hist
  <2>2. seconds \in 0..Visibility /\ seconds \in Absent..Visibility
    BY RQAssumption DEF Absent
  <2>3. \A r \in Raws : Stored(r)' <=> Stored(r)
    BY <2>1, <2>2 DEF Stored, Absent, IInv, TypeOK
  <2>4. TypeOK'
    <3>1. inflight' \in [Raws -> Absent..Visibility]
      BY <2>1, <2>2 DEF IInv, TypeOK
    <3> QED BY <2>1, <3>1 DEF IInv, TypeOK
  <2>5. InHand'
    BY <2>1 DEF IInv, InHand, Carrying
  <2> QED BY <2>1, <2>3, <2>4, <2>5, KeptByQuiet DEF Carrying
<1>8. ASSUME Tick PROVE IInv'
  <2>1. UNCHANGED <<ready, dead, pc, scan, hand, sent, acked, given, lost, crashes>>
    BY <1>8 DEF Tick, hist
  <2>2. \A r \in Raws : /\ inflight'[r] \in Absent..Visibility
                        /\ Stored(r)' <=> Stored(r)
    BY <1>8, RQAssumption DEF Tick, Stored, Absent, IInv, TypeOK
  <2>3. TypeOK'
    BY <1>8, <2>1, <2>2 DEF Tick, IInv, TypeOK
  <2>4. InHand'
    BY <2>1 DEF IInv, InHand, Carrying
  <2> QED BY <2>1, <2>2, <2>3, <2>4, KeptByQuiet DEF Carrying
<1>9. ASSUME UNCHANGED rqVars PROVE IInv'
  <2>1. TypeOK'
    BY <1>9 DEF rqVars, hist, IInv, TypeOK
  <2>2. InHand'
    BY <1>9 DEF rqVars, hist, IInv, InHand, Carrying
  <2> QED BY <1>9, <2>1, <2>2, KeptByQuiet DEF rqVars, hist, Stored, Carrying
<1> QED
  BY <1>1, <1>2, <1>3, <1>4, <1>5, <1>6, <1>7, <1>8, <1>9 DEF Next, Receive, Work

LEMMA Invariant == Spec => []IInv
<1>1. Init => IInv
  <2>1. ASSUME Init PROVE TypeOK
    BY <2>1, RQAssumption DEF Init, TypeOK, Absent, RQPCs
  <2>2. ASSUME Init PROVE InHand
    BY <2>2 DEF Init, InHand, Carrying
  <2>3. ASSUME Init PROVE CountsAgree /\ OnePlace /\ SomePlace
    BY <2>3 DEF Init, CountsAgree, OnePlace, SomePlace, Listed, Stored, Carrying, Live
  <2> QED BY <2>1, <2>2, <2>3 DEF IInv
<1> QED
  BY <1>1, KeptByNext, PTL DEF Spec

\* Every variable has its type; no message is ever handed out more often than
\* allowed, and only messages are in the list and in the hands of processes.
THEOREM TypeCorrect == Spec => []TypeOK
BY Invariant, PTL DEF IInv

-----------------------------------------------------------------------------
(* One copy.                                                                  *)

LEMMA CopiesCounted ==
  ASSUME IInv, NEW i \in Ids
  PROVE  Copies(i) = IF i \in sent \ (acked \cup lost) THEN 1 ELSE 0
<1>1. \A S, x : S = {x} => Cardinality(S) = 1
  BY FS_Singleton
<1>2. \A S : S = {} => Cardinality(S) = 0
  BY FS_EmptySet
<1>3. /\ \A k \in 1..Len(ready) : ready[k] \in Raws /\ Listed(ready[k])
      /\ \A p \in Procs : i \in Carried(p) <=> Carrying(p) /\ hand[p][1] = i
  BY DEF IInv, TypeOK, Listed, Carried, Carrying
<1>4. CASE i \notin Live
  <2>1. InReady(i) = {} /\ InFlight(i) = {} /\ InTransit(i) = {} /\ i \notin dead
    BY <1>3, <1>4 DEF IInv, CountsAgree, InReady, InFlight, InTransit
  <2> QED BY <1>2, <1>4, <2>1 DEF Copies, Live
<1>5. CASE i \in Live /\ i \in dead
  <2>1. InReady(i) = {} /\ InFlight(i) = {} /\ InTransit(i) = {}
    BY <1>3, <1>5 DEF IInv, OnePlace, InReady, InFlight, InTransit
  <2> QED BY <1>2, <1>5, <2>1 DEF Copies, Live
<1>6. ASSUME i \in Live, NEW r \in Raws, r[1] = i, Listed(r)
      PROVE  Copies(i) = 1
  <2>1. PICK k \in 1..Len(ready) : ready[k] = r
    BY <1>6 DEF Listed
  <2>2. InReady(i) = {k}
    BY <1>6, <2>1 DEF IInv, OnePlace, InReady
  <2>3. InFlight(i) = {} /\ InTransit(i) = {} /\ i \notin dead
    BY <1>3, <1>6 DEF IInv, OnePlace, InFlight, InTransit
  <2>4. /\ Cardinality(InReady(i)) = 1 /\ Cardinality(InFlight(i)) = 0
        /\ Cardinality(InTransit(i)) = 0
    BY <1>1, <1>2, <2>2, <2>3
  <2> QED BY <2>3, <2>4 DEF Copies
<1>7. ASSUME i \in Live, NEW r \in Raws, r[1] = i, Stored(r)
      PROVE  Copies(i) = 1
  <2>1. InFlight(i) = {r}
    BY <1>7 DEF IInv, OnePlace, InFlight
  <2>2. InReady(i) = {} /\ InTransit(i) = {} /\ i \notin dead
    BY <1>3, <1>7 DEF IInv, OnePlace, InReady, InTransit
  <2>3. /\ Cardinality(InReady(i)) = 0 /\ Cardinality(InFlight(i)) = 1
        /\ Cardinality(InTransit(i)) = 0
    BY <1>1, <1>2, <2>1, <2>2
  <2> QED BY <2>2, <2>3 DEF Copies
<1>8. ASSUME i \in Live, NEW p \in Procs, Carrying(p), hand[p][1] = i
      PROVE  Copies(i) = 1
  <2>1. InTransit(i) = {p}
    BY <1>3, <1>8 DEF IInv, OnePlace, InTransit
  <2>2. InReady(i) = {} /\ InFlight(i) = {} /\ i \notin dead
    BY <1>3, <1>8 DEF IInv, OnePlace, InReady, InFlight
  <2>3. /\ Cardinality(InReady(i)) = 0 /\ Cardinality(InFlight(i)) = 0
        /\ Cardinality(InTransit(i)) = 1
    BY <1>1, <1>2, <2>1, <2>2
  <2> QED BY <2>2, <2>3 DEF Copies
<1> QED
  BY <1>4, <1>5, <1>6, <1>7, <1>8 DEF IInv, SomePlace, Live

\* A message has one copy from its enqueue to its ack, and none after: two
\* processes that requeue the same expired member, late acks and late heartbeats
\* neither multiply it nor lose it; only a crash between two commands does.
THEOREM OneCopyKept == Spec => []ExactlyOneCopy
<1>1. IInv => ExactlyOneCopy
  BY CopiesCounted DEF ExactlyOneCopy
<1> QED
  BY <1>1, Invariant, PTL

\* A message in the dead list was delivered as often as allowed, not less.
THEOREM BurialIsDue == Spec => []DeadIsExhausted
<1>1. IInv => DeadIsExhausted
  BY DEF IInv, CountsAgree, DeadIsExhausted
<1> QED
  BY <1>1, Invariant, PTL

-----------------------------------------------------------------------------
(* The promise.  What a step does to a message decides which step of         *)
(* AtLeastOnce it is.                                                         *)

\* Handed out, and its time has not been found to be over.
Out(i) == \E r \in Raws : r[1] = i /\ r[2] > 0 /\ Stored(r)

\* The cases of Place exclude one another.
LEMMA PlaceDecided ==
  IInv => \A i \in Ids :
    Place(i) = IF i \notin sent THEN "new" ELSE IF i \in acked THEN "acked"
               ELSE IF i \in dead THEN "dead" ELSE IF i \in lost THEN "lost"
               ELSE IF Out(i) THEN "out" ELSE "waiting"
<1> SUFFICES ASSUME IInv, NEW i \in Ids
    PROVE  Place(i) = IF i \notin sent THEN "new" ELSE IF i \in acked THEN "acked"
             ELSE IF i \in dead THEN "dead" ELSE IF i \in lost THEN "lost"
             ELSE IF Out(i) THEN "out" ELSE "waiting"
  OBVIOUS
<1>1. Out(i) <=> \E r \in InFlight(i) : r[2] > 0
  BY DEF Out, InFlight
<1>2. /\ i \notin sent => i \notin acked /\ i \notin dead /\ i \notin lost /\ ~Out(i)
      /\ i \in acked => i \notin dead /\ ~Out(i)
      /\ i \in lost => i \notin acked /\ i \notin dead /\ ~Out(i)
      /\ i \in dead => ~Out(i)
  BY DEF IInv, CountsAgree, OnePlace, Live, Out
<1> QED BY <1>1, <1>2 DEF Place

LEMMA PlaceDecidedNext ==
  (IInv => \A i \in Ids :
    Place(i) = IF i \notin sent THEN "new" ELSE IF i \in acked THEN "acked"
               ELSE IF i \in dead THEN "dead" ELSE IF i \in lost THEN "lost"
               ELSE IF Out(i) THEN "out" ELSE "waiting")'
BY PlaceDecided, PTL

PromiseStep == [Promise!Next]_(Promise!qVars)

LEMMA PlaceStays ==
  ASSUME IInv, IInv', NEW i \in Ids, i \in sent' <=> i \in sent, i \in acked' <=> i \in acked,
         i \in dead' <=> i \in dead, i \in lost' <=> i \in lost, Out(i)' <=> Out(i)
  PROVE  Place(i)' = Place(i)
BY PlaceDecided, PlaceDecidedNext

LEMMA NothingSeen ==
  ASSUME IInv, IInv', UNCHANGED <<sent, acked, dead, lost, given, crashes>>,
         \A i \in Ids : Out(i)' <=> Out(i)
  PROVE  PromiseStep
<1>1. \A i \in Ids : Place(i)' = Place(i)
  BY PlaceStays
<1>2. [i \in Ids |-> Place(i)]' = [i \in Ids |-> Place(i)]
  BY <1>1
<1> QED BY <1>2 DEF PromiseStep, Promise!qVars

\* The place of one message changes.
LEMMA OneMoves ==
  ASSUME NEW i \in Ids, NEW from, NEW to, Place(i) = from, Place(i)' = to,
         \A k \in Ids : k # i => Place(k)' = Place(k)
  PROVE  Promise!Move(i, {from}, to)
BY DEF Promise!Move

LEMMA SeenSend ==
  ASSUME IInv, IInv', NEW i \in Ids, Enqueue(i) \/ EnqueueDelayed(i)
  PROVE  PromiseStep
<1>1. PICK r : r = <<i, 0>>
  OBVIOUS
<1>2. /\ r \in Raws /\ r[1] = i /\ r[2] = 0 /\ i \notin Live \cup acked \cup lost \cup dead
      /\ \A s \in Raws : s[1] = i => ~Listed(s) /\ ~Stored(s)
  BY <1>1, FreshIsNowhere DEF Enqueue, EnqueueDelayed
<1>3. /\ i \notin sent /\ sent' = sent \cup {i} /\ UNCHANGED <<dead, acked, lost, given, crashes>>
      /\ \A s \in Raws : s # r => inflight'[s] = inflight[s]
  BY <1>1 DEF Enqueue, EnqueueDelayed, IInv, TypeOK
<1>4. \A k \in Ids : Out(k)' <=> Out(k)
  BY <1>2, <1>3 DEF Out, Stored
<1>5. ~Out(i)
  BY <1>2 DEF Out
<1>6. Place(i) = "new" /\ Place(i)' = "waiting"
  BY <1>2, <1>3, <1>4, <1>5, PlaceDecided, PlaceDecidedNext
<1>7. \A k \in Ids : k # i => Place(k)' = Place(k)
  BY <1>3, <1>4, PlaceStays
<1>8. Promise!Send(i)
  BY <1>3, <1>6, <1>7, OneMoves DEF Promise!Send
<1> QED BY <1>8 DEF PromiseStep, Promise!Next

LEMMA SeenTakeBack ==
  ASSUME IInv, IInv', NEW p \in Procs, NEW r \in Raws, Zrem(p, r), Stored(r)
  PROVE  PromiseStep
<1>1. /\ UNCHANGED <<sent, dead, acked, lost, given, crashes>> /\ inflight' = [inflight EXCEPT ![r] = Absent]
      /\ r[1] \in Ids
  BY RawsTyped DEF Zrem, hist
<1>2. \A s \in Raws : Stored(s)' <=> Stored(s) /\ s # r
  BY <1>1 DEF IInv, TypeOK, Stored
<1>3. \A k \in Ids : k # r[1] => (Out(k)' <=> Out(k))
  BY <1>2 DEF Out
<1>4. ~Out(r[1])'
  BY <1>2 DEF Out, IInv, OnePlace
<1>5. CASE r[2] > 0
  <2>1. Out(r[1]) /\ r[1] \in sent /\ r[1] \notin acked \cup lost /\ r[1] \notin dead
    BY <1>5 DEF Out, IInv, CountsAgree, OnePlace, Live
  <2>2. Place(r[1]) = "out" /\ Place(r[1])' = "waiting"
    BY <1>1, <1>4, <2>1, PlaceDecided, PlaceDecidedNext
  <2>3. \A k \in Ids : k # r[1] => Place(k)' = Place(k)
    BY <1>1, <1>3, PlaceStays
  <2>4. Promise!TakeBack(r[1])
    BY <1>1, <2>2, <2>3, OneMoves DEF Promise!TakeBack
  <2> QED BY <1>1, <2>4 DEF PromiseStep, Promise!Next
<1>6. CASE ~(r[2] > 0)
  <2>1. \A k \in Ids : Out(k)' <=> Out(k)
    BY <1>2, <1>6 DEF Out
  <2> QED BY <1>1, <2>1, NothingSeen
<1> QED BY <1>5, <1>6

LEMMA SeenBury ==
  ASSUME IInv, IInv', NEW p \in Procs, PushDead(p)
  PROVE  PromiseStep
<1>1. PICK i : i = hand[p][1]
  OBVIOUS
<1>2. /\ Carrying(p) /\ hand[p] \in Raws /\ i \in Ids /\ hand[p][2] = MaxReceive
      /\ UNCHANGED <<inflight, sent, acked, lost, given, crashes>> /\ dead' = dead \cup {i}
  BY <1>1, RawsTyped, RQAssumption DEF PushDead, hist, IInv, InHand, Carrying
<1>3. i \in sent /\ i \notin acked \cup lost /\ i \notin dead /\ given[i] = MaxReceive /\ ~Out(i)
  BY <1>1, <1>2 DEF IInv, CountsAgree, OnePlace, Live, Out
<1>4. \A k \in Ids : Out(k)' <=> Out(k)
  BY <1>2 DEF Out, Stored
<1>5. Place(i) = "waiting" /\ Place(i)' = "dead"
  BY <1>2, <1>3, PlaceDecided, PlaceDecidedNext
<1>6. \A k \in Ids : k # i => Place(k)' = Place(k)
  BY <1>2, <1>4, PlaceStays
<1>7. Promise!Bury(i)
  BY <1>2, <1>3, <1>5, <1>6, OneMoves DEF Promise!Bury
<1> QED BY <1>2, <1>7 DEF PromiseStep, Promise!Next

LEMMA SeenHandOut ==
  ASSUME IInv, IInv', NEW p \in Procs, Zadd(p)
  PROVE  PromiseStep
<1>1. PICK r : r = <<hand[p][1], hand[p][2] + 1>>
  OBVIOUS
<1>2. /\ Carrying(p) /\ hand[p] \in Raws /\ r \in Raws /\ r[1] \in Ids /\ r[1] = hand[p][1]
      /\ r[2] = hand[p][2] + 1 /\ r[2] > 0 /\ hand[p][2] < MaxReceive
      /\ UNCHANGED <<dead, sent, acked, lost, crashes>> /\ inflight' = [inflight EXCEPT ![r] = Visibility]
      /\ given' = [given EXCEPT ![r[1]] = @ + 1]
  BY <1>1, RQAssumption DEF Zadd, Raws, IInv, InHand, Carrying
<1>3. \A s \in Raws : Stored(s)' <=> Stored(s) \/ s = r
  BY <1>2, RQAssumption DEF IInv, TypeOK, Stored, Absent
<1>4. /\ r[1] \in sent /\ r[1] \notin acked \cup lost /\ r[1] \notin dead /\ ~Out(r[1])
      /\ given[r[1]] < MaxReceive
  BY <1>2 DEF IInv, CountsAgree, OnePlace, Live, Out
<1>5. Out(r[1])' /\ \A k \in Ids : k # r[1] => (Out(k)' <=> Out(k))
  BY <1>2, <1>3 DEF Out
<1>6. Place(r[1]) = "waiting" /\ Place(r[1])' = "out"
  BY <1>2, <1>4, <1>5, PlaceDecided, PlaceDecidedNext
<1>7. \A k \in Ids : k # r[1] => Place(k)' = Place(k)
  BY <1>2, <1>5, PlaceStays
<1>8. Promise!HandOut(r[1])
  BY <1>2, <1>4, <1>6, <1>7, OneMoves DEF Promise!HandOut
<1> QED BY <1>2, <1>8 DEF PromiseStep, Promise!Next

LEMMA SeenAck ==
  ASSUME IInv, IInv', NEW p \in Procs, Ack(p), Stored(hand[p])
  PROVE  PromiseStep
<1>1. PICK r : r = hand[p]
  OBVIOUS
<1>2. /\ r \in Raws /\ r[1] \in Ids /\ r[2] > 0 /\ Stored(r)
      /\ UNCHANGED <<dead, sent, lost, given, crashes>> /\ inflight' = [inflight EXCEPT ![r] = Absent]
      /\ acked' = acked \cup {r[1]}
  BY <1>1, RawsTyped DEF Ack, IInv, InHand
<1>3. \A s \in Raws : Stored(s)' <=> Stored(s) /\ s # r
  BY <1>2 DEF IInv, TypeOK, Stored
<1>4. r[1] \in sent /\ r[1] \notin acked \cup lost /\ r[1] \notin dead /\ Out(r[1])
  BY <1>2 DEF IInv, CountsAgree, OnePlace, Live, Out
<1>5. \A k \in Ids : k # r[1] => (Out(k)' <=> Out(k))
  BY <1>3 DEF Out
<1>6. Place(r[1]) = "out" /\ Place(r[1])' = "acked"
  BY <1>2, <1>4, PlaceDecided, PlaceDecidedNext
<1>7. \A k \in Ids : k # r[1] => Place(k)' = Place(k)
  BY <1>2, <1>5, PlaceStays
<1>8. Promise!Ack(r[1])
  BY <1>2, <1>6, <1>7, OneMoves DEF Promise!Ack
<1> QED BY <1>2, <1>8 DEF PromiseStep, Promise!Next

LEMMA SeenFail ==
  ASSUME IInv, IInv', NEW p \in Procs, Crash(p)
  PROVE  PromiseStep
<1>1. /\ UNCHANGED <<inflight, sent, dead, acked, given>> /\ crashes' = crashes + 1
      /\ lost' = lost \cup Carried(p)
  BY DEF Crash
<1>2. \A k \in Ids : Out(k)' <=> Out(k)
  BY <1>1 DEF Out, Stored
<1>3. CASE ~Carrying(p)
  <2>1. lost' = lost
    BY <1>1, <1>3 DEF Carried, Carrying
  <2>2. \A i \in Ids : Place(i)' = Place(i)
    BY <1>1, <1>2, <2>1, PlaceStays
  <2>3. [i \in Ids |-> Place(i)]' = [i \in Ids |-> Place(i)]
    BY <2>2
  <2>4. Promise!Fail
    BY <1>1, <2>3 DEF Promise!Fail
  <2> QED BY <2>4 DEF PromiseStep, Promise!Next
<1>4. CASE Carrying(p)
  <2>1. PICK i : i = hand[p][1]
    OBVIOUS
  <2>2. i \in Ids /\ lost' = lost \cup {i}
    BY <1>1, <1>4, <2>1, RawsTyped DEF Carried, Carrying, IInv, InHand
  <2>3. i \in sent /\ i \notin acked /\ i \notin lost /\ i \notin dead /\ ~Out(i)
    BY <1>4, <2>1 DEF IInv, CountsAgree, OnePlace, Live, Out
  <2>4. Place(i) = "waiting" /\ Place(i)' = "lost"
    BY <1>1, <1>2, <2>2, <2>3, PlaceDecided, PlaceDecidedNext
  <2>5. \A k \in Ids : k # i => Place(k)' = Place(k)
    BY <1>1, <1>2, <2>2, PlaceStays
  <2>6. Promise!Fail
    BY <1>1, <2>2, <2>4, <2>5, OneMoves DEF Promise!Fail
  <2> QED BY <2>6 DEF PromiseStep, Promise!Next
<1> QED BY <1>3, <1>4

LEMMA SeenNext == IInv /\ IInv' /\ [Next]_rqVars => PromiseStep
<1> SUFFICES ASSUME IInv, IInv', [Next]_rqVars PROVE PromiseStep
  OBVIOUS
<1>1. ASSUME UNCHANGED <<inflight, sent, acked, dead, lost, given, crashes>> PROVE PromiseStep
  BY <1>1, NothingSeen DEF Out, Stored
<1>2. ASSUME NEW i \in Ids, Enqueue(i) \/ EnqueueDelayed(i) PROVE PromiseStep
  BY <1>2, SeenSend
<1>3. ASSUME NEW p \in Procs,
             ScanExpired(p) \/ Rpush(p) \/ ScanDone(p) \/ Brpop(p) \/ PopTimeout(p)
             \/ GiveUp(p)
      PROVE  PromiseStep
  BY <1>1, <1>3 DEF ScanExpired, Rpush, ScanDone, Brpop, PopTimeout, GiveUp, hist
<1>4. ASSUME NEW p \in Procs, NEW r \in Raws, Zrem(p, r) PROVE PromiseStep
  <2>1. CASE Stored(r)
    BY <1>4, <2>1, SeenTakeBack
  <2>2. CASE ~Stored(r)
    BY <1>1, <1>4, <2>2 DEF Zrem, hist
  <2> QED BY <2>1, <2>2
<1>5. ASSUME NEW p \in Procs, PushDead(p) \/ Zadd(p) PROVE PromiseStep
  BY <1>5, SeenBury, SeenHandOut
<1>6. ASSUME NEW p \in Procs, Ack(p) PROVE PromiseStep
  <2>1. CASE Stored(hand[p])
    BY <1>6, <2>1, SeenAck
  <2>2. CASE ~Stored(hand[p])
    BY <1>1, <1>6, <2>2 DEF Ack
  <2> QED BY <2>1, <2>2
<1>7. ASSUME NEW p \in Procs, NEW seconds \in {0, Visibility}, ExtendLease(p, seconds)
      PROVE  PromiseStep
  <2>1. /\ UNCHANGED <<sent, acked, dead, lost, given, crashes>> /\ Stored(hand[p])
        /\ inflight' = [inflight EXCEPT ![hand[p]] = seconds] /\ seconds # Absent
    BY <1>7, RQAssumption DEF ExtendLease, hist, Absent
  <2>2. \A r \in Raws : Stored(r)' <=> Stored(r)
    BY <2>1 DEF Stored, IInv, TypeOK
  <2> QED BY <2>1, <2>2, NothingSeen DEF Out
<1>8. ASSUME Tick PROVE PromiseStep
  <2>1. \A r \in Raws : Stored(r)' <=> Stored(r)
    BY <1>8, RQAssumption DEF Tick, Stored, Absent, IInv, TypeOK
  <2> QED BY <1>8, <2>1, NothingSeen DEF Tick, Out, hist
<1>9. ASSUME UNCHANGED rqVars PROVE PromiseStep
  BY <1>1, <1>9 DEF rqVars, hist
<1>10. ASSUME NEW p \in Procs, Crash(p) PROVE PromiseStep
  BY <1>10, SeenFail
<1> QED
  BY <1>2, <1>3, <1>4, <1>5, <1>6, <1>7, <1>8, <1>9, <1>10 DEF Next, Receive, Work

\* Over races, late calls and crashes the queue hands a message out, takes it
\* back and buries it as AtLeastOnce says: never after its ack, never more than
\* MaxReceive times, buried only after the last of them, and lost only to a
\* process that dies, one for each at most.
THEOREM PromiseKept == Spec => ImplementsPromise
<1>1. Init => Promise!Init
  <2>1. ASSUME Init PROVE \A i \in Ids : Place(i) = "new"
    <3>1. /\ \A i \in Ids : i \notin sent /\ i \notin acked /\ i \notin dead /\ i \notin lost
          /\ \A i \in Ids : ~\E r \in InFlight(i) : r[2] > 0
      BY <2>1 DEF Init, InFlight, Stored
    <3> QED BY <3>1 DEF Place
  <2> QED BY <2>1 DEF Promise!Init, Init
<1>2. IInv /\ IInv' /\ [Next]_rqVars => [Promise!Next]_(Promise!qVars)
  BY SeenNext DEF PromiseStep
<1> QED
  BY <1>1, <1>2, Invariant, PTL DEF Spec, ImplementsPromise, Promise!Spec

=============================================================================
