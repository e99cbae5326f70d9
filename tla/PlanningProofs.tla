--------------------------- MODULE PlanningProofs ---------------------------
(* Planning, for every transcript, window, cap and answer of the model: no     *)
(* moment as long as the overlap falls between two windows; the plan saved has *)
(* the answers of whole windows, accounts for each candidate, and keeps the    *)
(* surest under its cap.                                                       *)
EXTENDS Planning, SequenceTheorems, FiniteSetTheorems, WellFoundedInduction, TLAPS

-----------------------------------------------------------------------------
(* Recursion over the naturals, without an operator for a parameter: the sets  *)
(* and the functions are values.                                               *)

\* A set of naturals that is not empty has a least element.
LEMMA LeastElement ==
  ASSUME NEW T \in SUBSET Nat, T # {}
  PROVE  \E m \in T : \A n \in T : m <= n
<1> DEFINE Below == {x \in Nat \X Nat : x[1] < x[2]}
<1>1. IsWellFoundedOn(Below, Nat)
  BY NatLessThanWellFounded DEF OpToRel, IsWellFoundedOn
<1>2. PICK m \in T : \A n \in T : ~ (<<n, m>> \in Below)
  <2> HIDE DEF Below
  <2> QED BY <1>1, WFMin
<1>3. ASSUME NEW n \in T PROVE m <= n
  <2>1. n \in Nat /\ m \in Nat
    OBVIOUS
  <2>2. n < m => <<n, m>> \in Below
    BY <2>1
  <2> QED BY <1>2, <2>1, <2>2
<1> QED BY <1>3

\* Induction, for the set of the numbers that have the property.
LEMMA Induction ==
  ASSUME NEW S \in SUBSET Nat, 0 \in S, \A n \in S : n + 1 \in S
  PROVE  S = Nat
<1> SUFFICES ASSUME Nat \ S # {} PROVE FALSE
  OBVIOUS
<1>1. PICK m \in Nat \ S : \A n \in Nat \ S : m <= n
  BY LeastElement
<1>2. m - 1 \in Nat /\ m - 1 \notin Nat \ S
  BY <1>1
<1>3. (m - 1) + 1 \in S
  BY <1>2
<1> QED BY <1>1, <1>3

\* A function by recursion: step[<<i, y>>] is the value that comes after y, at i.
Recurs(f, X, x, step) ==
  f \in [Nat -> X] /\ f[0] = x /\ \A i \in Nat : f[i + 1] = step[<<i, f[i]>>]

\* Such a function exists: the functions defined up to n agree below n.
LEMMA Recursion ==
  ASSUME NEW X, NEW x \in X, NEW step \in [Nat \X X -> X]
  PROVE  \E f : Recurs(f, X, x, step)
<1> DEFINE Upto(f, n) == f[0] = x /\ \A i \in Nat : i < n => f[i + 1] = step[<<i, f[i]>>]
<1> DEFINE S == {n \in Nat : \E f \in [Nat -> X] : Upto(f, n)}
<1>1. 0 \in S
  <2>1. [i \in Nat |-> x] \in [Nat -> X] /\ Upto([i \in Nat |-> x], 0)
    OBVIOUS
  <2> QED BY <2>1
<1>2. ASSUME NEW n \in S PROVE n + 1 \in S
  <2>1. PICK f \in [Nat -> X] : Upto(f, n)
    OBVIOUS
  <2> DEFINE g == [i \in Nat |-> IF i = n + 1 THEN step[<<n, f[n]>>] ELSE f[i]]
  <2>2. g \in [Nat -> X]
    OBVIOUS
  <2>3. Upto(g, n + 1)
    <3>1. g[0] = x
      BY <2>1
    <3>2. ASSUME NEW i \in Nat, i < n + 1 PROVE g[i + 1] = step[<<i, g[i]>>]
      <4>1. CASE i = n
        BY <4>1
      <4>2. CASE i < n
        BY <4>2, <2>1
      <4> QED BY <3>2, <4>1, <4>2
    <3> QED BY <3>1, <3>2
  <2> HIDE DEF g, Upto
  <2> QED BY <2>2, <2>3
<1>3. S = Nat
  <2> HIDE DEF S
  <2>1. S \in SUBSET Nat
    BY DEF S
  <2> QED BY <1>1, <1>2, <2>1, Induction
<1> DEFINE F(n) == CHOOSE f \in [Nat -> X] : Upto(f, n)
<1>4. \A n \in Nat : F(n) \in [Nat -> X] /\ Upto(F(n), n)
  BY <1>3
<1> HIDE DEF F
<1>5. ASSUME NEW f \in [Nat -> X], NEW g \in [Nat -> X], NEW n \in Nat, NEW k \in Nat,
             Upto(f, n), Upto(g, k)
      PROVE  \A i \in Nat : i <= n /\ i <= k => f[i] = g[i]
  <2> DEFINE A == {i \in Nat : i <= n /\ i <= k => f[i] = g[i]}
  <2>1. 0 \in A
    BY <1>5
  <2>2. ASSUME NEW i \in A PROVE i + 1 \in A
    <3> SUFFICES ASSUME i + 1 <= n, i + 1 <= k PROVE f[i + 1] = g[i + 1]
      OBVIOUS
    <3>1. f[i] = g[i]
      OBVIOUS
    <3>2. f[i + 1] = step[<<i, f[i]>>] /\ g[i + 1] = step[<<i, g[i]>>]
      BY <1>5
    <3> QED BY <3>1, <3>2
  <2>3. A = Nat
    <3> HIDE DEF A
    <3>1. A \in SUBSET Nat
      BY DEF A
    <3> QED BY <2>1, <2>2, <3>1, Induction
  <2> QED BY <2>3
<1> DEFINE h == [n \in Nat |-> F(n)[n]]
<1>6. h \in [Nat -> X]
  BY <1>4
<1>7. h[0] = x
  BY <1>4
<1>8. ASSUME NEW i \in Nat PROVE h[i + 1] = step[<<i, h[i]>>]
  <2>1. F(i + 1)[i + 1] = step[<<i, F(i + 1)[i]>>]
    BY <1>4
  <2>2. F(i + 1)[i] = F(i)[i]
    <3> HIDE DEF Upto
    <3> QED BY <1>4, <1>5
  <2> QED BY <2>1, <2>2
<1> QED BY <1>6, <1>7, <1>8 DEF Recurs

-----------------------------------------------------------------------------
(* FlattenSeq, one list more at a time.                                        *)

\* A chain of sequences, each longer than the last by an element of s.
Chain(f, s, n, S) ==
  /\ f \in [1..n -> Seq(S)]
  /\ f[1] = s[1]
  /\ \A i \in 1..n : i # 1 => f[i] = f[i - 1] \o s[i]

\* What FlattenSeq builds exists,
LEMMA ChainExists ==
  ASSUME NEW S, NEW n \in Nat \ {0}, NEW s \in [1..n -> Seq(S)]
  PROVE  \E f : Chain(f, s, n, S)
<1> DEFINE step ==
      [p \in Nat \X Seq(S) |-> IF p[1] + 2 <= n THEN p[2] \o s[p[1] + 2] ELSE p[2]]
<1>2. step \in [Nat \X Seq(S) -> Seq(S)]
  <2>1. ASSUME NEW p \in Nat \X Seq(S)
        PROVE  (IF p[1] + 2 <= n THEN p[2] \o s[p[1] + 2] ELSE p[2]) \in Seq(S)
    <3>1. p[2] \in Seq(S) /\ (p[1] + 2 <= n => s[p[1] + 2] \in Seq(S))
      OBVIOUS
    <3> QED BY <3>1
  <2> QED BY <2>1
<1>3. PICK h : Recurs(h, Seq(S), s[1], step)
  <2>1. s[1] \in Seq(S)
    OBVIOUS
  <2> QED BY <1>2, <2>1, Recursion
<1> DEFINE g == [i \in 1..n |-> h[i - 1]]
<1>4. ASSUME NEW i \in 1..n, i # 1 PROVE g[i] = g[i - 1] \o s[i]
  <2> DEFINE k == i - 2
  <2>1. /\ k \in Nat /\ k + 1 = i - 1 /\ (i - 1) - 1 = k /\ k + 2 = i
        /\ i - 1 \in 1..n
    BY <1>4
  <2> HIDE DEF k
  <2>2. h[k + 1] = step[<<k, h[k]>>]
    BY <2>1, <1>3 DEF Recurs
  <2>3. step[<<k, h[k]>>] = h[k] \o s[k + 2]
    <3>1. h[k] \in Seq(S) /\ k + 2 <= n
      BY <2>1, <1>3 DEF Recurs
    <3>2. <<k, h[k]>> \in Nat \X Seq(S)
      BY <2>1, <3>1
    <3> QED BY <3>1, <3>2
  <2>4. g[i] = h[i - 1] /\ g[i - 1] = h[(i - 1) - 1]
    BY <2>1
  <2> QED BY <2>1, <2>2, <2>3, <2>4
<1>5. g \in [1..n -> Seq(S)] /\ g[1] = s[1]
  BY <1>3 DEF Recurs
<1> HIDE DEF g
<1> QED BY <1>4, <1>5 DEF Chain

\* and it depends only on the elements so far.
LEMMA ChainUnique ==
  ASSUME NEW S, NEW n \in Nat, NEW m \in Nat, NEW s, NEW t, NEW f, NEW g,
         Chain(f, s, n, S), Chain(g, t, m, S), n <= m, \A i \in 1..n : s[i] = t[i]
  PROVE  \A i \in 1..n : f[i] = g[i]
<1> DEFINE Alike == {k \in Nat : k + 1 <= n => f[k + 1] = g[k + 1]}
<1>1. 0 \in Alike
  BY DEF Chain
<1>2. ASSUME NEW k \in Alike PROVE k + 1 \in Alike
  <2> SUFFICES ASSUME k + 2 <= n PROVE f[k + 2] = g[k + 2]
    OBVIOUS
  <2> DEFINE i == k + 2
  <2>1. i \in 1..n /\ i \in 1..m /\ i # 1 /\ i - 1 = k + 1
    OBVIOUS
  <2>2. f[i - 1] = g[i - 1]
    BY <2>1
  <2> HIDE DEF i
  <2>3. f[i] = f[i - 1] \o s[i] /\ g[i] = g[i - 1] \o t[i] /\ s[i] = t[i]
    BY <2>1 DEF Chain
  <2>4. f[i] = g[i]
    BY <2>2, <2>3
  <2> QED BY <2>4 DEF i
<1>3. Alike = Nat
  <2>1. Alike \in SUBSET Nat
    OBVIOUS
  <2> HIDE DEF Alike
  <2> QED BY <1>1, <1>2, <2>1, Induction
<1> QED
  <2> TAKE i \in 1..n
  <2>1. i - 1 \in Nat /\ (i - 1) + 1 = i /\ i <= n
    OBVIOUS
  <2>2. i - 1 \in Alike
    <3> HIDE DEF Alike
    <3> QED BY <1>3, <2>1
  <2> QED BY <2>1, <2>2

\* What FlattenSeq computes, an element at a time.
LEMMA Flattening ==
  ASSUME NEW S, NEW s \in Seq(Seq(S)), Len(s) > 0
  PROVE  \E f : Chain(f, s, Len(s), S) /\ f[Len(s)] = FlattenSeq(s)
<1> DEFINE n == Len(s)
<1> DEFINE Flattens(f) ==
      f = [i \in 1..n |-> IF i = 1 THEN s[i] ELSE f[i - 1] \o s[i]]
<1>1. n \in Nat \ {0} /\ s \in [1..n -> Seq(S)]
  OBVIOUS
<1> DEFINE flatten == CHOOSE f : Flattens(f)
<1>2. FlattenSeq(s) = flatten[n]
  BY DEF FlattenSeq
<1> HIDE DEF n
<1>3. PICK g : Chain(g, s, n, S)
  BY <1>1, ChainExists
<1>4. Flattens(g)
  <2>1. \A i \in 1..n : g[i] = IF i = 1 THEN s[i] ELSE g[i - 1] \o s[i]
    BY <1>3 DEF Chain
  <2>2. g = [i \in 1..n |-> g[i]]
    BY <1>3 DEF Chain
  <2> QED BY <2>1, <2>2
<1>5. Flattens(flatten)
  <2> HIDE DEF Flattens
  <2> QED BY <1>4
<1> HIDE DEF flatten
<1> DEFINE Typed == {k \in Nat : k + 1 <= n => flatten[k + 1] = g[k + 1]}
<1>6. \A i \in 1..n : flatten[i] = IF i = 1 THEN s[i] ELSE flatten[i - 1] \o s[i]
  BY <1>5
<1>7. Typed = Nat
  <2>1. 0 \in Typed
    BY <1>1, <1>3, <1>6 DEF Chain
  <2>2. ASSUME NEW k \in Typed PROVE k + 1 \in Typed
    <3> SUFFICES ASSUME k + 2 <= n PROVE flatten[k + 2] = g[k + 2]
      OBVIOUS
    <3> DEFINE i == k + 2
    <3>1. i \in 1..n /\ i # 1 /\ i - 1 = k + 1
      BY <1>1
    <3>2. flatten[i - 1] = g[i - 1]
      BY <3>1, <1>1
    <3> HIDE DEF i
    <3>3. flatten[i] = flatten[i - 1] \o s[i] /\ g[i] = g[i - 1] \o s[i]
      BY <3>1, <1>3, <1>6 DEF Chain
    <3>4. flatten[i] = g[i]
      BY <3>2, <3>3
    <3> QED BY <3>4 DEF i
  <2>3. Typed \in SUBSET Nat
    OBVIOUS
  <2> HIDE DEF Typed
  <2> QED BY <2>1, <2>2, <2>3, Induction
<1>8. flatten[n] = g[n]
  <2>1. n - 1 \in Nat /\ (n - 1) + 1 = n
    BY <1>1
  <2>2. n - 1 \in Typed
    <3> HIDE DEF Typed
    <3> QED BY <1>7, <2>1
  <2> QED BY <2>1, <2>2
<1> QED BY <1>2, <1>3, <1>8 DEF n

\* A list more is appended.
LEMMA FlattenAppend ==
  ASSUME NEW S, NEW s \in Seq(Seq(S)), NEW x \in Seq(S)
  PROVE  FlattenSeq(Append(s, x)) = FlattenSeq(s) \o x
<1> DEFINE t == Append(s, x)
<1> DEFINE n == Len(s)
<1>1. /\ t \in Seq(Seq(S)) /\ Len(t) = n + 1 /\ t[n + 1] = x
      /\ \A i \in 1..n : t[i] = s[i]
      /\ n \in Nat
  OBVIOUS
<1>2. CASE n = 0
  <2>1. s = <<>> /\ FlattenSeq(s) = <<>>
    BY <1>2 DEF FlattenSeq
  <2> HIDE DEF t, n
  <2>2. Len(t) = 1 /\ t[1] = x
    BY <1>1, <1>2
  <2>3. PICK g : Chain(g, t, Len(t), S) /\ g[Len(t)] = FlattenSeq(t)
    BY <1>1, <2>2, Flattening
  <2>4. FlattenSeq(t) = x
    BY <2>2, <2>3 DEF Chain
  <2> QED BY <2>1, <2>4 DEF t
<1>3. CASE n > 0
  <2> HIDE DEF t
  <2>1. PICK f : Chain(f, s, n, S) /\ f[n] = FlattenSeq(s)
    BY <1>3, Flattening
  <2> HIDE DEF n
  <2>2. PICK g : Chain(g, t, n + 1, S) /\ g[n + 1] = FlattenSeq(t)
    <3>1. Len(t) > 0 /\ t \in Seq(Seq(S))
      BY <1>1
    <3>2. \E g : Chain(g, t, Len(t), S) /\ g[Len(t)] = FlattenSeq(t)
      BY <3>1, Flattening
    <3> QED BY <1>1, <3>2
  <2>3. n + 1 \in Nat /\ n <= n + 1 /\ n \in 1..n /\ n + 1 \in 1..(n + 1) /\ n + 1 # 1
        /\ (n + 1) - 1 = n
    BY <1>1, <1>3
  <2>4. f[n] = g[n]
    <3> DEFINE m == n + 1
    <3>1. m \in Nat /\ n <= m /\ Chain(g, t, m, S)
      BY <2>2, <2>3
    <3> HIDE DEF m
    <3>2. \A i \in 1..n : f[i] = g[i]
      BY <1>1, <2>1, <3>1, ChainUnique
    <3> QED BY <2>3, <3>2
  <2>5. g[n + 1] = g[n] \o x
    BY <1>1, <2>2, <2>3 DEF Chain
  <2> QED BY <2>1, <2>2, <2>4, <2>5 DEF t
<1> QED BY <1>1, <1>2, <1>3

-----------------------------------------------------------------------------
(* The rules: what validate keeps, and what it counts.                         *)

\* The loop of validate leaves as many candidates as it accepts.
LEMMA GroundedKeeps ==
  ASSUME NEW S, NEW cs \in Seq(S), NEW t, NEW span
  PROVE  /\ Grounded(cs, t, span) \in Seq(S)
         /\ Len(Grounded(cs, t, span))
              = Cardinality({i \in 1..Len(cs) : Verdict(cs[i], t, span) = "kept"})
<1> DEFINE n == Len(cs)
<1> DEFINE V(i) == Verdict(cs[i], t, span) = "kept"
<1> DEFINE Keeps(f) ==
      f = [i \in 0..n |-> IF i = 0 THEN <<>> ELSE
                          IF V(i) THEN Append(f[i - 1], cs[i]) ELSE f[i - 1]]
<1> DEFINE kept == CHOOSE f : Keeps(f)
<1>1. Grounded(cs, t, span) = kept[n]
  BY DEF Grounded
<1>2. n \in Nat /\ \A i \in 1..n : cs[i] \in S
  OBVIOUS
<1> HIDE DEF n, V
<1> DEFINE step ==
      [p \in Nat \X Seq(S) |->
         IF p[1] + 1 <= n /\ V(p[1] + 1) THEN Append(p[2], cs[p[1] + 1]) ELSE p[2]]
<1>3. step \in [Nat \X Seq(S) -> Seq(S)]
  <2>1. ASSUME NEW p \in Nat \X Seq(S)
        PROVE  (IF p[1] + 1 <= n /\ V(p[1] + 1) THEN Append(p[2], cs[p[1] + 1]) ELSE p[2])
                 \in Seq(S)
    <3>1. p[1] \in Nat /\ p[2] \in Seq(S)
      OBVIOUS
    <3>2. p[1] + 1 <= n => cs[p[1] + 1] \in S
      BY <1>2, <3>1
    <3> QED BY <3>1, <3>2
  <2> QED BY <2>1
<1>4. PICK h : Recurs(h, Seq(S), <<>>, step)
  <2>1. <<>> \in Seq(S)
    OBVIOUS
  <2> HIDE DEF step
  <2> QED BY <1>3, <2>1, Recursion
<1> DEFINE g == [i \in 0..n |-> h[i]]
<1>5. ASSUME NEW i \in 0..n
      PROVE  g[i] = IF i = 0 THEN <<>> ELSE
                    IF V(i) THEN Append(g[i - 1], cs[i]) ELSE g[i - 1]
  <2>1. CASE i = 0
    BY <1>2, <1>4, <2>1 DEF Recurs
  <2>2. CASE i # 0
    <3> DEFINE k == i - 1
    <3>1. k \in Nat /\ k + 1 = i /\ k \in 0..n /\ k + 1 <= n
      BY <1>2, <2>2
    <3> HIDE DEF k
    <3>2. h[k + 1] = step[<<k, h[k]>>] /\ h[k] \in Seq(S)
      BY <1>4, <3>1 DEF Recurs
    <3>3. <<k, h[k]>> \in Nat \X Seq(S)
      BY <3>1, <3>2
    <3>4. step[<<k, h[k]>>] = IF V(k + 1) THEN Append(h[k], cs[k + 1]) ELSE h[k]
      BY <3>1, <3>3
    <3>5. g[i] = h[k + 1] /\ g[k] = h[k]
      BY <3>1
    <3> HIDE DEF g, step
    <3> QED BY <2>2, <3>1, <3>2, <3>4, <3>5 DEF k
  <2> QED BY <2>1, <2>2
<1>6. Keeps(g)
  BY <1>5
<1>7. Keeps(kept)
  <2> HIDE DEF Keeps, g
  <2> QED BY <1>6
<1> HIDE DEF kept
<1>8. \A i \in 0..n : kept[i] = IF i = 0 THEN <<>> ELSE
                      IF V(i) THEN Append(kept[i - 1], cs[i]) ELSE kept[i - 1]
  BY <1>7
<1> DEFINE Passed(k) == {i \in 1..k : V(i)}
<1>9. \A k \in Nat : IsFiniteSet(Passed(k))
  <2> TAKE k \in Nat
  <2>1. IsFiniteSet(1..k) /\ Passed(k) \in SUBSET (1..k)
    BY FS_Interval
  <2> QED BY <2>1, FS_Subset
<1> DEFINE Right ==
      {k \in Nat : k <= n => kept[k] \in Seq(S) /\ Len(kept[k]) = Cardinality(Passed(k))}
<1>10. 0 \in Right
  <2>1. Cardinality(Passed(0)) = 0
    <3>1. Passed(0) = {}
      OBVIOUS
    <3> QED BY <3>1, FS_EmptySet
  <2>2. kept[0] = <<>>
    BY <1>2, <1>8
  <2>3. kept[0] \in Seq(S) /\ Len(kept[0]) = 0
    BY <2>2, EmptySeq
  <2> HIDE DEF Passed
  <2>4. 0 \in Nat
    OBVIOUS
  <2> QED BY <2>1, <2>3, <2>4
<1>11. ASSUME NEW k \in Right PROVE k + 1 \in Right
  <2> SUFFICES ASSUME k + 1 <= n
               PROVE  /\ kept[k + 1] \in Seq(S)
                      /\ Len(kept[k + 1]) = Cardinality(Passed(k + 1))
    OBVIOUS
  <2> DEFINE i == k + 1
  <2>1. i \in 1..n /\ i \in 0..n /\ i # 0 /\ i - 1 = k /\ i \notin 1..k /\ 1..i = (1..k) \cup {i}
    BY <1>2
  <2>2. kept[k] \in Seq(S) /\ Len(kept[k]) = Cardinality(Passed(k))
    <3> HIDE DEF Passed
    <3> QED BY <1>2
  <2>3. Passed(i) = IF V(i) THEN Passed(k) \cup {i} ELSE Passed(k)
    BY <2>1
  <2>4. i \notin Passed(k) /\ IsFiniteSet(Passed(k))
    BY <2>1, <1>9
  <2> HIDE DEF i, Passed
  <2>5. kept[i] = IF V(i) THEN Append(kept[k], cs[i]) ELSE kept[k]
    BY <1>8, <2>1
  <2>6. cs[i] \in S
    BY <1>2, <2>1
  <2>7. kept[i] \in Seq(S) /\ Len(kept[i]) = Cardinality(Passed(i))
    <3>1. CASE V(i)
      <4>1. Cardinality(Passed(i)) = Cardinality(Passed(k)) + 1
        BY <2>3, <2>4, <3>1, FS_AddElement
      <4> QED BY <2>2, <2>5, <2>6, <3>1, <4>1
    <3>2. CASE ~V(i)
      BY <2>2, <2>3, <2>5, <3>2
    <3> QED BY <3>1, <3>2
  <2> QED BY <2>7 DEF i
<1>12. n \in Right
  <2>1. Right \in SUBSET Nat
    OBVIOUS
  <2> HIDE DEF Right
  <2> QED BY <1>2, <1>10, <1>11, <2>1, Induction
<1> QED BY <1>1, <1>2, <1>12 DEF n, V

\* A verdict is the name of a rule, or "kept": of the rules broken one is first.
LEMMA VerdictTyped ==
  ASSUME NEW c, NEW t, NEW span
  PROVE  Verdict(c, t, span) \in
           {"timecode_out_of_range", "timecode_inverted", "quote_too_short",
            "quote_not_in_transcript", "quote_not_at_timecode", "span_too_long", "kept"}
<1> DEFINE broken == {i \in DOMAIN Rules : Breaks(c, Rules[i], t, span)}
<1>1. DOMAIN Rules = 1..6
  BY DEF Rules
<1>2. CASE broken = {}
  BY <1>2 DEF Verdict
<1>3. CASE broken # {}
  <2>1. broken \in SUBSET Nat /\ broken \subseteq 1..6
    BY <1>1
  <2>2. \E i \in broken : \A j \in broken : i <= j
    <3> HIDE DEF broken
    <3> QED BY <1>3, <2>1, LeastElement
  <2> DEFINE first == CHOOSE i \in broken : \A j \in broken : i <= j
  <2>3. first \in broken
    <3> HIDE DEF broken
    <3> QED BY <2>2
  <2>4. Verdict(c, t, span) = Rules[first]
    BY <1>3 DEF Verdict
  <2> HIDE DEF first, broken
  <2>5. first \in 1..6
    BY <2>1, <2>3
  <2> QED BY <2>4, <2>5 DEF Rules
<1> QED BY <1>2, <1>3

With(A, v, r) == {i \in A : v[i] = r}
Without(A, v, r) == {i \in A : v[i] # r}

\* A finite set is divided by any value of v.
LEMMA Split ==
  ASSUME NEW A, IsFiniteSet(A), NEW v, NEW r
  PROVE  /\ IsFiniteSet(With(A, v, r)) /\ IsFiniteSet(Without(A, v, r))
         /\ Cardinality(A) = Cardinality(With(A, v, r)) + Cardinality(Without(A, v, r))
         /\ Cardinality(With(A, v, r)) \in Nat /\ Cardinality(Without(A, v, r)) \in Nat
<1> DEFINE B == With(A, v, r)
<1> DEFINE C == Without(A, v, r)
<1>1. B \in SUBSET A /\ C \in SUBSET A /\ B \cup C = A /\ B \cap C = {}
  BY DEF With, Without
<1> HIDE DEF B, C
<1>2. IsFiniteSet(B) /\ IsFiniteSet(C)
  BY <1>1, FS_Subset
<1>3. Cardinality(B \cup C) = Cardinality(B) + Cardinality(C) - Cardinality(B \cap C)
  BY <1>2, FS_Union
<1>4. Cardinality(B \cap C) = 0
  BY <1>1, FS_EmptySet
<1>5. Cardinality(B) \in Nat /\ Cardinality(C) \in Nat
  BY <1>2, FS_CardinalityType
<1>6. Cardinality(A) = Cardinality(B) + Cardinality(C)
  BY <1>1, <1>3, <1>4, <1>5
<1> QED BY <1>2, <1>5, <1>6 DEF B, C

\* The candidates of a rule, when each has its verdict.
HowMany(cs, t, span, r) == Cardinality({i \in DOMAIN cs : Verdict(cs[i], t, span) = r})

\* Every candidate has one verdict.
LEMMA VerdictsAddUp ==
  ASSUME NEW S, NEW cs \in Seq(S), NEW t, NEW span
  PROVE  /\ Len(cs) = HowMany(cs, t, span, "timecode_out_of_range")
                        + HowMany(cs, t, span, "timecode_inverted")
                        + HowMany(cs, t, span, "quote_too_short")
                        + HowMany(cs, t, span, "quote_not_in_transcript")
                        + HowMany(cs, t, span, "quote_not_at_timecode")
                        + HowMany(cs, t, span, "span_too_long")
                        + HowMany(cs, t, span, "kept")
         /\ \A r : HowMany(cs, t, span, r) \in Nat
<1> DEFINE D == 1..Len(cs)
<1> DEFINE v == [i \in D |-> Verdict(cs[i], t, span)]
<1>1. DOMAIN cs = D /\ IsFiniteSet(D) /\ Cardinality(D) = Len(cs)
  <2>1. Len(cs) \in Nat /\ DOMAIN cs = D
    OBVIOUS
  <2>2. 1 \in Int /\ Len(cs) \in Int
    BY <2>1
  <2>3. IsFiniteSet(D) /\ Cardinality(D) = IF 1 > Len(cs) THEN 0 ELSE Len(cs) - 1 + 1
    BY <2>2, FS_Interval
  <2> QED BY <2>1, <2>3
<1>2. \A i \in D : v[i] = Verdict(cs[i], t, span)
  OBVIOUS
<1>3. \A i \in D : v[i] \in
        {"timecode_out_of_range", "timecode_inverted", "quote_too_short",
         "quote_not_in_transcript", "quote_not_at_timecode", "span_too_long", "kept"}
  BY VerdictTyped
<1> HIDE DEF v, D
<1> DEFINE A1 == Without(D, v, "timecode_out_of_range")
<1> DEFINE A2 == Without(A1, v, "timecode_inverted")
<1> DEFINE A3 == Without(A2, v, "quote_too_short")
<1> DEFINE A4 == Without(A3, v, "quote_not_in_transcript")
<1> DEFINE A5 == Without(A4, v, "quote_not_at_timecode")
<1> DEFINE A6 == Without(A5, v, "span_too_long")
<1>4. /\ With(A1, v, "timecode_inverted") = With(D, v, "timecode_inverted")
      /\ With(A2, v, "quote_too_short") = With(D, v, "quote_too_short")
      /\ With(A3, v, "quote_not_in_transcript") = With(D, v, "quote_not_in_transcript")
      /\ With(A4, v, "quote_not_at_timecode") = With(D, v, "quote_not_at_timecode")
      /\ With(A5, v, "span_too_long") = With(D, v, "span_too_long")
  BY DEF With, Without
<1>5. A6 = With(D, v, "kept")
  BY <1>3 DEF With, Without
<1> HIDE DEF A1, A2, A3, A4, A5, A6
<1>6. /\ IsFiniteSet(A1) /\ Cardinality(A1) \in Nat
      /\ Cardinality(D) = Cardinality(With(D, v, "timecode_out_of_range"))
                            + Cardinality(A1)
  BY <1>1, Split DEF A1
<1>7. /\ IsFiniteSet(A2) /\ Cardinality(A2) \in Nat
      /\ Cardinality(A1) = Cardinality(With(D, v, "timecode_inverted")) + Cardinality(A2)
  BY <1>6, <1>4, Split DEF A2
<1>8. /\ IsFiniteSet(A3) /\ Cardinality(A3) \in Nat
      /\ Cardinality(A2) = Cardinality(With(D, v, "quote_too_short")) + Cardinality(A3)
  BY <1>7, <1>4, Split DEF A3
<1>9. /\ IsFiniteSet(A4) /\ Cardinality(A4) \in Nat
      /\ Cardinality(A3) = Cardinality(With(D, v, "quote_not_in_transcript"))
                             + Cardinality(A4)
  BY <1>8, <1>4, Split DEF A4
<1>10. /\ IsFiniteSet(A5) /\ Cardinality(A5) \in Nat
       /\ Cardinality(A4) = Cardinality(With(D, v, "quote_not_at_timecode"))
                              + Cardinality(A5)
  BY <1>9, <1>4, Split DEF A5
<1>11. Cardinality(A5) = Cardinality(With(D, v, "span_too_long")) + Cardinality(A6)
  BY <1>10, <1>4, Split DEF A6
<1>12. \A r : Cardinality(With(D, v, r)) \in Nat
  BY <1>1, Split
<1>13. \A r : HowMany(cs, t, span, r) = Cardinality(With(D, v, r))
  <2> TAKE r
  <2>1. {i \in DOMAIN cs : Verdict(cs[i], t, span) = r} = With(D, v, r)
    BY <1>1, <1>2 DEF With
  <2> QED BY <2>1 DEF HowMany
<1> DEFINE N(r) == Cardinality(With(D, v, r))
<1>14. /\ N("timecode_out_of_range") \in Nat /\ N("timecode_inverted") \in Nat
       /\ N("quote_too_short") \in Nat /\ N("quote_not_in_transcript") \in Nat
       /\ N("quote_not_at_timecode") \in Nat /\ N("span_too_long") \in Nat
       /\ N("kept") \in Nat
  BY <1>12
<1>15. /\ Len(cs) = N("timecode_out_of_range") + Cardinality(A1)
       /\ Cardinality(A1) = N("timecode_inverted") + Cardinality(A2)
       /\ Cardinality(A2) = N("quote_too_short") + Cardinality(A3)
       /\ Cardinality(A3) = N("quote_not_in_transcript") + Cardinality(A4)
       /\ Cardinality(A4) = N("quote_not_at_timecode") + Cardinality(A5)
       /\ Cardinality(A5) = N("span_too_long") + N("kept")
  BY <1>1, <1>5, <1>6, <1>7, <1>8, <1>9, <1>10, <1>11
<1> HIDE DEF N
<1>16. Len(cs) = N("timecode_out_of_range") + N("timecode_inverted")
                   + N("quote_too_short") + N("quote_not_in_transcript")
                   + N("quote_not_at_timecode") + N("span_too_long") + N("kept")
  <2> DEFINE d == N("quote_not_in_transcript")
  <2> DEFINE e == N("quote_not_at_timecode")
  <2> DEFINE f == N("span_too_long")
  <2> DEFINE k == N("kept")
  <2> DEFINE end == f + k
  <2>1. Cardinality(A5) = end /\ end \in Nat /\ d \in Nat /\ e \in Nat
    BY <1>14, <1>15
  <2>2. d + e + end = d + e + f + k
    BY <1>14
  <2> HIDE DEF end, d, e
  <2>3. Cardinality(A3) = d + e + end /\ d + e + end \in Nat
    BY <1>15, <2>1 DEF d, e
  <2> DEFINE last == d + e + end
  <2>4. Cardinality(A3) = last /\ last \in Nat
    BY <2>3
  <2>5. Len(cs) = N("timecode_out_of_range") + N("timecode_inverted")
                    + N("quote_too_short") + last
    <3> HIDE DEF last
    <3> QED BY <1>14, <1>15, <2>4
  <2> QED BY <2>2, <2>5, <1>14 DEF d, e
<1>17. \A r : HowMany(cs, t, span, r) = N(r)
  BY <1>13 DEF N
<1>18. \A r : N(r) \in Nat
  BY <1>12 DEF N
<1> QED BY <1>16, <1>17, <1>18

\* The candidates that do not come after i when sorted.
Ahead(cs, i) ==
  {j \in DOMAIN cs : \/ cs[j].confidence > cs[i].confidence
                     \/ cs[j].confidence = cs[i].confidence /\ j <= i}

Before(cs, i, j) ==
  \/ cs[i].confidence > cs[j].confidence
  \/ cs[i].confidence = cs[j].confidence /\ i < j

\* A rank is a place, and places are in the order of Before, which is total.
LEMMA RankFollows ==
  ASSUME NEW cs \in Seq(Candidates), NEW i \in 1..Len(cs), NEW j \in 1..Len(cs)
  PROVE  /\ Rank(cs, i) \in 1..Len(cs)
         /\ Before(cs, i, j) => Rank(cs, i) < Rank(cs, j)
         /\ i # j => Before(cs, i, j) \/ Before(cs, j, i)
<1> DEFINE n == Len(cs)
<1>1. n \in Nat /\ DOMAIN cs = 1..n /\ \A k \in 1..n : cs[k].confidence \in Nat
  <2>1. \A k \in 1..n : cs[k] \in Candidates
    BY ElementOfSeq
  <2>2. \A c \in Candidates : c.confidence \in Nat
    BY DEF Candidates
  <2> QED BY <2>1, <2>2, LenProperties
<1>2. \A k \in 1..n : Rank(cs, k) = Cardinality(Ahead(cs, k))
  BY DEF Rank, Ahead
<1>3. IsFiniteSet(1..n) /\ Cardinality(1..n) = n
  BY <1>1, FS_Interval
<1> HIDE DEF n
<1>4. ASSUME NEW k \in 1..n
      PROVE  /\ k \in Ahead(cs, k) /\ IsFiniteSet(Ahead(cs, k))
             /\ Cardinality(Ahead(cs, k)) \in 1..n
  <2>1. k \in Ahead(cs, k) /\ Ahead(cs, k) \in SUBSET (1..n)
    BY <1>1 DEF Ahead
  <2>2. IsFiniteSet(Ahead(cs, k)) /\ Cardinality(Ahead(cs, k)) <= n
    BY <1>3, <2>1, FS_Subset
  <2>3. Cardinality(Ahead(cs, k)) \in Nat /\ Cardinality(Ahead(cs, k)) # 0
    BY <2>1, <2>2, FS_EmptySet, FS_CardinalityType
  <2> QED BY <1>1, <2>1, <2>2, <2>3
<1>5. ASSUME Before(cs, i, j) PROVE Cardinality(Ahead(cs, i)) < Cardinality(Ahead(cs, j))
  <2>1. Ahead(cs, i) \in SUBSET Ahead(cs, j)
    BY <1>1, <1>5 DEF Ahead, Before, n
  <2>2. j \notin Ahead(cs, i)
    BY <1>1, <1>5 DEF Ahead, Before, n
  <2>3. j \in Ahead(cs, j) /\ IsFiniteSet(Ahead(cs, j))
    BY <1>4 DEF n
  <2>4. /\ Cardinality(Ahead(cs, i)) <= Cardinality(Ahead(cs, j))
        /\ Cardinality(Ahead(cs, i)) # Cardinality(Ahead(cs, j))
    BY <2>1, <2>2, <2>3, FS_Subset
  <2>5. Cardinality(Ahead(cs, i)) \in Nat /\ Cardinality(Ahead(cs, j)) \in Nat
    BY <1>4 DEF n
  <2> QED BY <2>4, <2>5
<1>6. i # j => Before(cs, i, j) \/ Before(cs, j, i)
  BY <1>1 DEF Before, n
<1> QED BY <1>2, <1>4, <1>5, <1>6 DEF n

\* Sorting places every candidate, a surer one never after a less sure one.
LEMMA SortedPlaces ==
  ASSUME NEW cs \in Seq(Candidates)
  PROVE  /\ Sorted(cs) \in Seq(Candidates) /\ Len(Sorted(cs)) = Len(cs)
         /\ \A i \in 1..Len(cs) :
              Rank(cs, i) \in 1..Len(cs) /\ Sorted(cs)[Rank(cs, i)] = cs[i]
         /\ \A k, m \in 1..Len(cs) :
              k < m => Sorted(cs)[k].confidence >= Sorted(cs)[m].confidence
<1> DEFINE n == Len(cs)
<1>1. n \in Nat /\ DOMAIN cs = 1..n
      /\ \A i \in 1..n : cs[i] \in Candidates /\ cs[i].confidence \in Nat
  <2>1. \A k \in 1..n : cs[k] \in Candidates
    BY ElementOfSeq
  <2>2. \A c \in Candidates : c.confidence \in Nat
    BY DEF Candidates
  <2> QED BY <2>1, <2>2, LenProperties
<1> DEFINE rank == [i \in 1..n |-> Rank(cs, i)]
<1>2. \A i, j \in 1..n :
        /\ rank[i] \in 1..n
        /\ Before(cs, i, j) => rank[i] < rank[j]
        /\ i # j => Before(cs, i, j) \/ Before(cs, j, i)
  BY RankFollows
<1>3. \A i \in 1..n : Rank(cs, i) = rank[i]
  OBVIOUS
<1> DEFINE from(k) == CHOOSE i \in DOMAIN cs : Rank(cs, i) = k
<1>4. Sorted(cs) = [k \in DOMAIN cs |-> cs[from(k)]]
  BY DEF Sorted
<1>5. rank \in [1..n -> 1..n]
  BY <1>2
<1> HIDE DEF n, rank
<1>6. \A i, j \in 1..n : rank[i] = rank[j] => i = j
  BY <1>1, <1>2
<1>7. rank \in Injection(1..n, 1..n)
  BY <1>5, <1>6 DEF Injection, IsInjective
<1>8. rank \in Surjection(1..n, 1..n)
  <2>1. IsFiniteSet(1..n)
    BY <1>1, FS_Interval
  <2> QED BY <1>7, <2>1, FS_Injection
<1>9. \A k \in 1..n : \E i \in 1..n : rank[i] = k
  BY <1>8 DEF Surjection
<1>10. ASSUME NEW k \in 1..n PROVE from(k) \in 1..n /\ rank[from(k)] = k
  <2>1. \E i \in DOMAIN cs : Rank(cs, i) = k
    BY <1>1, <1>3, <1>9
  <2>2. from(k) \in DOMAIN cs /\ Rank(cs, from(k)) = k
    BY <2>1
  <2> QED BY <1>1, <1>3, <2>2
<1> HIDE DEF from
<1>11. \A k \in 1..n : Sorted(cs)[k] = cs[from(k)]
  BY <1>1, <1>4
<1>12. Sorted(cs) \in Seq(Candidates) /\ Len(Sorted(cs)) = n
  <2>1. Sorted(cs) \in [1..n -> Candidates]
    <3>1. DOMAIN Sorted(cs) = 1..n /\ Sorted(cs) = [k \in 1..n |-> Sorted(cs)[k]]
      BY <1>1, <1>4
    <3> QED BY <1>1, <1>10, <1>11, <3>1
  <2> QED BY <1>1, <2>1
<1>13. ASSUME NEW i \in 1..n PROVE rank[i] \in 1..n /\ Sorted(cs)[rank[i]] = cs[i]
  <2>1. rank[i] \in 1..n
    BY <1>5
  <2>2. from(rank[i]) = i
    BY <1>6, <1>10, <2>1
  <2> QED BY <1>11, <2>1, <2>2
<1>14. ASSUME NEW k \in 1..n, NEW m \in 1..n, k < m
       PROVE  Sorted(cs)[k].confidence >= Sorted(cs)[m].confidence
  <2>1. from(k) \in 1..n /\ from(m) \in 1..n /\ rank[from(k)] = k /\ rank[from(m)] = m
    BY <1>10
  <2>2. from(k) # from(m)
    BY <1>14, <2>1
  <2>3. Before(cs, from(k), from(m))
    BY <1>1, <1>2, <1>14, <2>1, <2>2
  <2>4. cs[from(k)].confidence >= cs[from(m)].confidence
    BY <1>1, <2>1, <2>3 DEF Before
  <2> QED BY <1>11, <2>4
<1> QED BY <1>3, <1>12, <1>13, <1>14 DEF n

-----------------------------------------------------------------------------
(* What is cut and what is counted.                                            *)

\* The cap divides what the rules left.
LEMMA CapDivides ==
  ASSUME NEW valids \in Seq(Candidates), NEW max \in Nat
  PROVE  /\ Kept(valids, max) \in Seq(Candidates)
         /\ Len(Kept(valids, max)) = Most(max, Len(valids))
         /\ Len(Kept(valids, max)) \in Nat /\ Len(OverCap(valids, max)) \in Nat
         /\ Len(Kept(valids, max)) + Len(OverCap(valids, max)) = Len(valids)
         /\ \A k \in 1..Len(Kept(valids, max)) : Kept(valids, max)[k] = Sorted(valids)[k]
<1> DEFINE s == Sorted(valids)
<1> DEFINE n == Len(valids)
<1>1. s \in Seq(Candidates) /\ Len(s) = n /\ n \in Nat
  BY SortedPlaces
<1>2. \A k \in 1..n : s[k] \in Candidates
  BY <1>1
<1> HIDE DEF s, n
<1> DEFINE m == Most(max, n)
<1>3. m \in Nat /\ m <= n /\ m = IF n < max THEN n ELSE max
  BY <1>1 DEF Most
<1> HIDE DEF m
<1>4. /\ SubSeq(s, 1, m) \in Seq(Candidates) /\ Len(SubSeq(s, 1, m)) = m
      /\ \A k \in 1..m : SubSeq(s, 1, m)[k] = s[k]
  BY <1>1, <1>2, <1>3
<1>5. Len(SubSeq(s, max + 1, n)) = IF max + 1 <= n THEN n - (max + 1) + 1 ELSE 0
  BY <1>1, <1>2, SubSeqProperties
<1>6. Kept(valids, max) = SubSeq(s, 1, m) /\ OverCap(valids, max) = SubSeq(s, max + 1, n)
  BY DEF Kept, OverCap, s, n, m
<1>7. Len(SubSeq(s, 1, m)) + Len(SubSeq(s, max + 1, n)) = n
      /\ Len(SubSeq(s, max + 1, n)) \in Nat
  BY <1>1, <1>3, <1>4, <1>5
<1> QED BY <1>3, <1>4, <1>6, <1>7 DEF n, m, s

Counters(r) ==
  /\ r.timecode_out_of_range \in Nat /\ r.timecode_inverted \in Nat
  /\ r.quote_too_short \in Nat /\ r.quote_not_in_transcript \in Nat
  /\ r.quote_not_at_timecode \in Nat /\ r.span_too_long \in Nat /\ r.over_cap \in Nat

\* Counters add up by name.
LEMMA TotalsAdd ==
  ASSUME NEW both, NEW r, NEW c, Counters(r), Counters(c),
         both.timecode_out_of_range = r.timecode_out_of_range + c.timecode_out_of_range,
         both.timecode_inverted = r.timecode_inverted + c.timecode_inverted,
         both.quote_too_short = r.quote_too_short + c.quote_too_short,
         both.quote_not_in_transcript = r.quote_not_in_transcript + c.quote_not_in_transcript,
         both.quote_not_at_timecode = r.quote_not_at_timecode + c.quote_not_at_timecode,
         both.span_too_long = r.span_too_long + c.span_too_long,
         both.over_cap = r.over_cap + c.over_cap
  PROVE  Total(both) = Total(r) + Total(c) /\ Total(r) \in Nat /\ Total(c) \in Nat
  BY DEF Counters, Total

\* The seven names, spelled out.
LEMMA NamesOfRules ==
  RuleNames = {"timecode_out_of_range", "timecode_inverted", "quote_too_short",
               "quote_not_in_transcript", "quote_not_at_timecode", "span_too_long",
               "over_cap"}
<1>1. DOMAIN Rules = 1..6
  BY DEF Rules
<1>2. {Rules[i] : i \in 1..6} =
        {"timecode_out_of_range", "timecode_inverted", "quote_too_short",
         "quote_not_in_transcript", "quote_not_at_timecode", "span_too_long"}
  BY DEF Rules
<1> QED BY <1>1, <1>2 DEF RuleNames

\* Of one list: each candidate is kept or counted once.
LEMMA ListAccounted ==
  ASSUME NEW cs \in Seq(Candidates), NEW t, NEW span, NEW max \in Nat
  PROVE  LET valids == Grounded(cs, t, span)
             r == Rejected(cs, valids, t, max, span)
         IN  /\ valids \in Seq(Candidates)
             /\ Counters(r) /\ Len(Kept(valids, max)) \in Nat
             /\ Len(cs) = Len(Kept(valids, max)) + Total(r)
<1> DEFINE valids == Grounded(cs, t, span)
<1> DEFINE r == Rejected(cs, valids, t, max, span)
<1>1. valids \in Seq(Candidates) /\ Len(valids) = HowMany(cs, t, span, "kept")
  <2>1. DOMAIN cs = 1..Len(cs)
    OBVIOUS
  <2> QED BY <2>1, GroundedKeeps DEF HowMany
<1> HIDE DEF valids
<1> DEFINE kept == Len(Kept(valids, max))
<1> DEFINE over == Len(OverCap(valids, max))
<1>2. kept \in Nat /\ over \in Nat /\ kept + over = HowMany(cs, t, span, "kept")
  BY <1>1, CapDivides
<1>3. /\ r.timecode_out_of_range = HowMany(cs, t, span, "timecode_out_of_range")
      /\ r.timecode_inverted = HowMany(cs, t, span, "timecode_inverted")
      /\ r.quote_too_short = HowMany(cs, t, span, "quote_too_short")
      /\ r.quote_not_in_transcript = HowMany(cs, t, span, "quote_not_in_transcript")
      /\ r.quote_not_at_timecode = HowMany(cs, t, span, "quote_not_at_timecode")
      /\ r.span_too_long = HowMany(cs, t, span, "span_too_long")
      /\ r.over_cap = over
  BY NamesOfRules DEF Rejected, HowMany
<1> HIDE DEF r, kept, over
<1>4. Counters(r)
  BY <1>2, <1>3, VerdictsAddUp DEF Counters
<1>5. Len(cs) = r.timecode_out_of_range + r.timecode_inverted + r.quote_too_short
                  + r.quote_not_in_transcript + r.quote_not_at_timecode
                  + r.span_too_long + (kept + over)
  BY <1>2, <1>3, VerdictsAddUp
<1>6. Len(cs) = kept + Total(r)
  BY <1>2, <1>3, <1>4, <1>5 DEF Total, Counters
<1> QED BY <1>1, <1>2, <1>4, <1>6 DEF valids, r, kept

Item(from, x) == [source |-> from, item |-> x]

\* The two fields of an item.
LEMMA ItemFields ==
  ASSUME NEW from, NEW x
  PROVE  Item(from, x).source = from /\ Item(from, x).item = x
  BY DEF Item

\* merge keeps the order of what it is given.
LEMMA ProposedInOrder ==
  ASSUME NEW X, NEW s \in Seq(X), NEW from
  PROVE  /\ Proposed(from, s) \in Seq([source : {from}, item : X])
         /\ Len(Proposed(from, s)) = Len(s)
         /\ \A i \in 1..Len(s) : Proposed(from, s)[i] = Item(from, s[i])
<1> DEFINE n == Len(s)
<1>1. n \in Nat /\ DOMAIN s = 1..n /\ \A i \in 1..n : s[i] \in X
  OBVIOUS
<1>2. Proposed(from, s) = [i \in 1..n |-> [source |-> from, item |-> s[i]]]
  BY <1>1 DEF Proposed
<1> HIDE DEF n
<1>3. Proposed(from, s) \in [1..n -> [source : {from}, item : X]]
  BY <1>1, <1>2
<1>4. \A i \in 1..n : Proposed(from, s)[i] = Item(from, s[i])
  BY <1>2 DEF Item
<1>5. Proposed(from, s) \in Seq([source : {from}, item : X])
  <2> DEFINE Y == [source : {from}, item : X]
  <2> DEFINE q == Proposed(from, s)
  <2>1. q \in [1..n -> Y]
    BY <1>3
  <2> HIDE DEF q, Y
  <2>2. q \in Seq(Y)
    BY <1>1, <2>1
  <2> QED BY <2>2 DEF q, Y
<1>6. Len(Proposed(from, s)) = n
  BY <1>1, <1>3, <1>5, LenProperties
<1> QED BY <1>4, <1>5, <1>6 DEF n

\* Of the items: the flags, then what is kept of the model's.
LEMMA ItemsInOrder ==
  ASSUME NEW fs \in Seq(Flags), NEW valids \in Seq(Candidates), NEW cap \in Nat
  PROVE  LET items == Merge(fs, valids, cap)
             left == Kept(valids, CapLeft(cap, fs))
         IN  /\ CapLeft(cap, fs) \in Nat
             /\ Len(items) = Len(fs) + Len(left) /\ DOMAIN items = 1..Len(items)
             /\ SubSeq(items, 1, Len(fs)) = Proposed("human", fs)
             /\ \A i \in 1..Len(fs) : items[i] = Item("human", fs[i])
             /\ \A i \in 1..Len(left) :
                  items[Len(fs) + i] = Item("model", left[i])
<1> DEFINE left == Kept(valids, CapLeft(cap, fs))
<1> DEFINE S == [source : {"human", "model"}, item : Flags \cup Candidates]
<1>1. CapLeft(cap, fs) \in Nat
  BY DEF CapLeft
<1>2. left \in Seq(Candidates)
  BY <1>1, CapDivides
<1> HIDE DEF left
<1> DEFINE a == Proposed("human", fs)
<1> DEFINE b == Proposed("model", left)
<1>3. /\ a \in Seq(S) /\ Len(a) = Len(fs)
      /\ \A i \in 1..Len(fs) : a[i] = Item("human", fs[i])
  <2>1. a \in Seq([source : {"human"}, item : Flags])
    BY ProposedInOrder
  <2>2. [source : {"human"}, item : Flags] \subseteq S
    OBVIOUS
  <2>3. a \in Seq(S)
    <3> HIDE DEF a, S
    <3> QED BY <2>1, <2>2, SeqMonotonic
  <2>4. /\ Len(a) = Len(fs)
        /\ \A i \in 1..Len(fs) : a[i] = Item("human", fs[i])
    BY ProposedInOrder
  <2> HIDE DEF a
  <2> QED BY <2>3, <2>4
<1>4. /\ b \in Seq(S) /\ Len(b) = Len(left)
      /\ \A i \in 1..Len(left) : b[i] = Item("model", left[i])
  <2>1. b \in Seq([source : {"model"}, item : Candidates])
    BY <1>2, ProposedInOrder
  <2>2. [source : {"model"}, item : Candidates] \subseteq S
    OBVIOUS
  <2>3. b \in Seq(S)
    <3> HIDE DEF b, S
    <3> QED BY <2>1, <2>2, SeqMonotonic
  <2>4. /\ Len(b) = Len(left)
        /\ \A i \in 1..Len(left) : b[i] = Item("model", left[i])
    BY <1>2, ProposedInOrder
  <2> HIDE DEF b
  <2> QED BY <2>3, <2>4
<1>5. Merge(fs, valids, cap) = a \o b
  BY DEF Merge, left
<1> HIDE DEF a, b, S
<1>6. /\ a \o b \in Seq(S) /\ Len(a \o b) = Len(a) + Len(b)
      /\ \A i \in 1..Len(a) + Len(b) :
           (a \o b)[i] = IF i <= Len(a) THEN a[i] ELSE b[i - Len(a)]
  <2>1. a \in Seq(S) /\ b \in Seq(S)
    BY <1>3, <1>4
  <2> QED BY <2>1, ConcatProperties
<1>7. Len(fs) \in Nat /\ Len(left) \in Nat
  BY <1>2
<1>8. \A i \in 1..Len(fs) : (a \o b)[i] = a[i]
  BY <1>3, <1>4, <1>6, <1>7
<1>9. \A i \in 1..Len(left) : (a \o b)[Len(fs) + i] = b[i]
  BY <1>3, <1>4, <1>6, <1>7
<1>10. SubSeq(a \o b, 1, Len(fs)) = a
  <2>1. \A i \in 1..Len(fs) : (a \o b)[i] \in S
    BY <1>3, <1>8
  <2> DEFINE ab == a \o b
  <2> DEFINE n == Len(fs)
  <2>2. n \in Nat /\ \A i \in 1..n : ab[i] \in S
    BY <1>7, <2>1
  <2> HIDE DEF ab, n
  <2>3. /\ SubSeq(ab, 1, n) \in Seq(S) /\ Len(SubSeq(ab, 1, n)) = n
        /\ \A i \in 1..n : SubSeq(ab, 1, n)[i] = ab[i]
    BY <2>2
  <2> QED BY <1>3, <1>8, <2>3, SeqEqual DEF ab, n
<1> DEFINE items == a \o b
<1>11. /\ Len(items) = Len(fs) + Len(left) /\ DOMAIN items = 1..Len(items)
       /\ SubSeq(items, 1, Len(fs)) = a
       /\ \A i \in 1..Len(fs) : items[i] = Item("human", fs[i])
       /\ \A i \in 1..Len(left) : items[Len(fs) + i] = Item("model", left[i])
  BY <1>3, <1>4, <1>6, <1>8, <1>9, <1>10, LenProperties
<1> HIDE DEF items
<1>12. Merge(fs, valids, cap) = items
  BY <1>5 DEF items
<1> QED BY <1>1, <1>11, <1>12 DEF left, a

-----------------------------------------------------------------------------
(* The windows.                                                                *)

WindowsTyped ==
  /\ transcript \in Transcripts
  /\ start \in 0..transcript.duration
  /\ wins \in Seq([start : Nat, end : Nat])

\* The moments that begin before the next window are in one already made.
CoveredSoFar ==
  \A from, to \in 0..transcript.duration :
    Moment(from, to, OverlapMs) /\ from < start =>
      \E i \in DOMAIN wins : Inside(from, to, wins[i])

IInv == WindowsTyped /\ CoveredSoFar

USE WindowsAssumption, PlanningAssumption

\* No window has been made.
LEMMA InitHolds == Init => IInv
  BY DEF Init, IInv, WindowsTyped, CoveredSoFar

\* The window of a step lies in the transcript and reaches as far back as the
\* overlap behind the next one.
LEMMA NextWindowStart ==
  ASSUME WindowsTyped, start < transcript.duration
  PROVE  /\ WindowEnd \in Nat /\ WindowEnd <= transcript.duration
         /\ NextStart(WindowEnd) \in 0..transcript.duration
         /\ \/ NextStart(WindowEnd) = WindowEnd - OverlapMs
            \/ WindowEnd = transcript.duration
  BY DEF WindowsTyped, WindowEnd, NextStart

\* Speech in a span is speech in every span around it.
LEMMA SpeakingGrows ==
  ASSUME NEW t, NEW a \in Nat, NEW b \in Nat, NEW c \in Nat, NEW d \in Nat,
         c <= a, b <= d,
         \A i \in DOMAIN t.segments :
           t.segments[i].start \in Nat /\ t.segments[i].end \in Nat
  PROVE  Speaking(t, a, b) \subseteq Speaking(t, c, d)
  BY DEF Speaking

\* A moment that begins before the next window is in an older one, or in this.
LEMMA WindowStepHolds == IInv /\ WindowStep => IInv'
<1> SUFFICES ASSUME IInv, WindowStep PROVE IInv'
  OBVIOUS
<1> DEFINE w == [start |-> start, end |-> WindowEnd]
<1>1. start < transcript.duration /\ transcript' = transcript
      /\ start' = NextStart(WindowEnd)
  BY DEF WindowStep
<1>2. /\ WindowEnd \in Nat /\ WindowEnd <= transcript.duration
      /\ start' \in 0..transcript.duration
      /\ start' = WindowEnd - OverlapMs \/ WindowEnd = transcript.duration
  BY <1>1, NextWindowStart DEF IInv
<1>3. transcript.duration \in Nat /\ start \in Nat
  BY DEF IInv, WindowsTyped
<1>4. WindowsTyped'
  <2>1. w \in [start : Nat, end : Nat]
    BY <1>2, <1>3
  <2>2. wins' \in Seq([start : Nat, end : Nat])
    <3>1. CASE wins' = wins
      BY <3>1 DEF IInv, WindowsTyped
    <3>2. CASE wins' = Append(wins, w)
      BY <2>1, <3>2 DEF IInv, WindowsTyped
    <3> QED BY <3>1, <3>2 DEF WindowStep
  <2> QED BY <1>1, <1>2, <2>2 DEF IInv, WindowsTyped
<1>5. ASSUME NEW i \in DOMAIN wins
      PROVE  i \in DOMAIN wins' /\ wins'[i] = wins[i]
  BY DEF WindowStep, IInv, WindowsTyped
<1>6. CoveredSoFar'
  <2> SUFFICES ASSUME NEW from \in 0..transcript.duration,
                      NEW to \in 0..transcript.duration,
                      Moment(from, to, OverlapMs), from < start'
               PROVE  \E i \in DOMAIN wins' : Inside(from, to, wins'[i])
    BY <1>1 DEF CoveredSoFar, Moment
  <2>1. CASE from < start
    BY <2>1, <1>5 DEF IInv, CoveredSoFar
  <2>2. CASE ~(from < start)
    <3>1. start <= from /\ to <= WindowEnd
      BY <2>2, <1>2, <1>3 DEF Moment
    <3>2. Speaking(transcript, start, WindowEnd) # {}
      <4>1. Speaking(transcript, from, to) # {}
        BY DEF Moment
      <4>2. \A i \in DOMAIN transcript.segments :
              transcript.segments[i].start \in Nat /\ transcript.segments[i].end \in Nat
        BY DEF IInv, WindowsTyped
      <4>3. Speaking(transcript, from, to)
              \subseteq Speaking(transcript, start, WindowEnd)
        BY <3>1, <4>2, <1>2, <1>3, SpeakingGrows
      <4> QED BY <4>1, <4>3
    <3>3. wins' = Append(wins, w)
      BY <3>2 DEF WindowStep
    <3>4. Len(wins') \in DOMAIN wins' /\ wins'[Len(wins')] = w
      BY <3>3 DEF IInv, WindowsTyped
    <3>5. Inside(from, to, w)
      BY <3>1 DEF Inside
    <3> QED BY <3>4, <3>5
  <2> QED BY <2>1, <2>2
<1> QED BY <1>4, <1>6 DEF IInv

\* Only the loop of make_windows and Load change the windows.
LEMMA StepHolds == IInv /\ [Next]_vars => IInv'
<1> SUFFICES ASSUME IInv, [Next]_vars PROVE IInv'
  OBVIOUS
<1>1. CASE UNCHANGED windowVars
  BY <1>1 DEF windowVars, IInv, WindowsTyped, CoveredSoFar, Moment
<1>2. CASE MakeWindow
  BY <1>2, WindowStepHolds DEF MakeWindow
<1>3. CASE Load
  BY <1>3 DEF Load, IInv, WindowsTyped, CoveredSoFar
<1>4. [Next]_vars => UNCHANGED windowVars \/ MakeWindow \/ Load
  <2>1. CASE UNCHANGED vars
    BY <2>1 DEF vars
  <2>2. ASSUME NEW f \in Flags, AddFlag(f) \/ RemoveFlag(f)
        PROVE  UNCHANGED windowVars
    BY <2>2 DEF AddFlag, RemoveFlag
  <2>3. ASSUME NEW error \in Errors \cup {"violation"}, Failing(error)
        PROVE  UNCHANGED windowVars
    BY <2>3 DEF Failing, TryAgain, SkipWindow, ModelUnavailable, Stopped
  <2>4. CASE LoadNothing \/ Ask \/ Answer \/ Asked \/ Check \/ Save \/ Die \/ Redelivered
    BY <2>4 DEF LoadNothing, Ask, Answer, Asked, Check, Save, Die, Stopped, Redelivered
  <2> QED BY <2>1, <2>2, <2>3, <2>4 DEF Next, Progress
<1> QED BY <1>1, <1>2, <1>3, <1>4

\* When the loop ends, every moment as long as the overlap lies in one window,
\* whatever the transcript and whatever the job does later.
THEOREM EveryMomentCovered == Spec => []Covered
<1>1. IInv => Covered
  <2> SUFFICES ASSUME IInv, start = transcript.duration,
                      NEW from \in 0..transcript.duration,
                      NEW to \in 0..transcript.duration,
                      Moment(from, to, OverlapMs)
               PROVE  \E i \in DOMAIN wins : Inside(from, to, wins[i])
    BY DEF Covered
  <2>1. transcript.duration \in Nat
    BY DEF IInv, WindowsTyped, PlanningAssumption
  <2>2. from < start
    BY <2>1 DEF Moment
  <2> QED BY <2>2 DEF IInv, CoveredSoFar
<1> QED BY <1>1, InitHolds, StepHolds, PTL DEF Spec

-----------------------------------------------------------------------------
(* The plan.  What was heard of the windows asked so far is what the two lists *)
(* hold, and a saved plan is what Save makes of them.                          *)

Structurals == {"none"} \cup {e \in Errors \cup {"violation"} : Structural(e)}
Outcomes == [cuts : Seq(Candidates), colds : Seq(Candidates), error : Structurals]

PlanTyped ==
  /\ ai \in BOOLEAN
  /\ flags \subseteq Flags /\ IsFiniteSet(flags) /\ flagsRead \in Seq(Flags)
  /\ at \in Nat \ {0} /\ call \in {"cuts", "colds"} /\ answer \in Seq(Candidates)
  /\ cuts \in Seq(Candidates) /\ colds \in Seq(Candidates)
  /\ heard \in Seq(Outcomes)

HeardCuts(h) == [w \in DOMAIN h |-> h[w].cuts]
HeardColds(h) == [w \in DOMAIN h |-> h[w].colds]

AsHeard ==
  /\ Len(heard) = at - 1
  /\ cuts = FlattenSeq(HeardCuts(heard)) /\ colds = FlattenSeq(HeardColds(heard))

InTurn ==
  /\ phase \in {"loading", "windowing", "stopped"} => NotAsked
  /\ phase = "asking" => ai /\ at <= Len(wins) + 1
  /\ phase \in {"checking", "saving", "saved"} /\ ai => at = Len(wins) + 1

Judged ==
  phase \in {"saving", "saved"} =>
    valid = [cuts |-> Grounded(cuts, transcript, MaxCutSpan),
             colds |-> Grounded(colds, transcript, MaxColdSpan)]

Written ==
  plan # None =>
    /\ phase = "saved"
    /\ plan = [status |-> IF ai THEN "ready" ELSE "ai_disabled",
               windows |-> Len(wins),
               proposed |-> Len(cuts) + Len(colds),
               rejections |-> Rejections,
               items |-> Merge(flagsRead, valid.cuts, MaxCuts),
               colds |-> Kept(valid.colds, MaxColds)]

PlanInv == PlanTyped /\ AsHeard /\ InTurn /\ Judged /\ Written

\* A window more is an answer more at the end of each list.
LEMMA HeardGrows ==
  ASSUME NEW h \in Seq(Outcomes), NEW o \in Outcomes
  PROVE  /\ FlattenSeq(HeardCuts(Append(h, o))) = FlattenSeq(HeardCuts(h)) \o o.cuts
         /\ FlattenSeq(HeardColds(Append(h, o))) = FlattenSeq(HeardColds(h)) \o o.colds
<1>1. /\ o.cuts \in Seq(Candidates) /\ o.colds \in Seq(Candidates)
      /\ \A w \in 1..Len(h) : h[w].cuts \in Seq(Candidates) /\ h[w].colds \in Seq(Candidates)
  <2>1. \A w \in 1..Len(h) : h[w] \in Outcomes
    BY ElementOfSeq
  <2> QED BY <2>1 DEF Outcomes
<1>2. DOMAIN h = 1..Len(h) /\ Len(h) \in Nat
  OBVIOUS
<1>3. HeardCuts(h) \in Seq(Seq(Candidates)) /\ HeardColds(h) \in Seq(Seq(Candidates))
  BY <1>1, <1>2 DEF HeardCuts, HeardColds
<1>4. HeardCuts(Append(h, o)) = Append(HeardCuts(h), o.cuts)
  BY <1>1, <1>2, <1>3 DEF HeardCuts
<1>5. HeardColds(Append(h, o)) = Append(HeardColds(h), o.colds)
  BY <1>1, <1>2, <1>3 DEF HeardColds
<1> QED BY <1>1, <1>3, <1>4, <1>5, FlattenAppend

\* Nothing was asked.
LEMMA NothingHeard == FlattenSeq(HeardCuts(<<>>)) = <<>> /\ FlattenSeq(HeardColds(<<>>)) = <<>>
<1>1. HeardCuts(<<>>) = <<>> /\ HeardColds(<<>>) = <<>>
  BY DEF HeardCuts, HeardColds
<1>2. FlattenSeq(<<>>) = <<>>
  BY DEF FlattenSeq
<1> QED BY <1>1, <1>2

\* What NotAsked says is what was heard: nothing.
LEMMA NotAskedHolds ==
  ASSUME NotAsked
  PROVE  /\ Len(heard) = at - 1
         /\ cuts = FlattenSeq(HeardCuts(heard)) /\ colds = FlattenSeq(HeardColds(heard))
  BY NothingHeard DEF NotAsked

\* No plan, and nothing asked.
LEMMA PlanInit == Init => PlanInv
<1> SUFFICES ASSUME Init PROVE PlanInv
  OBVIOUS
<1>1. NotAsked /\ ai \in BOOLEAN /\ flags = {} /\ flagsRead = <<>> /\ phase = "loading"
      /\ plan = None
  BY DEF Init
<1>2. PlanTyped
  BY <1>1, FS_EmptySet DEF PlanTyped, NotAsked
<1> QED BY <1>1, <1>2, NotAskedHolds DEF PlanInv, AsHeard, InTurn, Judged, Written

\* No plan is there while the job runs, and none after it failed.
LEMMA NoPlanYet == PlanInv /\ phase # "saved" => plan = None
  BY DEF PlanInv, Written

\* Of an action that leaves the questions and the answers alone.
LEMMA AskingKept ==
  ASSUME PlanInv, UNCHANGED <<at, call, answer, cuts, colds, heard>>,
         ai' = ai, flags' \subseteq Flags, IsFiniteSet(flags'), flagsRead' \in Seq(Flags)
  PROVE  PlanTyped' /\ AsHeard'
  BY DEF PlanInv, PlanTyped, AsHeard

\* Of an action that starts the questions over.
LEMMA AskingAnew ==
  ASSUME PlanInv, at' = 1, call' = "cuts", answer' = <<>>, cuts' = <<>>, colds' = <<>>,
         heard' = <<>>, UNCHANGED <<ai, flags, flagsRead>>
  PROVE  PlanTyped' /\ AsHeard'
<1>1. PlanTyped'
  BY DEF PlanInv, PlanTyped
<1>2. AsHeard'
  BY NothingHeard DEF AsHeard
<1> QED BY <1>1, <1>2

\* Of an action that ends a window with an outcome.
LEMMA AskingEnds ==
  ASSUME PlanInv, NEW o \in Outcomes, NextWindow(o),
         cuts' = cuts \o o.cuts, colds' = colds \o o.colds,
         UNCHANGED <<ai, flags, flagsRead>>
  PROVE  PlanTyped' /\ AsHeard'
<1>1. o.cuts \in Seq(Candidates) /\ o.colds \in Seq(Candidates)
  BY DEF Outcomes
<1>2. heard \in Seq(Outcomes) /\ cuts \in Seq(Candidates) /\ colds \in Seq(Candidates)
      /\ at \in Nat \ {0} /\ Len(heard) = at - 1
      /\ cuts = FlattenSeq(HeardCuts(heard)) /\ colds = FlattenSeq(HeardColds(heard))
  BY DEF PlanInv, PlanTyped, AsHeard
<1>3. /\ at' = at + 1 /\ call' = "cuts" /\ answer' = <<>>
      /\ heard' = Append(heard, o)
  BY DEF NextWindow
<1>4. PlanTyped'
  <2>1. heard' \in Seq(Outcomes) /\ cuts' \in Seq(Candidates) /\ colds' \in Seq(Candidates)
    BY <1>1, <1>2, <1>3
  <2>2. at' \in Nat \ {0} /\ call' \in {"cuts", "colds"} /\ answer' \in Seq(Candidates)
    BY <1>2, <1>3
  <2> QED BY <2>1, <2>2 DEF PlanInv, PlanTyped
<1>5. AsHeard'
  <2>1. Len(heard') = at' - 1
    BY <1>2, <1>3
  <2>2. /\ cuts' = FlattenSeq(HeardCuts(heard'))
        /\ colds' = FlattenSeq(HeardColds(heard'))
    BY <1>2, <1>3, HeardGrows
  <2> QED BY <2>1, <2>2 DEF AsHeard
<1> QED BY <1>4, <1>5

\* Each action keeps the invariant.
LEMMA PlanStep == IInv /\ PlanInv /\ [Next]_vars => PlanInv'
<1> SUFFICES ASSUME IInv, PlanInv, [Next]_vars PROVE PlanInv'
  OBVIOUS
<1>1. /\ ai \in BOOLEAN /\ flags \subseteq Flags /\ IsFiniteSet(flags)
      /\ flagsRead \in Seq(Flags)
  BY DEF PlanInv, PlanTyped
<1>2. CASE UNCHANGED vars
  BY <1>2 DEF vars, windowVars, asking, PlanInv, PlanTyped, AsHeard, InTurn, NotAsked,
              Judged, Written, Rejections, RejectedCuts, RejectedColds
<1>3. ASSUME NEW f \in Flags, AddFlag(f) \/ RemoveFlag(f) PROVE PlanInv'
  <2>1. flags' \subseteq Flags /\ IsFiniteSet(flags')
    BY <1>1, <1>3, FS_AddElement, FS_RemoveElement DEF AddFlag, RemoveFlag
  <2>2. /\ UNCHANGED <<windowVars, ai, flagsRead, phase, tries, asking, plan>>
        /\ phase # "saved"
    BY <1>3 DEF AddFlag, RemoveFlag, Running
  <2>3. PlanTyped' /\ AsHeard'
    BY <1>1, <2>1, <2>2, AskingKept DEF asking
  <2>4. InTurn' /\ Judged'
    BY <2>2 DEF PlanInv, InTurn, Judged, NotAsked, asking, windowVars
  <2>5. Written'
    BY <2>2, NoPlanYet DEF Written
  <2> QED BY <2>3, <2>4, <2>5 DEF PlanInv
<1>4. CASE Load
  <2>1. flagsRead' \in Seq(Flags)
    <3>1. PICK s \in [1..Cardinality(flags) -> flags] : flagsRead' = s
      BY <1>4 DEF Load
    <3>2. Cardinality(flags) \in Nat
      BY <1>1, FS_CardinalityType
    <3> QED BY <1>1, <3>1, <3>2
  <2>2. /\ phase = "loading" /\ phase' = "windowing"
        /\ UNCHANGED <<ai, flags, tries, asking, plan>>
    BY <1>4 DEF Load
  <2>3. PlanTyped' /\ AsHeard'
    BY <1>1, <2>1, <2>2, AskingKept DEF asking
  <2>4. InTurn' /\ Judged'
    BY <2>2 DEF PlanInv, InTurn, Judged, NotAsked, asking
  <2>5. Written'
    BY <2>2, NoPlanYet DEF Written
  <2> QED BY <2>3, <2>4, <2>5 DEF PlanInv
<1>5. CASE LoadNothing
  <2>2. /\ phase = "loading" /\ phase' = "failed"
        /\ UNCHANGED <<windowVars, ai, flags, flagsRead, tries, asking, plan>>
    BY <1>5 DEF LoadNothing
  <2>3. PlanTyped' /\ AsHeard'
    BY <1>1, <2>2, AskingKept DEF asking
  <2>4. InTurn' /\ Judged' /\ Written'
    BY <2>2, NoPlanYet DEF PlanInv, InTurn, Judged, Written
  <2> QED BY <2>3, <2>4 DEF PlanInv
<1>6. CASE MakeWindow
  <2>2. /\ phase = "windowing" /\ phase' = "windowing"
        /\ UNCHANGED <<ai, flags, flagsRead, tries, asking, plan>>
    BY <1>6 DEF MakeWindow
  <2>3. PlanTyped' /\ AsHeard'
    BY <1>1, <2>2, AskingKept DEF asking
  <2>4. InTurn' /\ Judged'
    BY <2>2 DEF PlanInv, InTurn, Judged, NotAsked, asking
  <2>5. Written'
    BY <2>2, NoPlanYet DEF Written
  <2> QED BY <2>3, <2>4, <2>5 DEF PlanInv
<1>7. CASE Ask
  <2>1. Len(wins) \in Nat
    BY DEF IInv, WindowsTyped
  <2>2. /\ phase = "windowing" /\ phase' = IF ai THEN "asking" ELSE "checking"
        /\ UNCHANGED <<windowVars, ai, flags, flagsRead, tries, asking, plan>>
    BY <1>7 DEF Ask
  <2>3. PlanTyped' /\ AsHeard'
    BY <1>1, <2>2, AskingKept DEF asking
  <2>4. InTurn' /\ Judged'
    BY <1>1, <2>1, <2>2 DEF PlanInv, InTurn, Judged, NotAsked, asking, windowVars
  <2>5. Written'
    BY <2>2, NoPlanYet DEF Written
  <2> QED BY <2>3, <2>4, <2>5 DEF PlanInv
<1>8. CASE Answer
  <2>1. PICK list \in IF call = "cuts" THEN CutAnswers ELSE ColdAnswers : Answered(list)
    BY <1>8 DEF Answer
  <2>2. list \in Seq(Candidates)
    BY <2>1
  <2>3. /\ phase = "asking" /\ at <= Len(wins)
        /\ UNCHANGED <<windowVars, ai, flags, flagsRead, phase, tries, plan, valid>>
    BY <1>8 DEF Answer, Asking
  <2>4. PlanTyped' /\ AsHeard' /\ (at' = at \/ at' = at + 1)
    <3>1. CASE call = "cuts"
      BY <2>1, <2>2, <2>3, <3>1 DEF Answered, PlanInv, PlanTyped, AsHeard
    <3>2. CASE call # "cuts"
      <4> DEFINE o == [cuts |-> answer, colds |-> list, error |-> "none"]
      <4>1. o \in Outcomes
        BY <2>2 DEF PlanInv, PlanTyped, Outcomes, Structurals
      <4>2. NextWindow(o) /\ cuts' = cuts \o o.cuts /\ colds' = colds \o o.colds
        BY <2>1, <3>2 DEF Answered
      <4> HIDE DEF o
      <4>3. PlanTyped' /\ AsHeard'
        BY <2>3, <4>1, <4>2, AskingEnds
      <4> QED BY <4>2, <4>3 DEF NextWindow
    <3> QED BY <3>1, <3>2
  <2>5. InTurn' /\ Judged' /\ Written'
    <3>1. Len(wins) \in Nat /\ at \in Nat
      BY DEF IInv, WindowsTyped, PlanInv, PlanTyped
    <3> QED BY <2>3, <2>4, <3>1, NoPlanYet
            DEF PlanInv, InTurn, Judged, Written, windowVars
  <2> QED BY <2>4, <2>5 DEF PlanInv
<1>9. ASSUME NEW error \in Errors \cup {"violation"}, TryAgain(error) PROVE PlanInv'
  <2>2. /\ phase = "asking" /\ phase' = phase
        /\ UNCHANGED <<windowVars, ai, flags, flagsRead, tries, at, call, answer, cuts, colds,
                       valid, plan, heard>>
    BY <1>9 DEF TryAgain, Asking
  <2>3. PlanTyped' /\ AsHeard'
    BY <1>1, <2>2, AskingKept
  <2>4. InTurn' /\ Judged' /\ Written'
    BY <2>2, NoPlanYet DEF PlanInv, InTurn, Judged, Written, windowVars
  <2> QED BY <2>3, <2>4 DEF PlanInv
<1>10. ASSUME NEW error \in Errors \cup {"violation"}, SkipWindow(error) PROVE PlanInv'
  <2> DEFINE o == [cuts |-> <<>>, colds |-> <<>>, error |-> error]
  <2>1. /\ phase = "asking" /\ at <= Len(wins) /\ NextWindow(o)
        /\ UNCHANGED <<windowVars, ai, flags, flagsRead, phase, tries, cuts, colds, valid,
                       plan>>
    BY <1>10 DEF SkipWindow, Asking
  <2>2. o \in Outcomes
    BY <1>10 DEF SkipWindow, Outcomes, Structurals
  <2>3. cuts' = cuts \o o.cuts /\ colds' = colds \o o.colds
    BY <2>1 DEF PlanInv, PlanTyped
  <2>4. at' = at + 1
    BY <2>1 DEF NextWindow
  <2> HIDE DEF o
  <2>5. PlanTyped' /\ AsHeard'
    BY <2>1, <2>2, <2>3, AskingEnds
  <2>6. InTurn' /\ Judged' /\ Written'
    <3>1. Len(wins) \in Nat /\ at \in Nat
      BY DEF IInv, WindowsTyped, PlanInv, PlanTyped
    <3> QED BY <2>1, <2>4, <3>1, NoPlanYet
            DEF PlanInv, InTurn, Judged, Written, windowVars
  <2> QED BY <2>5, <2>6 DEF PlanInv
<1>11. ASSUME phase # "saved", Stopped, phase' \in {"stopped", "failed"}
       PROVE  PlanInv'
  <2>1. PlanTyped' /\ AsHeard'
    BY <1>11, AskingAnew DEF Stopped
  <2>2. NotAsked' /\ UNCHANGED <<windowVars, ai, flagsRead, plan>>
    BY <1>11 DEF Stopped, NotAsked
  <2>3. InTurn' /\ Judged' /\ Written'
    BY <1>11, <2>2, NoPlanYet DEF InTurn, Judged, Written
  <2> QED BY <2>1, <2>3 DEF PlanInv
<1>12. ASSUME NEW error \in Errors \cup {"violation"}, ModelUnavailable(error) PROVE PlanInv'
  BY <1>11, <1>12 DEF ModelUnavailable, Asking
<1>13. CASE Die
  BY <1>11, <1>13 DEF Die, Running
<1>18. CASE Redelivered
  <2>1. /\ phase = "stopped" /\ phase' = "loading"
        /\ UNCHANGED <<windowVars, ai, flags, flagsRead, asking, plan>>
    BY <1>18 DEF Redelivered
  <2>2. PlanTyped' /\ AsHeard' /\ NotAsked'
    BY <2>1 DEF PlanInv, PlanTyped, AsHeard, InTurn, NotAsked, asking
  <2>3. InTurn' /\ Judged' /\ Written'
    BY <2>1, <2>2, NoPlanYet DEF InTurn, Judged, Written
  <2> QED BY <2>2, <2>3 DEF PlanInv
<1>14. CASE Asked
  <2>2. /\ phase = "asking" /\ at = Len(wins) + 1 /\ phase' = "checking"
        /\ UNCHANGED <<windowVars, ai, flags, flagsRead, tries, asking, plan>>
    BY <1>14 DEF Asked
  <2>3. PlanTyped' /\ AsHeard'
    BY <1>1, <2>2, AskingKept DEF asking
  <2>4. InTurn' /\ Judged' /\ Written'
    BY <2>2, NoPlanYet DEF PlanInv, InTurn, Judged, Written, windowVars, asking
  <2> QED BY <2>3, <2>4 DEF PlanInv
<1>15. CASE Check
  <2>2. /\ phase = "checking" /\ phase' = "saving"
        /\ UNCHANGED <<windowVars, ai, flags, flagsRead, tries, at, call, attempt, answer,
                       cuts, colds, heard, plan>>
    BY <1>15 DEF Check
  <2>3. PlanTyped' /\ AsHeard'
    BY <1>1, <2>2, AskingKept
  <2>4. InTurn' /\ Written'
    BY <2>2, NoPlanYet DEF PlanInv, InTurn, Written, windowVars
  <2>5. Judged'
    BY <1>15, <2>2 DEF Check, Judged, windowVars
  <2> QED BY <2>3, <2>4, <2>5 DEF PlanInv
<1>16. CASE Save
  <2>2. /\ phase = "saving" /\ phase' = "saved"
        /\ UNCHANGED <<windowVars, ai, flags, flagsRead, tries, asking>>
    BY <1>16 DEF Save
  <2>3. PlanTyped' /\ AsHeard'
    BY <1>1, <2>2, AskingKept DEF asking
  <2>4. InTurn' /\ Judged'
    BY <2>2 DEF PlanInv, InTurn, Judged, windowVars, asking
  <2>5. Rejections' = Rejections
    BY <2>2 DEF Rejections, RejectedCuts, RejectedColds, windowVars, asking
  <2>6. Written'
    BY <1>16, <2>2, <2>5 DEF Save, Written, windowVars, asking
  <2> QED BY <2>3, <2>4, <2>6 DEF PlanInv
<1> QED BY <1>2, <1>3, <1>4, <1>5, <1>6, <1>7, <1>8, <1>9, <1>10, <1>12, <1>13, <1>14,
           <1>15, <1>16, <1>18 DEF Next, Progress, Failing

\* Both invariants hold in every state.
LEMMA PlanAlways == Spec => [](IInv /\ PlanInv)
<1>1. Spec => []IInv
  BY InitHolds, StepHolds, PTL DEF Spec
<1> QED BY <1>1, PlanInit, PlanStep, PTL DEF Spec

\* The lists of a plan are the answers of the windows, each of its two calls or
\* neither, and no window was given up for an error that is only transient.
THEOREM WindowsWhole == Spec => []AllOrNothing
<1>1. IInv /\ PlanInv => AllOrNothing
  <2> SUFFICES ASSUME IInv, PlanInv, plan # None
               PROVE  /\ cuts = FlattenSeq(HeardCuts(heard))
                      /\ colds = FlattenSeq(HeardColds(heard))
                      /\ ai => Len(heard) = Len(wins)
                      /\ \A w \in DOMAIN heard :
                           heard[w].error \notin Retryable \cup {"timeout"}
    BY DEF AllOrNothing, HeardCuts, HeardColds
  <2>1. phase = "saved"
    BY DEF PlanInv, Written
  <2>2. ai => Len(heard) = Len(wins)
    <3>1. ASSUME ai PROVE Len(heard) = at - 1 /\ at = Len(wins) + 1 /\ at \in Nat
      BY <2>1, <3>1 DEF PlanInv, PlanTyped, AsHeard, InTurn
    <3>2. Len(wins) \in Nat
      BY DEF IInv, WindowsTyped
    <3> QED BY <3>1, <3>2
  <2>3. ASSUME NEW w \in DOMAIN heard
        PROVE  heard[w].error \notin Retryable \cup {"timeout"}
    <3>1. heard[w] \in Outcomes
      BY DEF PlanInv, PlanTyped
    <3>2. heard[w].error \in Structurals
      BY <3>1 DEF Outcomes
    <3> DEFINE error == heard[w].error
    <3>3. CASE error = "none"
      BY <3>3 DEF Retryable
    <3>4. CASE Structural(error)
      <4>1. CASE error = "timeout"
        BY <3>4, <4>1 DEF Structural, Classify
      <4>2. CASE error # "timeout" /\ error \in Retryable
        BY <3>4, <4>2 DEF Structural, Classify
      <4> QED BY <4>1, <4>2
    <3> QED BY <3>2, <3>3, <3>4 DEF Structurals
  <2> QED BY <2>2, <2>3 DEF PlanInv, AsHeard
<1> QED BY <1>1, PlanAlways, PTL

\* What the proofs below use of a saved plan.
LEMMA PlanOfItems ==
  ASSUME PlanInv, plan # None
  PROVE  LET left == Kept(valid.cuts, CapLeft(MaxCuts, flagsRead)) IN
         /\ flagsRead \in Seq(Flags) /\ valid.cuts \in Seq(Candidates)
         /\ plan.items = Merge(flagsRead, valid.cuts, MaxCuts)
         /\ Len(left) \in Nat /\ Len(flagsRead) \in Nat
         /\ ModelItems = (Len(flagsRead) + 1)..(Len(flagsRead) + Len(left))
<1> DEFINE left == Kept(valid.cuts, CapLeft(MaxCuts, flagsRead))
<1>1. flagsRead \in Seq(Flags) /\ cuts \in Seq(Candidates)
      /\ valid.cuts = Grounded(cuts, transcript, MaxCutSpan)
  BY DEF PlanInv, PlanTyped, Judged, Written
<1>2. valid.cuts \in Seq(Candidates)
  BY <1>1, GroundedKeeps
<1>3. plan.items = Merge(flagsRead, valid.cuts, MaxCuts)
  BY DEF PlanInv, Written
<1>4. MaxCuts \in Nat
  OBVIOUS
<1>5. Len(left) \in Nat
  BY <1>1, <1>2, <1>4, ItemsInOrder, CapDivides
<1>6. /\ DOMAIN plan.items = 1..(Len(flagsRead) + Len(left))
      /\ \A i \in 1..Len(flagsRead) : plan.items[i].source = "human"
      /\ \A i \in 1..Len(left) : plan.items[Len(flagsRead) + i].source = "model"
  <2> DEFINE items == Merge(flagsRead, valid.cuts, MaxCuts)
  <2>1. /\ Len(items) = Len(flagsRead) + Len(left) /\ DOMAIN items = 1..Len(items)
        /\ \A i \in 1..Len(flagsRead) :
             items[i] = Item("human", flagsRead[i])
        /\ \A i \in 1..Len(left) :
             items[Len(flagsRead) + i] = Item("model", left[i])
    BY <1>1, <1>2, <1>4, ItemsInOrder
  <2>2. plan.items = items
    BY <1>3
  <2> HIDE DEF items, left
  <2>3. \A i \in 1..Len(flagsRead) : items[i].source = "human"
    BY <2>1, ItemFields
  <2>4. \A i \in 1..Len(left) : items[Len(flagsRead) + i].source = "model"
    BY <2>1, ItemFields
  <2> QED BY <2>1, <2>2, <2>3, <2>4
<1> HIDE DEF left
<1>7. Len(flagsRead) \in Nat
  BY <1>1
<1>8. ModelItems = (Len(flagsRead) + 1)..(Len(flagsRead) + Len(left))
  <2>1. ASSUME NEW i \in (Len(flagsRead) + 1)..(Len(flagsRead) + Len(left))
        PROVE  i \in ModelItems
    <3>1. i - Len(flagsRead) \in 1..Len(left) /\ Len(flagsRead) + (i - Len(flagsRead)) = i
      BY <1>5, <1>7
    <3>2. plan.items[i].source = "model"
      BY <1>6, <3>1
    <3> QED BY <1>5, <1>6, <1>7, <3>2 DEF ModelItems
  <2>2. ASSUME NEW i \in ModelItems
        PROVE  i \in (Len(flagsRead) + 1)..(Len(flagsRead) + Len(left))
    BY <1>5, <1>6, <1>7, <2>2 DEF ModelItems
  <2> QED BY <2>1, <2>2
<1> QED BY <1>1, <1>2, <1>3, <1>5, <1>7, <1>8 DEF left

\* Every candidate proposed is in the plan or counted as rejected once.
THEOREM CandidatesAccounted == Spec => []Accounted
<1>1. PlanInv => Accounted
  <2> SUFFICES ASSUME PlanInv, plan # None
               PROVE  plan.proposed = Cardinality(ModelItems) + Len(plan.colds)
                                        + Total(plan.rejections)
    BY DEF Accounted
  <2> DEFINE max == CapLeft(MaxCuts, flagsRead)
  <2> DEFINE left == Kept(valid.cuts, max)
  <2>1. /\ flagsRead \in Seq(Flags) /\ max \in Nat /\ MaxColds \in Nat
        /\ cuts \in Seq(Candidates) /\ colds \in Seq(Candidates)
    BY ItemsInOrder DEF PlanInv, PlanTyped, CapLeft
  <2>2. /\ valid.cuts = Grounded(cuts, transcript, MaxCutSpan)
        /\ valid.colds = Grounded(colds, transcript, MaxColdSpan)
        /\ plan.proposed = Len(cuts) + Len(colds)
        /\ plan.rejections = Rejections /\ plan.colds = Kept(valid.colds, MaxColds)
    BY DEF PlanInv, Judged, Written
  <2> HIDE DEF max
  <2>3. /\ Counters(RejectedCuts) /\ Len(left) \in Nat
        /\ Len(cuts) = Len(left) + Total(RejectedCuts)
    BY <2>1, <2>2, ListAccounted DEF RejectedCuts, max
  <2>4. /\ Counters(RejectedColds) /\ Len(plan.colds) \in Nat
        /\ Len(colds) = Len(plan.colds) + Total(RejectedColds)
    BY <2>1, <2>2, ListAccounted DEF RejectedColds
  <2>5. Cardinality(ModelItems) = Len(left)
    <3>1. Len(flagsRead) \in Nat
          /\ ModelItems = (Len(flagsRead) + 1)..(Len(flagsRead) + Len(left))
      BY PlanOfItems DEF max
    <3> DEFINE a == Len(flagsRead) + 1
    <3> DEFINE b == Len(flagsRead) + Len(left)
    <3>2. a \in Int /\ b \in Int /\ (IF a > b THEN 0 ELSE b - a + 1) = Len(left)
      BY <2>3, <3>1
    <3>3. ModelItems = a..b
      BY <3>1
    <3> HIDE DEF a, b, left
    <3>4. Cardinality(a..b) = IF a > b THEN 0 ELSE b - a + 1
      BY <3>2, FS_Interval
    <3> QED BY <3>2, <3>3, <3>4
  <2>6. Total(Rejections) = Total(RejectedCuts) + Total(RejectedColds)
        /\ Total(RejectedCuts) \in Nat /\ Total(RejectedColds) \in Nat
    <3> DEFINE r == RejectedCuts
    <3> DEFINE c == RejectedColds
    <3>1. /\ Rejections.timecode_out_of_range = r.timecode_out_of_range + c.timecode_out_of_range
          /\ Rejections.timecode_inverted = r.timecode_inverted + c.timecode_inverted
          /\ Rejections.quote_too_short = r.quote_too_short + c.quote_too_short
          /\ Rejections.quote_not_in_transcript
               = r.quote_not_in_transcript + c.quote_not_in_transcript
          /\ Rejections.quote_not_at_timecode
               = r.quote_not_at_timecode + c.quote_not_at_timecode
          /\ Rejections.span_too_long = r.span_too_long + c.span_too_long
          /\ Rejections.over_cap = r.over_cap + c.over_cap
      BY NamesOfRules DEF Rejections
    <3> HIDE DEF r, c
    <3>2. Counters(r) /\ Counters(c)
      BY <2>3, <2>4 DEF r, c
    <3>3. Total(Rejections) = Total(r) + Total(c) /\ Total(r) \in Nat /\ Total(c) \in Nat
      BY <3>1, <3>2, TotalsAdd
    <3> QED BY <3>3 DEF r, c
  <2> HIDE DEF left
  <2> QED BY <2>2, <2>3, <2>4, <2>5, <2>6
<1> QED BY <1>1, PlanAlways, PTL

\* No candidate the cap leaves out is surer than one it keeps, and the model
\* never takes the plan over the cap.
THEOREM CapKept == Spec => []CapIsFair
<1>1. PlanInv => CapIsFair
  <2> SUFFICES ASSUME PlanInv, plan # None PROVE CapIsFair
    BY DEF CapIsFair
  <2> DEFINE max == CapLeft(MaxCuts, flagsRead)
  <2> DEFINE left == Kept(valid.cuts, max)
  <2> DEFINE f == Len(flagsRead)
  <2> DEFINE s == Sorted(valid.cuts)
  <2> DEFINE n == Len(valid.cuts)
  <2>1. /\ flagsRead \in Seq(Flags) /\ valid.cuts \in Seq(Candidates)
        /\ plan.items = Merge(flagsRead, valid.cuts, MaxCuts)
        /\ f \in Nat /\ Len(left) \in Nat /\ ModelItems = (f + 1)..(f + Len(left))
    BY PlanOfItems
  <2>2. /\ max \in Nat /\ MaxCuts \in Nat
        /\ max = IF f > MaxCuts THEN 0 ELSE MaxCuts - f
    BY <2>1 DEF CapLeft
  <2>3. /\ Len(plan.items) = f + Len(left)
        /\ SubSeq(plan.items, 1, f) = Proposed("human", flagsRead)
        /\ \A i \in 1..Len(left) : plan.items[f + i] = Item("model", left[i])
    <3> DEFINE items == Merge(flagsRead, valid.cuts, MaxCuts)
    <3>1. /\ Len(items) = f + Len(left)
          /\ SubSeq(items, 1, f) = Proposed("human", flagsRead)
          /\ \A i \in 1..Len(left) : items[f + i] = Item("model", left[i])
      BY <2>1, <2>2, ItemsInOrder
    <3>2. plan.items = items
      BY <2>1
    <3> HIDE DEF items, f, left
    <3> QED BY <3>1, <3>2
  <2>4. /\ Len(left) = IF n < max THEN n ELSE max
        /\ \A k \in 1..Len(left) : left[k] = s[k]
    BY <2>1, <2>2, CapDivides DEF Most
  <2>5. /\ n \in Nat /\ DOMAIN valid.cuts = 1..n
        /\ \A i \in 1..n : /\ Rank(valid.cuts, i) \in 1..n
                           /\ s[Rank(valid.cuts, i)] = valid.cuts[i]
        /\ \A k, m \in 1..n : k < m => s[k].confidence >= s[m].confidence
    BY <2>1, SortedPlaces, LenProperties
  <2> HIDE DEF max, left, f, s, n
  <2>6. ModelItems # {} => Len(plan.items) <= MaxCuts
    BY <2>1, <2>2, <2>3, <2>4
  <2>7. ASSUME NEW c \in ToSet(valid.cuts)
        PROVE  \/ \E i \in ModelItems : plan.items[i].item = c
               \/ /\ Len(plan.items) >= MaxCuts
                  /\ \A i \in ModelItems : plan.items[i].item.confidence >= c.confidence
    <3>1. PICK j \in 1..n : c = valid.cuts[j]
      BY <2>5 DEF ToSet
    <3> DEFINE k == Rank(valid.cuts, j)
    <3>2. k \in 1..n /\ s[k] = c
      BY <2>5, <3>1
    <3> HIDE DEF k
    <3>3. CASE k <= Len(left)
      <4>1. f + k \in ModelItems /\ k \in 1..Len(left)
        BY <2>1, <3>2, <3>3
      <4>2. plan.items[f + k] = Item("model", left[k]) /\ left[k] = c
        BY <2>3, <2>4, <3>2, <4>1
      <4> QED BY <4>1, <4>2, ItemFields
    <3>4. CASE ~(k <= Len(left))
      <4>1. Len(left) = max /\ max < k
        BY <2>1, <2>2, <2>4, <2>5, <3>2, <3>4
      <4>2. Len(plan.items) >= MaxCuts
        BY <2>1, <2>2, <2>3, <4>1
      <4>3. ASSUME NEW i \in ModelItems
            PROVE  plan.items[i].item.confidence >= c.confidence
        <5> DEFINE m == i - f
        <5>1. m \in 1..Len(left) /\ f + m = i /\ m < k /\ m \in 1..n
          <6>1. i \in (f + 1)..(f + Len(left))
            BY <2>1
          <6>2. m \in 1..Len(left) /\ f + m = i
            BY <2>1, <6>1
          <6> HIDE DEF m
          <6> QED BY <2>2, <2>5, <3>2, <4>1, <6>2
        <5> HIDE DEF m
        <5>2. /\ plan.items[f + m] = Item("model", left[m])
              /\ left[m] = s[m]
          BY <2>3, <2>4, <5>1
        <5>3. s[m].confidence >= s[k].confidence
          BY <2>5, <3>2, <5>1
        <5>4. plan.items[i].item = s[m]
          BY <5>1, <5>2, ItemFields
        <5> QED BY <3>2, <5>3, <5>4
      <4> QED BY <4>2, <4>3
    <3> QED BY <3>3, <3>4
  <2> QED BY <2>3, <2>6, <2>7 DEF CapIsFair, f
<1> QED BY <1>1, PlanAlways, PTL

=============================================================================
