----------------------------- MODULE Grounding -----------------------------
(* What is left of the model's candidates: validate and merge of              *)
(* edlo/ai/grounding.py.  Of a quote only what the rules ask is kept: whether *)
(* it is too short, and where the transcript says it, as the sets of segments *)
(* that make it up (normalize() is in that relation).                         *)
EXTENDS Windows, FiniteSets

CONSTANT PadMs    \* how far from its timecode a quote may be

\* In the order they are applied; the cap comes after all of them.
Rules == <<"timecode_out_of_range", "timecode_inverted", "quote_too_short",
           "quote_not_in_transcript", "quote_not_at_timecode", "span_too_long">>
RuleNames == {Rules[i] : i \in DOMAIN Rules} \cup {"over_cap"}

\* A schema error is not a candidate: the gateway asks again.  Of the confidence,
\* between 0 and 1, only the order counts.
Candidates ==
  [start : Nat, end : Nat \ {0}, said : SUBSET SUBSET (Nat \ {0}), short : BOOLEAN,
   confidence : Nat]

SaidAt(c, t) == \E o \in c.said : o \subseteq Speaking(t, c.start - PadMs, c.end + PadMs)

Breaks(c, rule, t, maxSpan) ==
  CASE rule = "timecode_out_of_range" -> c.end > t.duration
    [] rule = "timecode_inverted" -> c.start >= c.end
    [] rule = "quote_too_short" -> c.short
    [] rule = "quote_not_in_transcript" -> c.said = {}
    [] rule = "quote_not_at_timecode" -> ~SaidAt(c, t)
    [] rule = "span_too_long" -> c.end - c.start > maxSpan

\* The first rule a candidate breaks.
Verdict(c, t, maxSpan) ==
  LET broken == {i \in DOMAIN Rules : Breaks(c, Rules[i], t, maxSpan)} IN
  IF broken = {} THEN "kept"
  ELSE Rules[CHOOSE i \in broken : \A j \in broken : i <= j]

\* kept, as the loop of validate grows it.
Grounded(cs, t, maxSpan) ==
  LET kept[i \in 0..Len(cs)] ==
        IF i = 0 THEN <<>>
        ELSE IF Verdict(cs[i], t, maxSpan) = "kept" THEN Append(kept[i - 1], cs[i])
        ELSE kept[i - 1]
  IN kept[Len(cs)]

\* Mutant of Rank: the candidates stay in the order of the windows.
RankAsAsked(cs, i) == i

\* The place of a candidate when sorted by confidence, the earlier first among
\* equals.
Rank(cs, i) ==
  Cardinality({j \in DOMAIN cs : \/ cs[j].confidence > cs[i].confidence
                                 \/ cs[j].confidence = cs[i].confidence /\ j <= i})

Sorted(cs) == [k \in DOMAIN cs |-> cs[CHOOSE i \in DOMAIN cs : Rank(cs, i) = k]]

Most(max, n) == IF n < max THEN n ELSE max

Kept(valid, max) == SubSeq(Sorted(valid), 1, Most(max, Len(valid)))

OverCap(valid, max) == SubSeq(Sorted(valid), max + 1, Len(valid))

\* How many candidates each rule rejected.
Rejected(cs, valid, t, max, maxSpan) ==
  [r \in RuleNames |->
     IF r = "over_cap" THEN Len(OverCap(valid, max))
     ELSE Cardinality({i \in DOMAIN cs : Verdict(cs[i], t, maxSpan) = r})]

\* Mutant of CapLeft: the cap is the model's alone.
CapLeftWhole(cap, flags) == cap

CapLeft(cap, flags) == IF Len(flags) > cap THEN 0 ELSE cap - Len(flags)

Proposed(source, s) == [i \in DOMAIN s |-> [source |-> source, item |-> s[i]]]

\* Flags are kept first and never validated.
Merge(flags, valid, cap) ==
  Proposed("human", flags) \o Proposed("model", Kept(valid, CapLeft(cap, flags)))

=============================================================================
