---------------------------- MODULE MCPlanning -----------------------------
(* A small instance of Planning for TLC: windows of 5 that share 2.           *)
EXTENDS Planning

Segment(from, to) == [start |-> from, end |-> to]

\* Talk through three windows, a late remark after two silent ones, one remark.
MCTranscripts == {
  [duration |-> 9, segments |-> <<Segment(0, 2), Segment(3, 5), Segment(6, 9)>>],
  [duration |-> 10, segments |-> <<Segment(8, 10)>>]}

\* Units of 15 s: the code's window of 20, overlap of 2 and cold opens of 4; one
\* story told across the end of the first window.
MCLongTranscripts == {
  [duration |-> 30, segments |-> <<Segment(0, 15), Segment(17, 18), Segment(18, 20),
                                 Segment(20, 21)>>]}

MCFlags == {[id |-> 1, start |-> 6, end |-> 7], [id |-> 2, start |-> 1, end |-> 2]}

Candidate(from, to, said, confidence) ==
  [start |-> from, end |-> to, said |-> said, short |-> FALSE, confidence |-> confidence]

Opening == Candidate(0, 2, {{1}}, 1)
Middle == Candidate(3, 5, {{2}, {1, 2}}, 2)
Misplaced == Candidate(7, 9, {{1}}, 2)
Invented == Candidate(3, 4, {}, 2)
Late == Candidate(8, 11, {{3}}, 2)
Inverted == Candidate(4, 4, {{2}}, 2)
Long == Candidate(0, 8, {{1, 2, 3}}, 2)
Brief == [Opening EXCEPT !.short = TRUE]

MCCutAnswers == {<<>>, <<Opening, Middle>>, <<Misplaced, Middle, Late, Brief>>}
MCColdAnswers == {<<>>, <<Opening, Long, Inverted, Invented>>}

=============================================================================
