------------------------------ MODULE Windows ------------------------------
(* The windows a transcript is shown to the model in: make_windows of         *)
(* edlo/ai/windows.py, one step per turn of its loop.                         *)
EXTENDS Integers, Sequences

CONSTANTS
  WindowMs,    \* length of a window
  OverlapMs    \* what a window shares with the one before it

\* The callers' arguments: 5 min and 30 s, or no overlap.  An overlap as long as
\* the window would repeat it for ever.
ASSUME WindowsAssumption ==
  WindowMs \in Nat /\ OverlapMs \in Nat /\ OverlapMs < WindowMs

VARIABLES
  transcript,  \* duration, and the segments as the spans where someone speaks
  start,       \* where the next window begins; the duration when there is none
  wins         \* the windows made

windowVars == <<transcript, start, wins>>

\* The segments that meet a span: those of a window, and of text_between.
Speaking(t, from, to) ==
  {i \in DOMAIN t.segments : t.segments[i].end > from /\ t.segments[i].start < to}

WindowEnd == IF start + WindowMs < transcript.duration
             THEN start + WindowMs ELSE transcript.duration

\* Mutant of NextStart: no overlap, as the publishing pack asks.
NextStartAtEnd(end) == IF end >= transcript.duration THEN transcript.duration ELSE end

NextStart(end) ==
  IF end >= transcript.duration THEN transcript.duration ELSE end - OverlapMs

\* A window in which nobody speaks is not made.
WindowStep ==
  /\ start < transcript.duration
  /\ wins' = IF Speaking(transcript, start, WindowEnd) = {} THEN wins
             ELSE Append(wins, [start |-> start, end |-> WindowEnd])
  /\ start' = NextStart(WindowEnd)
  /\ UNCHANGED transcript

-----------------------------------------------------------------------------

Inside(from, to, w) == w.start <= from /\ to <= w.end

\* Spans of at most a length with speech in them.
Moment(from, to, length) ==
  /\ 0 <= from /\ from < to /\ to <= transcript.duration
  /\ to - from <= length
  /\ Speaking(transcript, from, to) # {}

\* When the loop ends, every moment as long as the overlap lies in one window:
\* none is "truncated in both windows and proposed in neither" (windows.py).
Covered ==
  start = transcript.duration =>
    \A from, to \in 0..transcript.duration :
      Moment(from, to, OverlapMs) => \E i \in DOMAIN wins : Inside(from, to, wins[i])

=============================================================================
