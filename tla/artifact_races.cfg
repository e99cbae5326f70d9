\* Each of the four is refuted; keep one at a time.
SPECIFICATION Spec
CONSTANTS
  Episodes = {e1, e2}
  Deletable = {e1, e2}
  Audios = {a1, a2}
  Bytes = {b1}
  Damaged = damaged
  Runs = {x1, x2}
  MaxRows = 3
  Resends = FALSE
  Keeping = {TRUE, FALSE}
  None = None
SYMMETRY Symmetry
INVARIANTS LiveRowsHaveObjects OneRowPerAudio TranscriptsAreOfUploads
PROPERTIES OrphansAreReturned
CHECK_DEADLOCK FALSE
