SPECIFICATION Spec
CONSTANTS
  Episodes = {e1, e2}
  Deletable = {e1}
  Audios = {a1, a2}
  Bytes = {b1}
  Damaged = damaged
  Runs = {x1, x2}
  MaxRows = 2
  Resends = TRUE
  Keeping = {TRUE, FALSE}
  None = None
SYMMETRY Symmetry
INVARIANTS RowsHaveObjects ContentIsTrue UploadsAreFound RetryAddsNothing
CHECK_DEADLOCK FALSE
