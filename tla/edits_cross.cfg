SPECIFICATION Spec
CONSTANTS
  Jobs = {j1}
  Editors = {e1, e2}
  Places = {p1}
  MaxGens = 1
  Starts = {1}
  Ends = {1, 2}
  ProposedStart = 0
  ProposedEnd = 2
  None = None
INVARIANTS EndAfterStart
CHECK_DEADLOCK FALSE
