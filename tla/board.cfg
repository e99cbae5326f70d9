SPECIFICATION Spec
CONSTANTS
  Jobs = {j1, j2}
  Editors = {e1, e2}
  Places = {p1, p2}
  MaxGens = 2
  Starts = {1}
  Ends = {1, 2}
  ProposedStart = 0
  ProposedEnd = 2
  None = None
SYMMETRY Symmetry
INVARIANTS OnePick BoardIsClean SpansGoForward
PROPERTIES PlansAreWhole
CHECK_DEADLOCK FALSE
