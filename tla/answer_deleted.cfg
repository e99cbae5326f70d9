SPECIFICATION Spec
CONSTANTS
  Requests = {r1, r2}
  Calls <- MCCalls
  k1 = k1
  k2 = k2
  None = None
  Ages = TRUE
  Faults = FALSE
  Serial = FALSE
SYMMETRY Symmetry
INVARIANTS EveryAnswerIsKept
