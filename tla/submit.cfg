SPECIFICATION Spec
CONSTANTS
  Requests = {r1, r2}
  Calls <- MCCalls
  k1 = k1
  k2 = k2
  None = None
  Ages = TRUE
  Faults = TRUE
  Serial = FALSE
SYMMETRY Symmetry
INVARIANTS TypeOK SentOnce AnswerIsKept RowIsSent
