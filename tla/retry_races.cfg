SPECIFICATION Spec
CONSTANTS
  Requests = {r1, r2}
  Calls <- UploadCalls
  k1 = k1
  k2 = k2
  None = None
  Ages = FALSE
  Faults = FALSE
  Serial = FALSE
SYMMETRY Symmetry
INVARIANTS NoServerError
