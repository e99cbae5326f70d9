SPECIFICATION Spec
CONSTANTS
  Jobs = {j1}
  Workers = {w1, w2}
  Ghost = Ghost
  Nobody = Nobody
  MaxAttempts = 2
  Lease = 1
  StaleAfter = 1
  Msgs = {m1, m2}
  NoJob = NoJob
  MaxReceive = 2
  Visibility = 2
  Unknown = {}
  NoMsg = NoMsg
  NoWrite = NoWrite
  Crashes = FALSE
  Drains = FALSE
  MaySend = TRUE
  LateErrors = FALSE
  Grace = 0
SYMMETRY Symmetry
INVARIANTS FailedIsRetryable
