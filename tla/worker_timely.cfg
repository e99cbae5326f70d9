SPECIFICATION Spec
CONSTANTS
  Jobs = {j1, j2}
  Workers = {w1, w2}
  Ghost = Ghost
  Nobody = Nobody
  MaxAttempts = 2
  Lease = 1
  StaleAfter = 0
  Msgs = {m1, m2}
  NoJob = NoJob
  MaxReceive = 2
  Visibility = 2
  Unknown = {j2}
  NoMsg = NoMsg
  NoWrite = NoWrite
  Crashes = TRUE
  Drains = FALSE
  MaySend = TRUE
  LateErrors = FALSE
  Grace = 1
SYMMETRY Symmetry
INVARIANTS ExclusiveExecution NoDoubleDelivery FailedIsRetryable
PROPERTIES TerminalIsFinal ImplementsContract
