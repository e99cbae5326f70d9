SPECIFICATION Spec
CONSTANTS
  Jobs = {j1}
  Workers = {w1, w2}
  Ghost = Ghost
  Nobody = Nobody
  MaxAttempts = 3
  Lease = 2
  StaleAfter = 1
  Msgs = {m1, m2}
  NoJob = NoJob
  MaxReceive = 3
  Visibility = 2
  Unknown = {}
  NoMsg = NoMsg
  NoWrite = NoWrite
  Crashes = FALSE
  Drains = TRUE
  MaySend = TRUE
  LateErrors = FALSE
  Grace = 1
PROPERTIES DrainReturnsMessage
