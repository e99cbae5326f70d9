SPECIFICATION SweepingSpec
CONSTANTS
  Jobs = {j1}
  Workers = {w1, w2}
  Ghost = Ghost
  Nobody = Nobody
  MaxAttempts = 2
  Lease = 1
  StaleAfter = 1
  Msgs = {m1, m2}
  NoJob = NoJob
  MaxReceive = 2
  Visibility = 2
  Unknown = {}
  NoMsg = NoMsg
  NoWrite = NoWrite
  Crashes = FALSE
  Drains = FALSE
  MaySend = FALSE
  LateErrors = FALSE
  Grace = 1
PROPERTIES EventuallySettled
