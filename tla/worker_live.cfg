SPECIFICATION FairSpec
CONSTANTS
  Jobs = {j1}
  Workers = {w1, w2}
  Ghost = Ghost
  Nobody = Nobody
  MaxAttempts = 3
  Lease = 1
  StaleAfter = 1
  Msgs = {m1, m2}
  NoJob = NoJob
  MaxReceive = 3
  Visibility = 2
  Unknown = {}
  NoMsg = NoMsg
  NoWrite = NoWrite
  Crashes = FALSE
  Drains = FALSE
  MaySend = TRUE
  LateErrors = FALSE
  Grace = 1
INVARIANTS NoStranded ExhaustedIsSettled
PROPERTIES SettledOnceSent
