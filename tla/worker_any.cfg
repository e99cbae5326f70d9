SPECIFICATION Spec
CONSTANTS
  Jobs = {j1}
  Workers = {w1, w2}
  Ghost = Ghost
  Nobody = Nobody
  MaxAttempts = 2
  Lease = 1
  StaleAfter = 0
  Msgs = {m1}
  NoJob = NoJob
  MaxReceive = 3
  Visibility = 1
  Unknown = {}
  NoMsg = NoMsg
  NoWrite = NoWrite
  Crashes = TRUE
  Drains = TRUE
  MaySend = TRUE
  LateErrors = TRUE
  Grace = 0
SYMMETRY Symmetry
INVARIANTS TypeOK SucceededIsDurable NoLeakedLease
