\* Each of the two is refuted; keep one at a time.
SPECIFICATION Spec
CONSTANTS
  Txns = {t1, t2}
  MaxMoves = 4
  MaxTranscripts = 1
  MaxPacks = 1
  Targets = {"registered", "mixing", "plan_ready", "editing", "review", "blocked", "unknown"}
  None = None
INVARIANTS DeletedIsGone
PROPERTIES HistoryIsAppendOnly
CHECK_DEADLOCK FALSE
