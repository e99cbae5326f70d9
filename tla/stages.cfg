SPECIFICATION Spec
CONSTANTS
  Txns = {t1, t2}
  MaxMoves = 4
  MaxTranscripts = 2
  MaxPacks = 2
  Targets = {"registered", "editing", "review", "blocked", "unknown"}
  None = None
SYMMETRY Symmetry
INVARIANTS HistoryIsTheStage PublishedIsBacked
PROPERTIES GateHolds PublishedIsKept DeletedStaysDeleted
CHECK_DEADLOCK FALSE
