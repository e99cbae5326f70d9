SPECIFICATION Spec
CONSTANTS
  WindowMs = 5
  OverlapMs = 2
  PadMs = 1
  Transcripts <- MCTranscripts
  Flags <- MCFlags
  CutAnswers <- MCCutAnswers
  ColdAnswers <- MCColdAnswers
  Errors = {"timeout", "429", "401"}
  MaxCuts = 2
  MaxColds = 1
  MaxCutSpan = 8
  MaxColdSpan = 4
  MaxTries = 2
  None = None
INVARIANTS Covered Accounted CapIsFair AllOrNothing
PROPERTIES GenerationEnds
CHECK_DEADLOCK FALSE
