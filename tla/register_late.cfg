SPECIFICATION Spec
CONSTANTS
  Requests = {r1}
  Episodes = {e1}
  Horizon = 5
  Today = 3
  Cadence = 1
  None = None
SYMMETRY Symmetry
INVARIANTS RegistrationSucceeds
CHECK_DEADLOCK FALSE
