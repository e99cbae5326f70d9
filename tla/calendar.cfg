SPECIFICATION Spec
CONSTANTS
  Requests = {r1, r2}
  Episodes = {e1, e2}
  Horizon = 4
  Today = 2
  Cadence = 1
  None = None
SYMMETRY Symmetry
INVARIANTS TypeOK NeverSlotless CalendarAgrees
CHECK_DEADLOCK FALSE
