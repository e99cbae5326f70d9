\* Each of the three is refuted; keep one at a time.
SPECIFICATION Spec
CONSTANTS
  Requests = {r1, r2}
  Episodes = {e1, e2}
  Horizon = 5
  Today = 2
  Cadence = 1
  None = None
SYMMETRY Symmetry
INVARIANTS OneSlot NoSharedDate NoOrphanSlot
CHECK_DEADLOCK FALSE
