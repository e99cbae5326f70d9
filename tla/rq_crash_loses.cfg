SPECIFICATION Spec
CONSTANTS
  Ids = {a}
  Procs = {p1, p2}
  MaxReceive = 2
  Visibility = 1
  NoMsg = NoMsg
  MaxCrashes = 1
INVARIANTS NothingLost
