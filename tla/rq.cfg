SPECIFICATION FairSpec
CONSTANTS
  Ids = {a, b}
  Procs = {p1, p2}
  MaxReceive = 2
  Visibility = 2
  NoMsg = NoMsg
  MaxCrashes = 1
INVARIANTS ExactlyOneCopy DeadIsExhausted
PROPERTIES ImplementsPromise EventuallyConsumed
