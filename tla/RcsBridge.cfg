CONSTANTS
  Order = {o1}
  NoOrder = NoOrder
  NoGoal = NoGoal
  Persistent = {o1}
  MaxOrders = 2
  MaxRestarts = 1
SPECIFICATION FairSpec
CHECK_DEADLOCK FALSE
INVARIANTS UncancelableExplained SnapshotNotAhead
PROPERTIES CancelHitsNamed CancelGetsThrough
