CONSTANTS
  Slot = {c1, c2, c3}
  MaxCrashes = 2
  MayError = TRUE
  MaxLate = 1
  MaxExecs = 1
SPECIFICATION FairActionSpec
CHECK_DEADLOCK FALSE
INVARIANTS ActionTypeOK FlagCovers OutcomeHonest OrphansExplained
PROPERTIES ExecutionEnds BringsUp
