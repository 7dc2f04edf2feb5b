CONSTANTS
  Goal = {g1, g2}
  NoGoal = NoGoal
  SerialClient = TRUE
SPECIFICATION Spec
CHECK_DEADLOCK FALSE
INVARIANTS CancelReachesRun
