CONSTANTS
  Goal = {g1, g2}
  NoGoal = NoGoal
  SerialClient = FALSE
SPECIFICATION Spec
CHECK_DEADLOCK FALSE
INVARIANTS OneAtATime
