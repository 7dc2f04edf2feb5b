CONSTANTS
  Goal = {g1, g2}
  NoGoal = NoGoal
  SerialClient = FALSE
SPECIFICATION FairSpec
CHECK_DEADLOCK FALSE
INVARIANTS BusyJustified StatusFollowsBusy
PROPERTIES CancelEndsRun ImplementsFairService
