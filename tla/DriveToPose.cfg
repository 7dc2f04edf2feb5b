CONSTANTS
  Goal <- MCGoal
  Target <- MCTarget
  TargetYaw <- MCTargetYaw
  Cancelable = {"g1"}
  Length = 2
  MaxLives = 2
SPECIFICATION FairSpec
CHECK_DEADLOCK FALSE
INVARIANTS NeverLeftMoving ArrivedAtTarget
PROPERTIES CancelEnds GoalEnds
