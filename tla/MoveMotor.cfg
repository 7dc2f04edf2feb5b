CONSTANTS
  Goal <- MCGoal
  NoGoal = "none"
  Target <- MCTarget
  Top = 2
  Cancelable = {"g1"}
  Kinds = {"OK", "STUCK", "DEAD"}
  MaxEvents = 2
  MaxWire = 1
SPECIFICATION FairSpec
INVARIANTS TargetIsOwn
PROPERTIES SuccessSettles GoalEnds
