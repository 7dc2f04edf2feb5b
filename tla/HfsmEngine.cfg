CONSTANTS
  Node <- MCNode
  Root = "job"
  Kind <- MCKind
  Outcomes <- MCOutcomes
  Initial <- MCInitial
  Transitions <- MCTransitions
  RetryOn <- MCRetryOn
  MaxRetries = 2
  VisitCap = 4
SPECIFICATION FairSpec
CHECK_DEADLOCK FALSE
INVARIANTS TypeOK PathIsStack
PROPERTIES CancelStopsEntering CancelEnds RunEnds ImplementsRun
