CONSTANTS
  Goal = {g1, g2}
  NoGoal = NoGoal
  SerialClient = FALSE
  Node <- MCNode
  Root = "job"
  Kind <- MCKind
  Outcomes <- MCOutcomes
  Initial <- MCInitial
  Transitions <- MCTransitions
  RetryOn <- MCRetryOn
  MaxRetries = 1
  VisitCap = 2
  Traced = g1
  Success = {"done", "succeeded"}
SPECIFICATION TracedSpec
CHECK_DEADLOCK FALSE
INVARIANTS TypeOK TracedIsBuilt InStep SlotNamesRun ShownIsStack CancelledByRequest ResultFromRun
PROPERTIES ImplementsExecutor ImplementsEngine TokenStopsEntering
