CONSTANTS
  Goal = {g1, g2}
  NoGoal = NoGoal
  SerialClient = TRUE
  ParallelGoal = {g1}
SPECIFICATION StatusSpec
INVARIANTS PublishedCoherent SerialNeverRejected TokenIsolation
PROPERTIES ImplementsService
