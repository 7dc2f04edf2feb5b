CONSTANTS
  Goal = {1, 2}
  NoGoal = NoGoal
  SerialClient = TRUE
  Order = {o1}
  NoOrder = NoOrder
  MaxOrders = 2
  MaxRestarts = 0
SPECIFICATION BridgedSpec
CHECK_DEADLOCK FALSE
INVARIANTS StoppedByAnOrder
PROPERTIES ImplementsBridge
