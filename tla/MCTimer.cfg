SPECIFICATION Spec
CONSTANTS
  MaxTicks = 2
  MaxPushes = 1
  MaxOthers = 2
CHECK_DEADLOCK FALSE
INVARIANTS TypeOK NoTickTwice
PROPERTIES TickNoticed CountsReported
