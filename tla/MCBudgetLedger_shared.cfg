\* Three executions of a family with fewer calls and less time than they want.
SPECIFICATION Spec
CONSTANTS
  Attempt = {"a1", "a2", "b1"}
  OrderOf <- MCOrderOf
  CallNo = {1}
  CallLimit = 2
  ActiveLimit = 3
  Cap <- MCCap
  MaxElapsed = 3
INVARIANT DispatchesWithinLimit
INVARIANT ActiveTimeIsBounded
CHECK_DEADLOCK FALSE
