\* A cancellation between a worker's look at the row and its mark.
SPECIFICATION ScriptSpec
CONSTANTS
  MaxAttempts = 2
  RestartBound = 0
PROPERTY FinishedStays
CHECK_DEADLOCK FALSE
