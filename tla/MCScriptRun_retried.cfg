\* Two attempts, a supervisor that is restarted, and a cancellation.
SPECIFICATION FairScriptSpec
CONSTANTS
  MaxAttempts = 2
  RestartBound = 1
INVARIANT StartedOncePerLife
INVARIANT SuccessIsReal
PROPERTY CancelPreventsTheRun
PROPERTY StepEnds
CHECK_DEADLOCK FALSE
