\* A generation and another user's, on one worker that may be killed.
SPECIFICATION FairGenerationSpec
CONSTANTS
  Gen = {"g1", "g2"}
  MaxRetries = 1
  MaxTransient = 1
  CrashBound = 1
  Quiet = {"g2"}
INVARIANT FinishedTogether
INVARIANT RunningIsReachable
PROPERTY OnlyAnEarlierReadRevives
PROPERTY GenerationsEnd
CHECK_DEADLOCK FALSE
