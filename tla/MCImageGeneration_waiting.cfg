\* One generation that nobody touches, with the task's own limit of retries, while
\* a training run has the GPU.
SPECIFICATION GenerationSpec
CONSTANTS
  Gen = {"g1"}
  MaxRetries = 0
  MaxTransient = 3
  CrashBound = 0
  Quiet = {"g1"}
INVARIANT WaitingIsReachable
CHECK_DEADLOCK FALSE
