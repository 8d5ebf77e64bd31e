\* Two runs for one GPU, a killed worker and a message delivered twice.
SPECIFICATION FairTrainingSpec
CONSTANTS
  Run = {"r1", "r2"}
  Quiet = {"r2"}
  MaxRetries = 1
  FaultBound = 1
  RefusalBound = 1
INVARIANT TrainersAreReaped
INVARIANT SupervisedGpuIsTaken
PROPERTY QueuedRunsEnd
CHECK_DEADLOCK FALSE
