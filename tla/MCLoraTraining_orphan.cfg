\* One run whose supervisor is killed, or fails before it starts the trainer.
SPECIFICATION FairTrainingSpec
CONSTANTS
  Run = {"r1"}
  Quiet = {}
  MaxRetries = 0
  FaultBound = 1
  RefusalBound = 1
PROPERTY OrphansAreFound
CHECK_DEADLOCK FALSE
