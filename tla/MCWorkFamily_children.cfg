\* A parent decomposed twice, with a crash, an overtaken process, a
\* cancellation, an instruction and verdicts anywhere.
SPECIFICATION FairFamilySpec
CONSTANTS
  Order = {"p", "a", "c"}
  Root = "p"
  Spec = {"first", "second", "blank"}
  Brood <- MCBrood
  Plans <- MCPlans
  Tailed = {"second"}
  Semantic = {"a"}
  MaxAttempts = 2
  MaxReplans = 1
  LedgerReplans = 1
  InstructionBound <- MCInstructions
INVARIANT BroodSpawnedOnce
INVARIANT WaitingHasChildren
PROPERTY CompletedOnAChild
INVARIANT FamilyReplansArePaidFor
PROPERTY CancelTakesChildren
PROPERTY FamilyRests
CHECK_DEADLOCK FALSE
