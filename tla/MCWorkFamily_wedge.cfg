\* A parent whose second plan is decomposed too.
SPECIFICATION FairFamilySpec
CONSTANTS
  Order = {"p", "a"}
  Root = "p"
  Spec = {"first", "second", "blank"}
  Brood <- MCBrood
  Plans <- MCPlans
  Tailed = {"second"}
  Semantic = {}
  MaxAttempts = 2
  MaxReplans = 1
  LedgerReplans = 1
  InstructionBound <- MCInstructions
CHECK_DEADLOCK FALSE
PROPERTY ParentsWake
