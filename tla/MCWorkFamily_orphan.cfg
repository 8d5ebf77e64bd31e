\* A parent canceled while the process of its decompose step is between its last
\* look at the order and the commit of the children.
SPECIFICATION FairFamilySpec
CONSTANTS
  Order = {"p", "a", "c"}
  Root = "p"
  Spec = {"first", "second", "blank"}
  Brood <- MCBrood
  Plans <- MCPlans
  Tailed = {"second"}
  Semantic = {"a"}
  MaxAttempts = 2
  MaxReplans = 1
  LedgerReplans = 1
  InstructionBound <- MCInstructions
CHECK_DEADLOCK FALSE
INVARIANT CanceledFamilyIsQuiet
