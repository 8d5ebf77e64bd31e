\* A row to a deduplicating recipient whose last attempt times out.
SPECIFICATION FairSpec
CONSTANTS
  Row = {"safe"}
  Idempotent = {"safe"}
  MAX_DELIVERY_ATTEMPTS = 2
PROPERTY RowsAreDecided
CHECK_DEADLOCK FALSE
