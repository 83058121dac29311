SPECIFICATION Spec
CONSTANTS
  NumBackups = 2
  Copied = {2}
  Encrypted = {2}
  Pinned = {2}
  Keep = 1
  MaxAttempts = 2
  MaxEvents = 2
INVARIANT Restorable
INVARIANT CopiesTracked
INVARIANT HoldAgrees
PROPERTY RetentionKeepsVerified
PROPERTY ArchivesSettle
CHECK_DEADLOCK FALSE
