SPECIFICATION Spec
CONSTANTS
    nightly = nightly
    again = again
    adhoc = adhoc
    manual = manual
    NoRun = NoRun
    Databases = {1, 2}
    Windows <- Nightly
    MaxEvents = 1
    Runs <- LockRunIds
    Kind <- LockKind
    Selection <- LockSelection
    Parallelism = 1
    Limits = {0}
    Requesters = {}
INVARIANT RunsInv
INVARIANT OneBackupPerDatabase
INVARIANT RecordsSettle
CHECK_DEADLOCK FALSE
