SPECIFICATION Spec
CONSTANTS
    nightly = nightly
    again = again
    adhoc = adhoc
    manual = manual
    NoRun = NoRun
    Databases = {1, 2}
    Windows <- Nightly
    MaxEvents = 1
    Runs <- JobRunIds
    Kind <- JobKind
    Selection <- JobSelection
    Parallelism = 2
    Limits = {1}
    Requesters = {q1}
INVARIANT SlotsUsed
PROPERTY StopsAsAWhole
PROPERTY EventuallyOver
CHECK_DEADLOCK FALSE
