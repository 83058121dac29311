SPECIFICATION Spec
CONSTANTS
  MaxTS = 3
  MaxEvents = 1
  Targets = {3}
  KeepCount = 1
  Attempts = 2
  SweepRaces = FALSE
INVARIANT PlanReadable
INVARIANT CommittedStored
PROPERTY WindowsKept
PROPERTY WindowOpens
PROPERTY NothingLeaks
CHECK_DEADLOCK FALSE
