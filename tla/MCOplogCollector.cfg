SPECIFICATION Spec
CONSTANTS
  MaxTS = 3
  MaxEvents = 2
  Gaps = {1}
  Interval = 1
  PrimaryLags = FALSE
VIEW Relevant
INVARIANT RepoCoherent
INVARIANT ReplayUnbroken
PROPERTY GivenUpForCause
INVARIANT CoveredBaseOnChain
PROPERTY CatchesUp
