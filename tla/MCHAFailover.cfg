SPECIFICATION Spec
CONSTANTS
  a = a
  b = b
  NoHolder = NoHolder
  Instances <- MCInstances
  Keep = 1
  Histories = {"none"}
  Regain = FALSE
  SetBack = FALSE
  Hand = 0
  MaxEpoch = 2
  MaxTime = 2
  MaxChange = 1
SYMMETRY Alike
VIEW Live
INVARIANT FailoverInv
INVARIANT StoredKept
INVARIANT NamedAvailable
