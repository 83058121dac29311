SPECIFICATION Spec
CONSTANTS
  a = a
  b = b
  NoHolder = NoHolder
  Instances <- MCInstances
  Keep = 1
  Histories = {"legacy", "snapshots"}
  Regain = FALSE
  SetBack = FALSE
  Hand = 1
  MaxEpoch = 4
  MaxTime = 2
  MaxChange = 1
SYMMETRY Alike
VIEW Live
INVARIANT StoredKept
