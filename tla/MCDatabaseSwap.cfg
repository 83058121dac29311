SPECIFICATION SwapSpec
CONSTANTS
  x = x
  y = y
  z = z
  Partial = Partial
  NoFile = NoFile
  Contents <- MCContents
  KeepCopies = 2
  Attempts = 2
  ClockSetBack = FALSE
  MaxName = 4
SYMMETRY Alike
INVARIANT SwapInv
INVARIANT PreviousKept
INVARIANT JournalTruthful
