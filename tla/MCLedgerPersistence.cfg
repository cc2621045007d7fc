SPECIFICATION Spec
CONSTANTS
  Writers = {w1, w2, w3}
  Absent = Absent
  InitialFile <- EmptyFile
  MaxEvents = 4
  MaxLoads = 2
  MaxCrashes = 2
SYMMETRY Symmetry
CHECK_DEADLOCK FALSE
INVARIANTS  ChainIntact FileIsPrefix SavedUnlessExposed ErrorReported
