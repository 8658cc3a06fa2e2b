CONSTANTS
  t1 = t1
  t2 = t2
  Threads = {t1, t2}
  VectorSize = 2
  RowsPerBlock = 4
  WordMod = 16
  Scans <- MCScans
SYMMETRY Symmetry
SPECIFICATION Spec
INVARIANTS
  TypeOK NoSharedUnit RowConservation EmittedOnce ZeroMeansExhausted
  CompleteAtEnd BlockAccounting ReaderMatchesUnit LocalStateFits
PROPERTIES
  EveryStepCounts
