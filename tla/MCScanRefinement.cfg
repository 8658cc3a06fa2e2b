CONSTANTS
  Threads = {t1, t2}
  VectorSize = 2
  RowsPerBlock = 4
  WordMod = 16
  Scans <- MCScans
SPECIFICATION FairSpec
PROPERTIES
  ImplementsResult Termination EventuallyComplete
