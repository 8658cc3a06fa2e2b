CONSTANTS
  t1 = t1
  t2 = t2
  Threads = {t1, t2}
  VectorSize = 2
  RowsPerBlock = 4
  WordMod = 16
  Scans <- SampledScans
SYMMETRY Symmetry
SPECIFICATION Spec
INVARIANT ZeroIsTheEnd
