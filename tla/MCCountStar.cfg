CONSTANTS
  Null = Null
  NoColumn = NoColumn
  Width = 30
  Columns <- MCColumns
  Binds <- SparseCounts
  t1 = t1
  t2 = t2
  Threads = {t1, t2}
  VectorSize = 2
  RowsPerBlock = 4
  WordMod = 16
  MaxObjectsForStats = 2
SYMMETRY Symmetry
SPECIFICATION ScanSpec
INVARIANT CountStarAlways
