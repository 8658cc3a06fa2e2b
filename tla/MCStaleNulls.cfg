CONSTANTS
  Null = Null
  Undefined = Undefined
  Absent = Absent
  NoSample = NoSample
  Width = 30
  BitsPerByte = 1
  EpochDays = 3
  WordBits = 2
  InlineMax = 1
  IntBits = 4
  SeqnumMax = 6
  CountMax = 15
  VectorSize = 2
  VirtualColumnStart = 100
  Exprs <- MCExprs
  Scans <- MCScans
SPECIFICATION Spec
INVARIANT NullsAreStored
