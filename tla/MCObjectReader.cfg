SPECIFICATION Spec
CONSTANTS
  CrcSize = 1
  CrcContentSize = 3
  MagicSize = 2
  HeaderSize = 4
  LengthMod = 16
  Files <- MCFiles
  Calls <- MCCalls
  Gaps <- MCGaps
  Thresholds <- MCThresholds
INVARIANTS
  TypeOK
  ColumnsExact
  IntactIsReadable
  ReadsApart
  SmallFileReadOnce
  PrefetchCovers
