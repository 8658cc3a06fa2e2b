CONSTANTS
  Null = Null
  Width = 2
  Fixed <- MCFixed
  Strings <- MCStrings
  FixedFilters <- MCFixedFilters
  StringFilters <- MCStringFilters
  MaxRows = 3
SPECIFICATION Spec
CHECK_DEADLOCK FALSE
INVARIANT NoFalseSkipNotEqual
