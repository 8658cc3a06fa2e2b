CONSTANTS
  Null = Null
  NoColumn = NoColumn
  Width = 30
  Columns <- MCColumns
  Binds <- MCBinds
SPECIFICATION Spec
INVARIANTS
  TypeOK UnitsDistinct PruningKeepsMatches PruneAccounting TopNKept
