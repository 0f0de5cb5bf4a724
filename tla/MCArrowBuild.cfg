SPECIFICATION FairSpec
CONSTANTS
  None = None
  Items <- MCItems
  RowLists <- MCRowLists
  OutSchemas <- MCOutSchemas
  BatchRows = 2
  MaxRows = 3
  MaxColumns = 2
INVARIANTS
  TypeOK
  CellsMatchRows
  RejectsMisfits
PROPERTY DeliversAll
