SPECIFICATION Spec
CONSTANTS
  None = None
  Items <- MCItems
  RowLists <- MCRowLists
  OutSchemas <- MCOutSchemas
  BatchRows = 2
  MaxRows = 1
  MaxColumns = 2
INVARIANT CellsUnderTheirNames
