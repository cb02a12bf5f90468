SPECIFICATION RowsSpec
CONSTANTS
  w1 = w1
  w2 = w2
  NULL = NULL
  NilRow = NilRow
  NoCall = NoCall
  Ids = {1, 2, 3}
  MaxParameters = 6
  Now = {9}
  Workers = {w1, w2}
  Models <- AllModels
  Tables <- AllTables
  Calls <- AllCalls
  Faults = {"exec", "reply", "result"}
  Orders <- AllOrders
  Limit = 1
INVARIANTS
  BatchesCoverInput
  CountMatchesChanges
  RowsAssignedOnce
  ModelNamesItsRow
  PagesFollowTheOrder
PROPERTIES
  DeletedRowsAreLeftAlone
  OnlyMatchingRowsChange
SYMMETRY Symmetric
CHECK_DEADLOCK FALSE
