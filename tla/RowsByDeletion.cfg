SPECIFICATION RowsSpec
CONSTANTS
  w1 = w1
  w2 = w2
  NULL = NULL
  NilRow = NilRow
  NoCall = NoCall
  Ids = {1, 2, 3}
  MaxParameters = 6
  Now = {9}
  Workers = {w1, w2}
  Models <- ValueForms
  Tables <- RankedTables
  Calls <- OneCall
  Faults = {}
  Orders <- ByDeletion
  Limit = 1
INVARIANT PagesFollowTheOrder
CHECK_DEADLOCK FALSE
