SPECIFICATION Spec
CONSTANTS
  w1 = w1
  w2 = w2
  Null = Null
  NotRead = NotRead
  NoJunction = NoJunction
  NoCall = NoCall
  NoRequest = NoRequest
  NoQuery = NoQuery
  Relation <- AllMappings
  SoftDelete = {"Tag", "Article", "Label", "Edge"}
  PrimaryKey <- Primary
  UniqueKeys <- Uniques
  Writers = {w1, w2}
  RelationCalls <- PostTags
  Databases <- Everything
  Changes <- Edits
  MaxChanges = 1
  ParameterLimit = 6
  WriteFaults = {"reply"}
  Requests <- Lists
  KeyBudget = 2
  ReadFaults = {"query"}
  Queries <- AskedLists
SYMMETRY Symmetric
INVARIANTS
  AffectedAccountsForJunction
  ChildrenAreTheRowsRead
  CollectionsKeepTheirOrder
  BatchesMatchTheirMetadata
PROPERTIES
  OnlyNamedPairsChange
  PageIsTheQuery
  CountIsTheQuery
CHECK_DEADLOCK FALSE
