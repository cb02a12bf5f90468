SPECIFICATION Spec
CONSTANTS
  w1 = w1
  w2 = w2
  Null = Null
  NotRead = NotRead
  NoJunction = NoJunction
  NoCall = NoCall
  NoRequest = NoRequest
  NoQuery = NoQuery
  Relation <- AllMappings
  SoftDelete = {"Tag", "Article", "Label", "Edge"}
  PrimaryKey <- Primary
  UniqueKeys <- Uniques
  Writers = {}
  RelationCalls <- PostTags
  Databases <- Blog
  Changes <- Edits
  MaxChanges = 0
  ParameterLimit = 6
  WriteFaults = {"reply"}
  Requests <- Nested
  KeyBudget = 2
  ReadFaults = {}
  Queries = {}
INVARIANT ChildrenAreTheRowsRead
CHECK_DEADLOCK FALSE
