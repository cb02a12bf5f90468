SPECIFICATION Spec
CONSTANTS
  w1 = w1
  w2 = w2
  Null = Null
  NotRead = NotRead
  NoJunction = NoJunction
  NoCall = NoCall
  NoRequest = NoRequest
  NoQuery = NoQuery
  Relation <- AllMappings
  SoftDelete = {"Tag", "Article", "Label", "Edge"}
  PrimaryKey <- Primary
  UniqueKeys <- Uniques
  Writers = {}
  RelationCalls <- PostTags
  Databases <- NullableKeys
  Changes <- Edits
  MaxChanges = 0
  ParameterLimit = 6
  WriteFaults = {"reply"}
  Requests = {}
  KeyBudget = 2
  ReadFaults = {}
  Queries <- InFrench
PROPERTY PageIsTheQuery
CHECK_DEADLOCK FALSE
