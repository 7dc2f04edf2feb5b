CONSTANTS
  Id = {"a", "b"}
  Legacy = {"b"}
  Content <- MCContent
  Savable <- MCSavable
  None = None
  Torn = Torn
  Xml = Xml
  RetryId = "a"
  RetryContent = "route"
  MaxFaults = 2
  Document <- MCDocument
  Class <- Classes
  ClassTree <- BuiltClass
  BodyTree <- BuiltBody
  Registry <- MCRegistry
  StateClass <- MCStateClass
  Accepts <- MCAccepts
  Composed <- MCComposed
  NoName = NoName
  Invalid = Invalid
  NoTree = Invalid
SPECIFICATION FairDispatchSpec
CHECK_DEADLOCK FALSE
INVARIANTS SavedIsCommitted NoTornCommit DispatchSeesSave ChartExplained
PROPERTIES RetriedSaveLands
