SPECIFICATION Spec
CONSTANTS
  BufSize = 144
  Device <- Both
  Name <- Names
  Cases <- TheCases
  ObjectLists <- Objects2
  Replies <- TheReplies
  Values <- TheValues
  IntrospectId <- TheIntrospectIds
  PropertiesIface <- TheProperties
INVARIANTS TypeOK ReadIsWritten FramingKept NotInTheClear ChildrenListed
PROPERTIES Understood
CHECK_DEADLOCK FALSE
