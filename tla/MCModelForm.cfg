CONSTANTS
  Padded <- Blanks
  Integers <- Whole
  DateTimes <- Times
  Formatted <- Layout
  Narrowed <- Bytes
  Cases <- MCCases
  Related <- MCRelated
  Typed <- MCTyped
  MaxPosts = 2
  Extra = {"ID", "Owner"}
  OwnErrors = {"", "Title"}
  Nullable = FALSE
SPECIFICATION Spec
CHECK_DEADLOCK FALSE
PROPERTIES SavedAsTyped StoredPermitted SavesSettle
