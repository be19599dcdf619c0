CONSTANTS
  SortKeys = {1}
  SortMaxLen = 0
  SortSizes = {1}
  SortSmall = 2
  Letters = {97, 98}
  TextMaxLen = 3
  WordMaxLen = 2
  NameWidth = 2
SPECIFICATION StringsSpec
CHECK_DEADLOCK FALSE
INVARIANTS WildcardMatches
