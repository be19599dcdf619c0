CONSTANTS
  Nodes = {1, 2, 3, 4, 5, 6, 7, 8}
  KeyOf <- MCKeyOf
  Keys = {0, 4}
  sentl = sentl
  NULL = NULL
SPECIFICATION Spec
INVARIANTS LinksAgree RedBlack WalkIsInOrder
PROPERTIES ImplementsOrderedList
