\* Four keys, pages of two, any number of changes between the pages.
SPECIFICATION FairSpec
CONSTANTS
  Keys = {k1, k2, k3, k4}
  HEAD = head
  NIL = nil
  LINKED_LIST_PAGINATION = 2
INVARIANTS
  CompleteRead
  NoRepetition
PROPERTIES
  ReadsEnd
