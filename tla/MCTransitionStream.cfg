\* Longer files with rows of depth 1.
CONSTANTS
  depth = 1
  MaxRows = 4
  Rows <- MCShortRows
  Messages <- MCShortMessages
  BookPrices <- MCBookPrices
  BookQuantities <- MCBookQuantities

SPECIFICATION Spec
CHECK_DEADLOCK FALSE

INVARIANTS
  SummaryConsistent
PROPERTIES
  FirstMismatchKept
  MismatchUnexplained
