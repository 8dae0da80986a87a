\* One transition between any two of the rows MCRows, of up to two levels on
\* one side and one on the other, under any of the messages MCMessages.
CONSTANTS
  depth = 2
  MaxRows = 2
  Rows <- MCRows
  Messages <- MCMessages
  BookPrices <- MCBookPrices
  BookQuantities <- MCBookQuantities

SPECIFICATION Spec
\* The validator has returned or thrown when it stops.
CHECK_DEADLOCK FALSE

PROPERTIES
  MatchingExplained
  MismatchUnexplained
  UnverifiablePossible
  FirstMismatchKept
