\* What the report says of unverifiable transitions.
CONSTANTS
  depth = 2
  MaxRows = 2
  Rows <- MCRows
  Messages <- MCMessages
  BookPrices <- MCBookPrices
  BookQuantities <- MCBookQuantities

SPECIFICATION Spec
CHECK_DEADLOCK FALSE

PROPERTIES
  UnverifiableConsistent
