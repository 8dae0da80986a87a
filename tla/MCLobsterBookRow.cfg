\* The lines of MCLobsterBookRow, over the values the parser tells apart.
CONSTANTS
  NotAnInteger = NotAnInteger
  Depths <- MCDepths
  Lines <- MCLines
  kEmptyAskPrice <- MCEmptyAskPrice
  kEmptyBidPrice <- MCEmptyBidPrice
  SizeMax <- MCSizeMax

SPECIFICATION Spec
\* The parser has returned or thrown when it stops.
CHECK_DEADLOCK FALSE

INVARIANTS
  TypeOK
  ReadsInsideLine
  RowExact
