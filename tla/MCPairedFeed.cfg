\* Any pair of files of three rows, after up to two orders that rest earlier.
CONSTANTS
  id1 = id1
  id2 = id2
  id3 = id3
  Ids <- MCIds
  Prices <- MCPrices
  Quantities <- MCQuantities
  Messages <- MCMessages
  Depths <- MCDepths
  UsedOrders <- MCUsedOrders
  MaxUsed = 1
  MaxArrivals = 4
  MaxRows = 3
  MaxEarlier = 2
  MaxGaps = 1

SPECIFICATION FeedSpec
SYMMETRY MCIdSymmetry
\* The validator has returned or thrown when it stops.
CHECK_DEADLOCK FALSE

INVARIANTS
  MirrorsExchange
  NoFalseAlarm
  ValidationConsistent
PROPERTIES
  VerdictExact
  FirstRowKept
  TransitionsAccepted
