\* What becomes of a submitted order, in any file of four messages.
CONSTANTS
  id1 = id1
  id2 = id2
  id3 = id3
  Ids <- MCIds
  Prices <- MCPrices
  Quantities <- MCQuantities
  Messages <- MCMessages
  MaxArrivals = 4
  MaxRows = 4

SPECIFICATION ReplaySpec
SYMMETRY MCIdSymmetry
\* The replay has returned or thrown when it stops.
CHECK_DEADLOCK FALSE

PROPERTIES
  NewOrderRests
