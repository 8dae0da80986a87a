\* Any file of five lines.
CONSTANTS
  id1 = id1
  id2 = id2
  id3 = id3
  Ids <- MCIds
  Prices <- MCPrices
  Quantities <- MCQuantities
  MaxArrivals = 4
  MaxRows = 5

SPECIFICATION ReplaySpec
SYMMETRY MCIdSymmetry
\* The replay has returned or thrown when it stops.
CHECK_DEADLOCK FALSE

INVARIANTS
  TotalsAgree
