\* Termination of add_order: no symmetry, the property is a temporal one.
CONSTANTS
  id1 = id1
  id2 = id2
  id3 = id3
  Ids <- MCIds
  Prices <- MCPrices
  Quantities <- MCQuantities
  MaxArrivals = 3

SPECIFICATION FairSpec

PROPERTIES
  CallReturns
