\* Four ids, so that one order can sweep three others.
CONSTANTS
  id1 = id1
  id2 = id2
  id3 = id3
  id4 = id4
  Ids <- MCIds
  Prices <- MCPrices
  Quantities <- MCQuantities
  MaxArrivals = 4

SPECIFICATION Spec
SYMMETRY MCIdSymmetry

PROPERTIES
  ImplementsPriceTimeBook
