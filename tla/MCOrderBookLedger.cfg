\* The book beside its ledger: three ids that can be reused, two prices.
CONSTANTS
  id1 = id1
  id2 = id2
  id3 = id3
  Ids <- MCIds
  Prices <- MCPrices
  Quantities <- MCQuantities
  MaxArrivals = 4

SPECIFICATION LedgerSpec
SYMMETRY MCIdSymmetry

INVARIANTS
  QuantityConserved
  PoolIsHighWaterMark
