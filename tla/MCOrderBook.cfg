\* Three ids that can be reused, two prices, quantities around zero.
CONSTANTS
  id1 = id1
  id2 = id2
  id3 = id3
  Ids <- MCIds
  Prices <- MCPrices
  Quantities <- MCQuantities
  MaxArrivals = 4

SPECIFICATION Spec
SYMMETRY MCIdSymmetry

INVARIANTS
  TypeOK
  SlotsAccounted
  LevelsThreaded
  NothingExhausted
  NotCrossed
  SweepAtHead
  SweepAccounted
  SnapshotExact
PROPERTIES
  PriceTimePriority
  PlaceKept
