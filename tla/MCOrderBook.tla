---------------------------- MODULE MCOrderBook ----------------------------
(* Model values and small sets for the runs of OrderBook.                  *)
EXTENDS OrderBook

CONSTANTS id1, id2, id3

MCIds == {id1, id2, id3}
MCIdSymmetry == Permutations(MCIds)
MCPrices == 1 .. 2
MCQuantities == 0 .. 2
=============================================================================
