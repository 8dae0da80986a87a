------------------------- MODULE MCOrderBookLedger -------------------------
(* Model values and small sets for the run of OrderBookLedger.             *)
EXTENDS OrderBookLedger

CONSTANTS id1, id2, id3

MCIds == {id1, id2, id3}
MCIdSymmetry == Permutations(MCIds)
MCPrices == 1 .. 2
MCQuantities == 1 .. 2
=============================================================================
