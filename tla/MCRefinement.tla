--------------------------- MODULE MCRefinement ----------------------------
(* Small sets for the refinement run.                                       *)
EXTENDS OrderBookRefinement

CONSTANTS id1, id2, id3, id4

MCIds == {id1, id2, id3, id4}
MCIdSymmetry == Permutations(MCIds)
MCPrices == 1 .. 2
MCQuantities == 1 .. 2
=============================================================================
