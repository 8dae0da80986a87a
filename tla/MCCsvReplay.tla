---------------------------- MODULE MCCsvReplay ----------------------------
(* Small sets for the run of CsvReplay.                                    *)
EXTENDS CsvReplay

CONSTANTS id1, id2, id3

MCIds == {id1, id2, id3}
MCIdSymmetry == Permutations(MCIds)
MCPrices == 1 .. 2
MCQuantities == 0 .. 2
=============================================================================
