---------------------------- MODULE MCPairedFeed ----------------------------
(* Messages of every type about a few orders.                              *)
EXTENDS PairedFeed

CONSTANTS id1, id2, id3

MCIds == {id1, id2, id3}
MCIdSymmetry == Permutations(MCIds)
MCPrices == 1 .. 2
MCQuantities == 1 .. 2
MCDepths == 0 .. 2

(* One order of each id may have been in the caller's book.                *)
MCUsedOrders ==
  [id : MCIds, side : {"Buy"}, price : {1}, quantity : {1}]

MCMessages ==
  [type : 1 .. 4, order_id : MCIds, size : MCQuantities, price : MCPrices,
   direction : {1, -1}]
  \cup [type : {5}, order_id : {id1}, size : {1}, price : {1}, direction : {1}]
=============================================================================
