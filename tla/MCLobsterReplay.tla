-------------------------- MODULE MCLobsterReplay --------------------------
(* Messages of every type over small books, sound and unsound ones.        *)
EXTENDS LobsterReplay

CONSTANTS id1, id2, id3

MCIds == {id1, id2, id3}
MCIdSymmetry == Permutations(MCIds)
MCPrices == 1 .. 2
MCQuantities == 0 .. 2

MCMessages ==
  [type : {1}, order_id : MCIds, size : MCQuantities, price : MCPrices,
   direction : {1, -1}]
  \cup [type : 2 .. 4, order_id : MCIds, size : MCQuantities, price : {1},
        direction : {0}]
  \cup [type : 5 .. 8, order_id : {id1}, size : {1}, price : {1}, direction : {0}]
=============================================================================
