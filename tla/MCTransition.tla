---------------------------- MODULE MCTransition ----------------------------
(* Small ladders and messages for the runs of TransitionMeaning.           *)
EXTENDS TransitionMeaning

MCPrices == 1 .. 3
MCBookPrices == 1 .. 4
MCBookQuantities == 1 .. 2

Ladders(side, most, quantities) ==
  {levels \in UNION {[1 .. n -> [price : MCPrices, quantity : quantities]]
                       : n \in 0 .. most} :
     IsLadder(side, levels)}

(* Rows with any ladder of up to two levels on one side and at most one    *)
(* level on the other.                                                     *)
OneLevel == {<<>>, <<[price |-> 2, quantity |-> 1]>>}
MCRows ==
  {[bids |-> b, asks |-> a] : b \in Ladders("bids", 2, 1 .. 2), a \in OneLevel}
  \cup {[bids |-> b, asks |-> a] : b \in OneLevel, a \in Ladders("asks", 2, 1 .. 2)}

MCMessages ==
  [type : {1, 3}, direction : {1, -1}, price : 1 .. 4, size : 1 .. 2]
  \cup [type : {2, 4}, direction : {1, -1}, price : {2}, size : {1}]
  \cup [type : {5, 6, 8}, direction : {0}, price : {1}, size : {0}]
  \cup [type : {4}, direction : {0, 1}, price : {1}, size : {0}]

(* Rows of depth one, for longer files.                                    *)
MCShortRows ==
  {[bids |-> b, asks |-> a] :
     b \in {<<>>, <<[price |-> 1, quantity |-> 1]>>, <<[price |-> 2, quantity |-> 1]>>},
     a \in {<<>>, <<[price |-> 3, quantity |-> 1]>>}}
MCShortMessages ==
  [type : {1, 3}, direction : {1, -1}, price : {1, 3}, size : {1}]
  \cup [type : {4}, direction : {1}, price : {1}, size : {2}]
  \cup [type : {5, 7}, direction : {1}, price : {2}, size : {1}]
=============================================================================
