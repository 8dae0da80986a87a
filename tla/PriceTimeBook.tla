--------------------------- MODULE PriceTimeBook ---------------------------
(***************************************************************************)
(* What an order book promises, with no pool, lists, maps or index: a set  *)
(* of resting orders, each with the number of its arrival.  An incoming    *)
(* order trades, as long as it has quantity left and some resting order    *)
(* crosses it, with the resting order that comes first by price and then   *)
(* by arrival; what is left of it goes to rest, behind everything at its   *)
(* price.  A resting order can be withdrawn or reduced between two         *)
(* incoming ones, and a reduction keeps its place.                         *)
(*                                                                         *)
(* OrderBookRefinement shows that OrderBook implements this module.        *)
(***************************************************************************)
EXTENDS Integers, Sequences

CONSTANTS Ids, Prices, Quantities

VARIABLES
  resting,   \* resting order id -> its side, price, quantity and arrival
  incoming,  \* the order being matched, NoOrder between two of them
  left,      \* the quantity it has left
  trades,    \* its trades so far
  clock      \* the next arrival number

vars == <<resting, incoming, left, trades, clock>>

Order == [id : Ids, side : {"Buy", "Sell"}, price : Prices,
          quantity : Quantities]
NoOrder == <<>>
NothingRests == [id \in {} |-> NoOrder]

----------------------------------------------------------------------------
(* The other side of the book, seen from the incoming order.               *)

Crossing(o, r) ==
  /\ r.side # o.side
  /\ IF o.side = "Buy" THEN r.price <= o.price ELSE r.price >= o.price

(* r is served before q, an order of the same side.                        *)
Before(r, q) ==
  \/ IF r.side = "Buy" THEN r.price > q.price ELSE r.price < q.price
  \/ r.price = q.price /\ r.arrival < q.arrival

First(id) ==
  \A other \in DOMAIN resting \ {id} :
    resting[other].side = resting[id].side =>
      Before(resting[id], resting[other])

Without(id) == [other \in DOMAIN resting \ {id} |-> resting[other]]

TradeWith(id, quantity) ==
  [resting |-> id, aggressive |-> incoming.id,
   price |-> resting[id].price, quantity |-> quantity]

----------------------------------------------------------------------------
Accept(o) ==
  /\ incoming = NoOrder
  /\ o.quantity > 0
  /\ o.id \notin DOMAIN resting
  /\ incoming' = o
  /\ left' = o.quantity
  /\ UNCHANGED <<resting, trades, clock>>

(* The incoming order takes part of the first resting order ...            *)
TakePart(id) ==
  /\ incoming # NoOrder
  /\ Crossing(incoming, resting[id])
  /\ First(id)
  /\ 0 < left /\ left < resting[id].quantity
  /\ trades' = Append(trades, TradeWith(id, left))
  /\ resting' = [resting EXCEPT ![id].quantity = @ - left]
  /\ left' = 0
  /\ UNCHANGED <<incoming, clock>>

(* ... or all of it.                                                       *)
TakeWhole(id) ==
  /\ incoming # NoOrder
  /\ Crossing(incoming, resting[id])
  /\ First(id)
  /\ left > 0 /\ left >= resting[id].quantity
  /\ trades' = Append(trades, TradeWith(id, resting[id].quantity))
  /\ resting' = Without(id)
  /\ left' = left - resting[id].quantity
  /\ UNCHANGED <<incoming, clock>>

Leave ==
  /\ incoming # NoOrder
  /\ left = 0
  /\ incoming' = NoOrder
  /\ trades' = <<>>
  /\ UNCHANGED <<resting, left, clock>>

Rest ==
  /\ incoming # NoOrder
  /\ left > 0
  /\ \A id \in DOMAIN resting : ~Crossing(incoming, resting[id])
  /\ resting' = [id \in DOMAIN resting \cup {incoming.id} |->
                   IF id = incoming.id
                   THEN [side |-> incoming.side, price |-> incoming.price,
                         quantity |-> left, arrival |-> clock]
                   ELSE resting[id]]
  /\ clock' = clock + 1
  /\ incoming' = NoOrder
  /\ left' = 0
  /\ trades' = <<>>

Withdraw(id) ==
  /\ incoming = NoOrder
  /\ resting' = Without(id)
  /\ UNCHANGED <<incoming, left, trades, clock>>

Reduce(id, quantity) ==
  /\ incoming = NoOrder
  /\ 0 < quantity /\ quantity < resting[id].quantity
  /\ resting' = [resting EXCEPT ![id].quantity = @ - quantity]
  /\ UNCHANGED <<incoming, left, trades, clock>>

----------------------------------------------------------------------------
Init ==
  /\ resting = NothingRests
  /\ incoming = NoOrder
  /\ left = 0
  /\ trades = <<>>
  /\ clock = 0

Next ==
  \/ \E o \in Order : Accept(o)
  \/ Leave \/ Rest
  \/ \E id \in DOMAIN resting :
       \/ TakePart(id)
       \/ TakeWhole(id)
       \/ Withdraw(id)
       \/ \E quantity \in Quantities : Reduce(id, quantity)

Spec == Init /\ [][Next]_vars
=============================================================================
