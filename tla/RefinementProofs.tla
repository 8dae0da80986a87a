-------------------------- MODULE RefinementProofs --------------------------
(***************************************************************************)
(* The order book implements PriceTimeBook, for all ids, prices,           *)
(* quantities and call sequences: every step of the code's data structures *)
(* is, read through RestingOrders, a step of the abstract book or none.    *)
(***************************************************************************)
EXTENDS OrderBookRefinement, OrderBookProofs

----------------------------------------------------------------------------
(* The abstract book relies on the distinct arrival numbers of ViewInv, and *)
(* on one fact more: no trades are left over from the last call.           *)

NoTradesLeft == pc = "idle" => trades = <<>>

RefinementInv == ViewInv /\ NoTradesLeft

LEMMA NoTradesLeftNext ==
  ASSUME NoTradesLeft, [Next]_vars
  PROVE  NoTradesLeft'
BY DEF NoTradesLeft, Next, CallStep, AddOrder, RejectOrder, MatchLevel,
   FillPart, FillWhole, EndLevel, ReturnFilled, RestRemainder, CancelOrder,
   CancelMissing, RemoveOrder, ReduceOrder, ReduceToNothing, ReduceRefused,
   vars, callVars

LEMMA RefinementInvInit == Init => RefinementInv
BY ViewInvInit DEF Init, NoTradesLeft, RefinementInv

LEMMA RefinementInvNext == RefinementInv /\ [Next]_vars => RefinementInv'
BY ViewInvNext, NoTradesLeftNext DEF RefinementInv

----------------------------------------------------------------------------
(* RestingOrders, and what a step makes of it.                             *)

LEMMA RestingFacts ==
  ASSUME TypeOK, SlotsAccounted
  PROVE  /\ DOMAIN RestingOrders = DOMAIN order_location
         /\ \A s \in Located :
              /\ pool[s].id \in DOMAIN RestingOrders
              /\ RestingOrders[pool[s].id].side = pool[s].side
              /\ RestingOrders[pool[s].id].price = pool[s].price
              /\ RestingOrders[pool[s].id].quantity = pool[s].quantity
              /\ RestingOrders[pool[s].id].arrival = arrival[s]
BY LocatedFacts DEF RestingOrders, Slot

(* Only the quantity of one order changes.                                 *)
LEMMA QuantityTaken ==
  ASSUME TypeOK, SlotsAccounted, SameLists,
         NEW i \in Located, NEW quantity \in Int,
         pool'[i].quantity = pool[i].quantity - quantity,
         \A s \in Slots \ {i} : pool'[s] = pool[s]
  PROVE  RestingOrders' =
           [RestingOrders EXCEPT ![pool[i].id].quantity = @ - quantity]
<1> DEFINE R == RestingOrders
           id == pool[i].id
<1>1. /\ DOMAIN R' = DOMAIN R
      /\ id \in DOMAIN R /\ order_location[id] = i
      /\ order_location' = order_location
  BY RestingFacts, LocatedFacts DEF SameLists, RestingOrders
<1>2. \A other \in DOMAIN R :
        /\ order_location[other] \in Slots
        /\ order_location[other] = i => other = id
  BY LocatedFacts DEF RestingOrders
<1>3. \A other \in DOMAIN R \ {id} : R'[other] = R[other]
  BY <1>1, <1>2 DEF RestingOrders, Slot, SameLists
<1>4. R'[id] = [side |-> pool[i].side, price |-> pool[i].price,
                quantity |-> pool[i].quantity - quantity,
                arrival |-> arrival[i]]
  BY <1>1, <1>2 DEF RestingOrders, Slot, SameLists
<1>5. R[id] = [side |-> pool[i].side, price |-> pool[i].price,
               quantity |-> pool[i].quantity, arrival |-> arrival[i]]
  BY <1>1 DEF RestingOrders, Slot
<1>6. R'[id] = [R[id] EXCEPT !.quantity = @ - quantity]
  BY <1>4, <1>5
<1>7. R' = [other \in DOMAIN R |-> R'[other]]
  BY <1>1 DEF RestingOrders
<1>8. R = [other \in DOMAIN R |-> R[other]]
  BY DEF RestingOrders
<1>9. QED
  BY <1>1, <1>3, <1>6, <1>7, <1>8

(* One order leaves.                                                       *)
LEMMA OrderTaken ==
  ASSUME TypeOK, SlotsAccounted, NEW i \in Located, Unlinks(i),
         order_location' = Erase(order_location, pool[i].id),
         \A s \in Slots \ {i} : pool'[s].quantity = pool[s].quantity
  PROVE  RestingOrders' = Abstract!Without(pool[i].id)
<1> DEFINE id == pool[i].id
<1>1. /\ DOMAIN order_location' = DOMAIN order_location \ {id}
      /\ \A other \in DOMAIN order_location' :
           order_location'[other] = order_location[other]
  BY DEF Erase, Restrict
<1>2. \A other \in DOMAIN order_location \ {id} :
        order_location[other] \in Slots \ {i}
  BY LocatedFacts
<1>3. \A other \in DOMAIN order_location \ {id} :
        RestingOrders'[other] = RestingOrders[other]
  <2>1. /\ arrival' = arrival
        /\ \A s \in Slots \ {i} : /\ pool'[s].side = pool[s].side
                                  /\ pool'[s].price = pool[s].price
                                  /\ pool'[s].quantity = pool[s].quantity
    BY DEF Unlinks
  <2>2. ASSUME NEW other \in DOMAIN order_location \ {id}
        PROVE  RestingOrders'[other] = RestingOrders[other]
    <3>1. /\ other \in DOMAIN order_location'
          /\ order_location'[other] = order_location[other]
          /\ order_location[other] \in Slots \ {i}
      BY <1>1, <1>2, <2>2
    <3>2. RestingOrders[other] =
            [side |-> pool[order_location[other]].side,
             price |-> pool[order_location[other]].price,
             quantity |-> pool[order_location[other]].quantity,
             arrival |-> arrival[order_location[other]]]
      BY <2>2 DEF RestingOrders, Slot
    <3>3. RestingOrders'[other] =
            [side |-> pool'[order_location[other]].side,
             price |-> pool'[order_location[other]].price,
             quantity |-> pool'[order_location[other]].quantity,
             arrival |-> arrival[order_location[other]]]
      BY <2>1, <3>1 DEF RestingOrders, Slot
    <3>4. QED
      BY <2>1, <3>1, <3>2, <3>3
  <2>3. QED
    BY <2>2
<1>4. QED
  BY <1>1, <1>3 DEF Abstract!Without, RestingOrders

----------------------------------------------------------------------------
(* Each step of the code is a step of the abstract book or none.           *)

LEMMA OrderIsSome ==
  ASSUME NEW o \in Order
  PROVE  o # NoOrder
<1>1. "id" \in DOMAIN o
  BY DEF Order
<1>2. DOMAIN NoOrder = {}
  BY EmptySeq, LenProperties DEF NoOrder
<1>3. QED
  BY <1>1, <1>2

(* While it fills, the order at the cursor is the first of its side, and it*)
(* crosses the incoming one.                                               *)
LEMMA CursorIsNext ==
  ASSUME RefinementInv, pc = "fill", current # kInvalid
  PROVE  /\ order # NoOrder
         /\ current \in Located
         /\ pool[current].id \in DOMAIN RestingOrders
         /\ RestingOrders[pool[current].id].quantity = pool[current].quantity
         /\ RestingOrders[pool[current].id].price = pool[current].price
         /\ Abstract!Crossing(order, RestingOrders[pool[current].id])
         /\ Abstract!First(pool[current].id)
<1> DEFINE id == pool[current].id
           side == Opposite(order.side)
           R == RestingOrders
<1>1. BookInv /\ TypeOK /\ SlotsAccounted
  BY DEF RefinementInv, ViewInv, BookInv
<1>2. /\ order \in Order /\ side \in Side
      /\ current \in Located
      /\ pool[current].side = side /\ pool[current].price = level_it
  BY <1>1, CursorFacts, CursorTypes
<1>3. order # NoOrder
  BY <1>2, OrderIsSome
<1>4. /\ DOMAIN R = DOMAIN order_location /\ id \in DOMAIN R
      /\ \A s \in Located : /\ R[pool[s].id].side = pool[s].side
                            /\ R[pool[s].id].price = pool[s].price
                            /\ R[pool[s].id].quantity = pool[s].quantity
                            /\ R[pool[s].id].arrival = arrival[s]
  BY <1>1, <1>2, RestingFacts
<1> HIDE DEF R
<1>5. /\ R[id].side = side
      /\ R[id].price = pool[current].price
      /\ R[id].quantity = pool[current].quantity
      /\ R[id].arrival = arrival[current]
  BY <1>2, <1>4
<1>6. Abstract!Crossing(order, R[id])
  <2>1. Crosses(order, level_it) /\ order.side \in Side
    BY <1>1, <1>2 DEF BookInv, SweepAtHead, Order
  <2>2. R[id].price = level_it /\ R[id].side # order.side
    BY <1>2, <1>5, <2>1 DEF Opposite, Side
  <2> HIDE DEF id
  <2>3. QED
    BY <2>1, <2>2 DEF Abstract!Crossing, Crosses
<1>7. ASSUME NEW other \in DOMAIN R \ {id}, R[other].side = R[id].side
      PROVE  Abstract!Before(R[id], R[other])
  <2> DEFINE s == order_location[other]
  <2>1. s \in Located /\ pool[s].id = other /\ s # current
    BY <1>1, <1>4, <1>7, LocatedFacts
  <2>2. /\ R[other].side = pool[s].side
        /\ R[other].price = pool[s].price
        /\ R[other].arrival = arrival[s]
    BY <1>4, <2>1
  <2>3. Precedes(current, s)
    BY <1>1, <1>5, <1>7, <2>1, <2>2, CursorIsFirst
  <2>4. arrival[s] # arrival[current]
    BY <1>2, <2>1 DEF RefinementInv, ViewInv, ArrivalsDistinct
  <2>5. arrival[s] \in Nat /\ arrival[current] \in Nat
    BY <1>1, <1>2, <2>1, NodeFacts DEF BookInv
  <2> HIDE DEF id, s
  <2>6. QED
    BY <1>2, <1>5, <2>2, <2>3, <2>4, <2>5
       DEF Precedes, Better, Abstract!Before
<1>8. Abstract!First(id)
  BY <1>7 DEF Abstract!First, R
<1>9. QED
  BY <1>2, <1>3, <1>4, <1>5, <1>6, <1>8 DEF R

LEMMA FillPartIsTakePart ==
  ASSUME RefinementInv, FillPart
  PROVE  Abstract!TakePart(pool[current].id)
<1> DEFINE id == pool[current].id
<1>1. /\ order # NoOrder
      /\ current \in Located
      /\ RestingOrders[id].quantity = pool[current].quantity
      /\ RestingOrders[id].price = pool[current].price
      /\ Abstract!Crossing(order, RestingOrders[id])
      /\ Abstract!First(id)
  BY CursorIsNext DEF FillPart
<1>2. TypeOK /\ SlotsAccounted /\ remaining \in Int
  BY DEF RefinementInv, ViewInv, BookInv, TypeOK
<1>3. RestingOrders' =
        [RestingOrders EXCEPT ![id].quantity = @ - remaining]
  BY <1>1, <1>2, FillPartSameLists, QuantityTaken
<1>4. trades' = Append(trades, Abstract!TradeWith(id, remaining))
  BY <1>1 DEF FillPart, TradeWith, Abstract!TradeWith
<1>5. QED
  BY <1>1, <1>3, <1>4 DEF FillPart, Abstract!TakePart, Abstract!NoOrder, NoOrder

LEMMA FillWholeIsTakeWhole ==
  ASSUME RefinementInv, FillWhole
  PROVE  Abstract!TakeWhole(pool[current].id)
<1> DEFINE id == pool[current].id
<1>1. /\ order # NoOrder
      /\ current \in Located
      /\ RestingOrders[id].quantity = pool[current].quantity
      /\ RestingOrders[id].price = pool[current].price
      /\ Abstract!Crossing(order, RestingOrders[id])
      /\ Abstract!First(id)
  BY CursorIsNext DEF FillWhole
<1>2. BookInv /\ TypeOK /\ SlotsAccounted
  BY DEF RefinementInv, ViewInv, BookInv
<1>3. RestingOrders' = Abstract!Without(id)
  <2>1. order_location' = Erase(order_location, id)
    BY DEF FillWhole
  <2>2. QED
    BY <1>1, <1>2, <2>1, FillWholeUnlinks, OrderTaken
<1>4. trades' =
        Append(trades, Abstract!TradeWith(id, RestingOrders[id].quantity))
  BY <1>1 DEF FillWhole, TradeWith, Abstract!TradeWith
<1>5. QED
  BY <1>1, <1>3, <1>4
     DEF FillWhole, Abstract!TakeWhole, Abstract!NoOrder, NoOrder

LEMMA RestRemainderIsRest ==
  ASSUME RefinementInv, RestRemainder
  PROVE  Abstract!Rest
<1> DEFINE i == AllocatedSlot
           R == RestingOrders
<1>1. BookInv /\ TypeOK /\ SlotsAccounted
  BY DEF RefinementInv, ViewInv, BookInv
<1>2. /\ order \in Order /\ order # NoOrder
      /\ order.id \notin DOMAIN order_location
  BY <1>1, OrderIsSome DEF BookInv, TypeOK, SweepAtHead, RestRemainder
<1>3. /\ i \notin Located
      /\ Slots' = Slots \cup {i}
  BY <1>1, <1>2, RestAccounted
<1>4. /\ DOMAIN order_location' = DOMAIN order_location \cup {order.id}
      /\ order_location'[order.id] = i
      /\ \A id \in DOMAIN order_location :
           /\ order_location'[id] = order_location[id]
           /\ order_location[id] \in Slots \ {i}
  BY <1>1, <1>2, <1>3, LocatedFacts DEF RestRemainder, Insert
<1>5. ASSUME NEW id \in DOMAIN order_location
      PROVE  R'[id] = R[id]
  <2> DEFINE s == order_location[id]
  <2>1. s \in Slots /\ s # i /\ pool[s] \in OrderNode
    BY <1>1, <1>4, PoolFacts
  <2>2. arrival'[s] = arrival[s]
    BY <1>1, <2>1 DEF RestRemainder, Insert, TypeOK
  <2>3. /\ pool'[s].side = pool[s].side
        /\ pool'[s].price = pool[s].price
        /\ pool'[s].quantity = pool[s].quantity
    BY <2>1 DEF RestRemainder, AppendedPool, OrderNode
  <2>4. QED
    BY <1>4, <2>2, <2>3 DEF RestingOrders, Slot
<1>6. R'[order.id] = [side |-> order.side, price |-> order.price,
                      quantity |-> remaining, arrival |-> clock]
  <2>1. /\ pool'[i].side = order.side
        /\ pool'[i].price = order.price
        /\ pool'[i].quantity = remaining
    BY DEF RestRemainder, AppendedPool
  <2>2. arrival'[i] = clock
    BY DEF RestRemainder, Insert
  <2>3. QED
    BY <1>4, <2>1, <2>2 DEF RestingOrders, Slot
<1>7. R' = [id \in DOMAIN R \cup {order.id} |->
              IF id = order.id
              THEN [side |-> order.side, price |-> order.price,
                    quantity |-> remaining, arrival |-> clock]
              ELSE R[id]]
  <2>1. DOMAIN R = DOMAIN order_location
    BY DEF RestingOrders
  <2>2. R' = [id \in DOMAIN R \cup {order.id} |-> R'[id]]
    BY <1>4, <2>1 DEF RestingOrders
  <2> HIDE DEF R
  <2>3. QED
    BY <1>2, <1>5, <1>6, <2>1, <2>2
<1>8. ASSUME NEW id \in DOMAIN R
      PROVE  ~Abstract!Crossing(order, R[id])
  <2> DEFINE s == order_location[id]
  <2>1. /\ s \in Located
        /\ R[id].side = pool[s].side /\ R[id].price = pool[s].price
    BY <1>1, <1>8, LocatedFacts DEF RestingOrders, Slot
  <2>2. pool[s].side \in Side /\ pool[s].price \in DOMAIN levels[pool[s].side]
    BY <1>1, <2>1, NodeFacts DEF BookInv
  <2>3. order.side \in Side
    BY <1>2 DEF Order
  <2>4. pool[s].side # order.side => ~Crosses(order, pool[s].price)
    BY <1>1, <2>2, <2>3, NoneCrosses DEF Opposite, Side
  <2> HIDE DEF R, s
  <2>5. QED
    BY <2>1, <2>4 DEF Abstract!Crossing, Crosses
<1>9. QED
  BY <1>2, <1>7, <1>8 DEF RestRemainder, Abstract!Rest, Abstract!NoOrder, NoOrder

LEMMA RemoveOrderIsWithdraw ==
  ASSUME RefinementInv, pc = "idle", NEW id, CanCancel(id), RemoveOrder(id)
  PROVE  id \in DOMAIN RestingOrders /\ Abstract!Withdraw(id)
<1> DEFINE i == order_location[id]
<1>1. BookInv /\ TypeOK /\ SlotsAccounted /\ order = NoOrder
  BY DEF RefinementInv, ViewInv, BookInv, TypeOK
<1>2. /\ i \in Located /\ pool[i].id = id
      /\ Unlinks(i)
      /\ \A s \in Slots : pool'[s].quantity = pool[s].quantity
  BY <1>1, RemoveOrderUnlinks
<1>3. order_location' = Erase(order_location, id)
  BY DEF RemoveOrder
<1>4. RestingOrders' = Abstract!Without(id)
  BY <1>1, <1>2, <1>3, OrderTaken
<1>5. id \in DOMAIN RestingOrders
  BY DEF CanCancel, RestingOrders
<1>6. QED
  BY <1>1, <1>4, <1>5
     DEF RemoveOrder, callVars, Abstract!Withdraw, Abstract!NoOrder, NoOrder

LEMMA ReduceOrderIsReduce ==
  ASSUME RefinementInv, NEW id, NEW quantity \in Quantities,
         ReduceOrder(id, quantity)
  PROVE  id \in DOMAIN RestingOrders /\ Abstract!Reduce(id, quantity)
<1> DEFINE i == order_location[id]
<1>1. TypeOK /\ SlotsAccounted /\ order = NoOrder /\ quantity \in Int
  BY QuantitiesAssumption DEF RefinementInv, ViewInv, BookInv, TypeOK, ReduceOrder
<1>2. /\ SameLists
      /\ id \in DOMAIN order_location /\ i \in Slots
      /\ 0 < quantity /\ quantity < pool[i].quantity
      /\ pool'[i].quantity = pool[i].quantity - quantity
      /\ \A s \in Slots \ {i} : pool'[s] = pool[s]
  BY <1>1, ReduceOrderSameLists
<1>3. i \in Located /\ pool[i].id = id
  BY <1>1, <1>2, LocatedFacts
<1>4. RestingOrders' = [RestingOrders EXCEPT ![id].quantity = @ - quantity]
  <2> HIDE DEF i
  <2>1. RestingOrders' =
          [RestingOrders EXCEPT ![pool[i].id].quantity = @ - quantity]
    BY <1>1, <1>2, <1>3, QuantityTaken
  <2>2. QED
    BY <1>3, <2>1
<1>5. RestingOrders[id].quantity = pool[i].quantity
  BY <1>2 DEF RestingOrders, Slot
<1>6. id \in DOMAIN RestingOrders
  BY <1>2 DEF RestingOrders
<1>7. QED
  BY <1>1, <1>2, <1>4, <1>5, <1>6
     DEF ReduceOrder, callVars, Abstract!Reduce, Abstract!NoOrder, NoOrder

LEMMA AddOrderIsAccept ==
  ASSUME RefinementInv, NEW o \in Order, AddOrder(o)
  PROVE  Abstract!Accept(o)
<1>1. /\ order = NoOrder /\ trades = <<>>
      /\ DOMAIN RestingOrders = DOMAIN order_location
  BY DEF RefinementInv, ViewInv, NoTradesLeft, BookInv, TypeOK, AddOrder, RestingOrders
<1>2. RestingOrders' = RestingOrders
  BY DEF AddOrder, bookVars, RestingOrders, Slot
<1>3. QED
  BY <1>1, <1>2
     DEF AddOrder, bookVars, Abstract!Accept, Abstract!NoOrder, NoOrder

LEMMA ReturnFilledIsLeave ==
  ASSUME RefinementInv, ReturnFilled
  PROVE  Abstract!Leave
<1>1. order # NoOrder
  BY OrderIsSome DEF RefinementInv, ViewInv, BookInv, TypeOK, ReturnFilled
<1>2. RestingOrders' = RestingOrders
  BY DEF ReturnFilled, bookVars, RestingOrders, Slot
<1>3. QED
  BY <1>1, <1>2
     DEF ReturnFilled, bookVars, Abstract!Leave, Abstract!NoOrder, NoOrder

LEMMA SilentSteps ==
  ASSUME MatchLevel \/ EndLevel \/ UNCHANGED vars
  PROVE  UNCHANGED Abstract!vars
BY DEF MatchLevel, EndLevel, vars, bookVars, callVars, Abstract!vars,
       RestingOrders, Slot

LEMMA AbstractInit == Init => Abstract!Init
BY DEF Init, Abstract!Init, Abstract!NothingRests, Abstract!NoOrder,
       RestingOrders, EmptyMap, NoOrder

LEMMA AbstractNext ==
  ASSUME RefinementInv, [Next]_vars
  PROVE  [Abstract!Next]_(Abstract!vars)
<1>1. CASE MatchLevel \/ EndLevel \/ UNCHANGED vars
  BY <1>1, SilentSteps
<1>2. ASSUME NEW o \in Order, AddOrder(o)
      PROVE  Abstract!Next
  <2>1. o \in Abstract!Order
    BY DEF Order, Side, Abstract!Order
  <2>2. QED
    BY <1>2, <2>1, AddOrderIsAccept DEF Abstract!Next
<1>3. ASSUME FillPart \/ FillWhole
      PROVE  Abstract!Next
  <2>1. pool[current].id \in DOMAIN RestingOrders
    BY <1>3, CursorIsNext DEF FillPart, FillWhole
  <2>2. QED
    BY <1>3, <2>1, FillPartIsTakePart, FillWholeIsTakeWhole DEF Abstract!Next
<1>4. ReturnFilled \/ RestRemainder => Abstract!Next
  BY ReturnFilledIsLeave, RestRemainderIsRest DEF Abstract!Next
<1>5. ASSUME NEW id, CancelOrder(id)
      PROVE  Abstract!Next
  BY <1>5, RemoveOrderIsWithdraw DEF CancelOrder, Abstract!Next
<1>6. ASSUME NEW id, NEW quantity, ReduceToNothing(id, quantity)
      PROVE  Abstract!Next
  BY <1>6, RemoveOrderIsWithdraw DEF ReduceToNothing, Abstract!Next
<1>7. ASSUME NEW id, NEW quantity \in Quantities, ReduceOrder(id, quantity)
      PROVE  Abstract!Next
  BY <1>7, ReduceOrderIsReduce DEF Abstract!Next
<1>8. QED
  BY <1>1, <1>2, <1>3, <1>4, <1>5, <1>6, <1>7
     DEF Next, CallStep, RejectOrder, CancelMissing, ReduceRefused

(* The order book is a price-time priority book: every behaviour of its    *)
(* pool, lists, maps and index is a behaviour of PriceTimeBook, which has  *)
(* none of them.                                                           *)
THEOREM BookImplementsPriceTimeBook == Spec => ImplementsPriceTimeBook
<1>1. Spec => []RefinementInv
  BY RefinementInvInit, RefinementInvNext, PTL DEF Spec
<1>2. RefinementInv /\ [Next]_vars => [Abstract!Next]_(Abstract!vars)
  BY AbstractNext
<1>3. QED
  BY <1>1, <1>2, AbstractInit, PTL
     DEF Spec, ImplementsPriceTimeBook, Abstract!Spec
=============================================================================
