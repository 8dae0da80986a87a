----------------------------- MODULE OrderBook -----------------------------
(***************************************************************************)
(* The limit order book of src/OrderBook.cpp: a slot pool threaded into    *)
(* one doubly-linked FIFO list per price level, two price-ordered maps of  *)
(* levels, a free list of slots and an index from order ids to slots.      *)
(*                                                                         *)
(* The book is a single-threaded object, so a call runs to completion      *)
(* before the next one starts.  cancel_order and reduce_order have no loop *)
(* and are one action each.  add_order loops, and is one action per loop   *)
(* iteration: pc says where the running call stands ("idle": no call), and *)
(* only that call's own steps are enabled until it returns.                *)
(*                                                                         *)
(* The code writes the Buy and the Sell half of every operation twice;     *)
(* here the side is a parameter.  Timestamps are copied into trades and    *)
(* never looked at, so they are left out.                                  *)
(*                                                                         *)
(* A definition introduced by "Bug:" is not part of the model: it is what  *)
(* a definition after it would be if the code had that bug, and is used to *)
(* see that a property would notice.                                       *)
(***************************************************************************)
EXTENDS Integers, FiniteSets, SequencesExt

CONSTANTS
  Ids,          \* order identifiers a caller may use
  Prices,       \* prices a caller may use, in ticks
  Quantities,   \* quantities a caller may pass, zero and negative ones too
  MaxArrivals   \* bound of the model: orders ever put to rest in the book

ASSUME PricesAssumption == Prices \subseteq Int
ASSUME QuantitiesAssumption == Quantities \subseteq Int
ASSUME MaxArrivalsAssumption == MaxArrivals \in Nat

VARIABLES
  pool,            \* pool_: sequence of nodes, slot i of the code is i + 1 here
  free_slots,      \* free_slots_: stack of released slots
  levels,          \* levels["Buy"] is bids_, levels["Sell"] is asks_
  order_location,  \* order_location_: resting order id -> slot
  pc,              \* where the running add_order stands
  order,           \* its argument
  remaining,       \* remaining.quantity
  trades,          \* the vector it will return
  level_it,        \* price of the level being swept, while pc = "fill"
  current,         \* cursor of the inner loop
  arrival,         \* history: arrival number of the order last put in each slot
  clock            \* history: next arrival number

bookVars == <<pool, free_slots, levels, order_location, arrival, clock>>
callVars == <<pc, order, remaining, trades, level_it, current>>
vars == <<bookVars, callVars>>

----------------------------------------------------------------------------
(* Data.                                                                   *)

Side == {"Buy", "Sell"}
Opposite(side) == IF side = "Buy" THEN "Sell" ELSE "Buy"

kInvalid == 0      \* the null slot; size_t(-1) in the code

Order == [id : Ids, side : Side, price : Prices, quantity : Quantities]
NoOrder == <<>>    \* order, while no call is running

Trade == [resting : Ids, aggressive : Ids, price : Prices, quantity : Int]

EmptyMap == [x \in {} |-> kInvalid]
Insert(map, key, value) ==
  [k \in DOMAIN map \cup {key} |-> IF k = key THEN value ELSE map[k]]
Erase(map, key) == Restrict(map, DOMAIN map \ {key})

Slots == 1 .. Len(pool)
Index == {kInvalid} \cup Slots
OrderNode == [id : Ids, side : Side, price : Prices, quantity : Int,
              prev : Index, next : Index]
PriceLevel == [head : Index, tail : Index, count : Int]

Slot(id) == pool[order_location[id]]
Located == Range(order_location)

----------------------------------------------------------------------------
(* Price order of the two maps, and the crossing test of add_order.        *)

Better(side, p, q) == IF side = "Buy" THEN p > q ELSE p < q

(* Bug: both maps are ordered as asks_ is.                                 *)
IsBeginAscending(side, p) ==
  p \in DOMAIN levels[side] /\ \A q \in DOMAIN levels[side] : p <= q

IsBegin(side, p) ==
  /\ p \in DOMAIN levels[side]
  /\ \A q \in DOMAIN levels[side] \ {p} : Better(side, p, q)

Crosses(o, p) == IF o.side = "Buy" THEN p <= o.price ELSE p >= o.price

----------------------------------------------------------------------------
(* What a caller can see between two calls: best_bid and best_ask (no      *)
(* element: nullopt), order_count, and a snapshot of the first levels.     *)

best_bid == {p \in Prices : IsBegin("Buy", p)}
best_ask == {p \in Prices : IsBegin("Sell", p)}
order_count == Cardinality(DOMAIN order_location)

(* The quantities met on the walk along the list from slot s to its end.   *)
Walked(s) ==
  LET sum[i \in Index] ==
        IF i = kInvalid THEN 0 ELSE pool[i].quantity + sum[pool[i].next]
  IN  sum[s]

(* The prices of a map of levels, from begin() to end().                   *)
InMapOrder(side, prices) ==
  CHOOSE s \in [1 .. Cardinality(prices) -> prices] :
    \A i, j \in DOMAIN s : i < j => Better(side, s[i], s[j])

SideSnapshot(side, depth) ==
  LET prices == InMapOrder(side, DOMAIN levels[side])
  IN  [i \in 1 .. Min({depth, Len(prices)}) |->
         [price |-> prices[i],
          quantity |-> Walked(levels[side][prices[i]].head)]]

snapshot(depth) == [bids |-> SideSnapshot("Buy", depth),
                    asks |-> SideSnapshot("Sell", depth)]

----------------------------------------------------------------------------
(* unlink_from_level: what it makes of the pool and of the level.          *)

(* Bug: the order behind the removed one still points back at it.          *)
UnlinkedPoolOneWay(i, nodes) ==
  [s \in DOMAIN nodes |->
     IF s = i THEN [nodes[s] EXCEPT !.prev = kInvalid, !.next = kInvalid]
     ELSE [nodes[s] EXCEPT
             !.next = IF s = nodes[i].prev THEN nodes[i].next ELSE @]]

UnlinkedPool(i, nodes) ==
  [s \in DOMAIN nodes |->
     IF s = i THEN [nodes[s] EXCEPT !.prev = kInvalid, !.next = kInvalid]
     ELSE [nodes[s] EXCEPT
             !.next = IF s = nodes[i].prev THEN nodes[i].next ELSE @,
             !.prev = IF s = nodes[i].next THEN nodes[i].prev ELSE @]]

(* Bug: the level keeps pointing at a removed head.                        *)
UnlinkedLevelKeepsHead(i, level) ==
  [head  |-> level.head,
   tail  |-> IF pool[i].next = kInvalid THEN pool[i].prev ELSE level.tail,
   count |-> level.count - 1]

UnlinkedLevel(i, level) ==
  [head  |-> IF pool[i].prev = kInvalid THEN pool[i].next ELSE level.head,
   tail  |-> IF pool[i].next = kInvalid THEN pool[i].prev ELSE level.tail,
   count |-> level.count - 1]

(* Bug: empty levels stay in the map.                                      *)
EraseIfEmptyNever(map, p, level) == [map EXCEPT ![p] = level]

EraseIfEmpty(map, p, level) ==
  IF level.count = 0 THEN Erase(map, p) ELSE [map EXCEPT ![p] = level]

----------------------------------------------------------------------------
(* allocate_slot and append_to_level: where an order goes, and what that   *)
(* makes of the pool and of its level.                                     *)

(* Bug: the slot is read at the wrong end of the free list.                *)
AllocatedSlotFront ==
  IF free_slots = <<>> THEN Len(pool) + 1 ELSE Head(free_slots)

(* Bug: released slots are not used again.                                 *)
AllocatedSlotAtEnd == Len(pool) + 1

(* The last released slot, or a new one at the end of the pool.            *)
AllocatedSlot ==
  IF free_slots = <<>> THEN Len(pool) + 1 ELSE Last(free_slots)

SlotsLeft == IF free_slots = <<>> THEN <<>> ELSE Front(free_slots)

(* bids_[price] and asks_[price] create an empty level when there is none. *)
LevelAt(side, p) ==
  IF p \in DOMAIN levels[side] THEN levels[side][p]
  ELSE [head |-> kInvalid, tail |-> kInvalid, count |-> 0]

(* Bug: the old tail does not learn of the order behind it.                *)
AppendedPoolUnlinked(i, o, quantity, level) ==
  [s \in Slots \cup {i} |->
     IF s = i
     THEN [id |-> o.id, side |-> o.side, price |-> o.price,
           quantity |-> quantity, prev |-> level.tail, next |-> kInvalid]
     ELSE pool[s]]

AppendedPool(i, o, quantity, level) ==
  [s \in Slots \cup {i} |->
     IF s = i
     THEN [id |-> o.id, side |-> o.side, price |-> o.price,
           quantity |-> quantity, prev |-> level.tail, next |-> kInvalid]
     ELSE [pool[s] EXCEPT !.next = IF s = level.tail THEN i ELSE @]]

(* Bug: every new order becomes the head of its level.                     *)
AppendedLevelNewestFirst(i, level) ==
  [head |-> i, tail |-> i, count |-> level.count + 1]

(* Bug: the first order of a level is taken to be in the newest slot.      *)
AppendedLevelNewestSlot(i, level) ==
  [head  |-> IF level.tail = kInvalid THEN Len(pool) + 1 ELSE level.head,
   tail  |-> i,
   count |-> level.count + 1]

AppendedLevel(i, level) ==
  [head  |-> IF level.tail = kInvalid THEN i ELSE level.head,
   tail  |-> i,
   count |-> level.count + 1]

----------------------------------------------------------------------------
(* add_order.                                                              *)

(* Entry: an acceptable order starts the matching loop ...                 *)
AddOrder(o) ==
  /\ pc = "idle"
  /\ o.quantity > 0
  /\ o.id \notin DOMAIN order_location
  /\ clock < MaxArrivals
  /\ pc' = "match"
  /\ order' = o
  /\ remaining' = o.quantity
  /\ trades' = <<>>
  /\ UNCHANGED <<bookVars, level_it, current>>

(* ... and any other returns no trades and leaves the book alone.          *)
RejectOrder(o) ==
  /\ pc = "idle"
  /\ o.quantity <= 0 \/ o.id \in DOMAIN order_location
  /\ UNCHANGED vars

(* Outer loop: the best opposite level crosses, sweep it from its head.    *)
MatchLevel ==
  /\ pc = "match"
  /\ remaining > 0
  /\ \E p \in DOMAIN levels[Opposite(order.side)] :
       /\ IsBegin(Opposite(order.side), p)
       /\ Crosses(order, p)
       /\ level_it' = p
       /\ current' = levels[Opposite(order.side)][p].head
  /\ pc' = "fill"
  /\ UNCHANGED <<bookVars, order, remaining, trades>>

(* Bug: a trade reports all of the resting order.                          *)
TradeWithWhole(node, quantity) ==
  [resting |-> node.id, aggressive |-> order.id,
   price |-> node.price, quantity |-> node.quantity]

TradeWith(node, quantity) ==
  [resting |-> node.id, aggressive |-> order.id,
   price |-> node.price, quantity |-> quantity]

(* Inner loop, the incoming order is exhausted and the resting one is not. *)
FillPart ==
  /\ pc = "fill"
  /\ current # kInvalid
  /\ remaining > 0
  /\ remaining < pool[current].quantity
  /\ trades' = Append(trades, TradeWith(pool[current], remaining))
  /\ pool' = [pool EXCEPT ![current].quantity = @ - remaining]
  /\ remaining' = 0
  /\ UNCHANGED <<free_slots, levels, order_location, arrival, clock,
                 pc, order, level_it, current>>

(* Inner loop, the resting order is exhausted: it leaves the book.         *)
FillWhole ==
  LET side == Opposite(order.side)
      node == pool[current]
  IN  /\ pc = "fill"
      /\ current # kInvalid
      /\ remaining > 0
      /\ remaining >= node.quantity
      /\ trades' = Append(trades, TradeWith(node, node.quantity))
      /\ remaining' = remaining - node.quantity
      /\ pool' = UnlinkedPool(current, [pool EXCEPT ![current].quantity = 0])
      /\ levels' = [levels EXCEPT
                      ![side][level_it] = UnlinkedLevel(current, @)]
      /\ free_slots' = Append(free_slots, current)
      /\ order_location' = Erase(order_location, node.id)
      /\ current' = node.next
      /\ UNCHANGED <<arrival, clock, pc, order, level_it>>

(* The inner loop ends; a level left with no order is erased.              *)
EndLevel ==
  LET side == Opposite(order.side)
  IN  /\ pc = "fill"
      /\ remaining = 0 \/ current = kInvalid
      /\ levels' = [levels EXCEPT
                      ![side] = EraseIfEmpty(@, level_it, @[level_it])]
      /\ pc' = "match"
      /\ UNCHANGED <<pool, free_slots, order_location, arrival, clock,
                     order, remaining, trades, level_it, current>>

(* The outer loop ends with nothing left to rest.  A returning call hands  *)
(* trades to its caller, and its locals are gone.                          *)
ReturnFilled ==
  /\ pc = "match"
  /\ remaining = 0
  /\ pc' = "idle"
  /\ order' = NoOrder
  /\ trades' = <<>>
  /\ level_it' = kInvalid
  /\ current' = kInvalid
  /\ UNCHANGED <<bookVars, remaining>>

(* The outer loop ends because the first opposite level does not cross, or *)
(* there is none: the rest of the order goes to the tail of its own level. *)
RestRemainder ==
  LET i == AllocatedSlot
      level == LevelAt(order.side, order.price)
  IN  /\ pc = "match"
      /\ remaining > 0
      /\ \A p \in DOMAIN levels[Opposite(order.side)] :
           IsBegin(Opposite(order.side), p) => ~Crosses(order, p)
      /\ pool' = AppendedPool(i, order, remaining, level)
      /\ free_slots' = SlotsLeft
      /\ levels' = [levels EXCEPT
           ![order.side] = Insert(@, order.price, AppendedLevel(i, level))]
      /\ order_location' = Insert(order_location, order.id, i)
      /\ arrival' = Insert(arrival, i, clock)
      /\ clock' = clock + 1
      /\ pc' = "idle"
      /\ order' = NoOrder
      /\ remaining' = 0
      /\ trades' = <<>>
      /\ level_it' = kInvalid
      /\ current' = kInvalid

----------------------------------------------------------------------------
(* cancel_order and reduce_order.                                          *)

(* Both lookups of cancel_order succeed: the id's slot and its level.      *)
CanCancel(id) ==
  /\ id \in DOMAIN order_location
  /\ Slot(id).price \in DOMAIN levels[Slot(id).side]

RemoveOrder(id) ==
  LET i == order_location[id]
      side == pool[i].side
      p == pool[i].price
  IN  /\ pool' = UnlinkedPool(i, pool)
      /\ levels' = [levels EXCEPT
           ![side] = EraseIfEmpty(@, p, UnlinkedLevel(i, @[p]))]
      /\ free_slots' = Append(free_slots, i)
      /\ order_location' = Erase(order_location, id)
      /\ UNCHANGED <<arrival, clock, callVars>>

(* cancel_order returns true ...                                           *)
CancelOrder(id) ==
  /\ pc = "idle"
  /\ CanCancel(id)
  /\ RemoveOrder(id)

(* ... or false, when one of its lookups fails.                            *)
CancelMissing(id) ==
  /\ pc = "idle"
  /\ ~CanCancel(id)
  /\ UNCHANGED vars

ReduceResult(id, quantity) ==
  CASE quantity <= 0                      -> "InvalidQuantity"
    [] quantity > 0
       /\ id \notin DOMAIN order_location -> "NotFound"
    [] OTHER ->
       IF quantity > Slot(id).quantity THEN "ExceedsQuantity"
       ELSE IF quantity = Slot(id).quantity THEN "Removed"
       ELSE "Reduced"

ReduceOrder(id, quantity) ==
  /\ pc = "idle"
  /\ ReduceResult(id, quantity) = "Reduced"
  /\ pool' = [pool EXCEPT ![order_location[id]].quantity = @ - quantity]
  /\ UNCHANGED <<free_slots, levels, order_location, arrival, clock,
                 callVars>>

ReduceToNothing(id, quantity) ==
  /\ pc = "idle"
  /\ ReduceResult(id, quantity) = "Removed"
  /\ CanCancel(id)
  /\ RemoveOrder(id)

(* The three refusals; reduce_order also ignores a cancel_order that fails.*)
ReduceRefused(id, quantity) ==
  /\ pc = "idle"
  /\ \/ ReduceResult(id, quantity) \notin {"Reduced", "Removed"}
     \/ ReduceResult(id, quantity) = "Removed" /\ ~CanCancel(id)
  /\ UNCHANGED vars

----------------------------------------------------------------------------
Init ==
  /\ pool = <<>>
  /\ free_slots = <<>>
  /\ levels = [side \in Side |-> EmptyMap]
  /\ order_location = EmptyMap
  /\ pc = "idle"
  /\ order = NoOrder
  /\ remaining = 0
  /\ trades = <<>>
  /\ level_it = kInvalid
  /\ current = kInvalid
  /\ arrival = <<>>
  /\ clock = 0

(* The steps of a running add_order.                                       *)
CallStep ==
  \/ MatchLevel
  \/ FillPart
  \/ FillWhole
  \/ EndLevel
  \/ ReturnFilled
  \/ RestRemainder

Next ==
  \/ \E o \in Order : AddOrder(o) \/ RejectOrder(o)
  \/ CallStep
  \/ \E id \in Ids : CancelOrder(id) \/ CancelMissing(id)
  \/ \E id \in Ids, quantity \in Quantities :
       \/ ReduceOrder(id, quantity)
       \/ ReduceToNothing(id, quantity)
       \/ ReduceRefused(id, quantity)

Spec == Init /\ [][Next]_vars

(* A call that has been entered is executed to its end: nothing in it      *)
(* waits.  Callers owe nothing.                                            *)
FairSpec == Spec /\ WF_vars(CallStep)
----------------------------------------------------------------------------
(* Properties.                                                             *)

(* Slot s rests on the level (side, p); s is directly ahead of t in a list.*)
OnLevel(s, side, p) ==
  s \in Located /\ pool[s].side = side /\ pool[s].price = p

Ahead(s, t) ==
  /\ OnLevel(s, pool[t].side, pool[t].price)
  /\ t \in Located
  /\ pool[s].next = t
  /\ pool[t].prev = s
  /\ arrival[s] < arrival[t]

(* Every variable has its type.  In particular every index the code keeps, *)
(* in a node, a level, the free list, the id index or its cursor, is inside*)
(* the pool or kInvalid, and the level being swept is still in its map.    *)
TypeOK ==
  /\ pool \in Seq(OrderNode)
  /\ free_slots \in Seq(Slots)
  /\ DOMAIN levels = Side
  /\ \A side \in Side :
       /\ DOMAIN levels[side] \subseteq Prices
       /\ \A p \in DOMAIN levels[side] : levels[side][p] \in PriceLevel
  /\ order_location \in [DOMAIN order_location -> Slots]
  /\ DOMAIN order_location \subseteq Ids
  /\ pc \in {"idle", "match", "fill"}
  /\ IF pc = "idle" THEN order = NoOrder ELSE order \in Order
  /\ remaining \in Nat
  /\ trades \in Seq(Trade)
  /\ current \in Index
  /\ pc = "fill" => level_it \in DOMAIN levels[Opposite(order.side)]
  /\ arrival \in [Slots -> Nat]
  /\ clock \in Nat

(* No slot is lost or used twice: the slots of the pool are exactly those  *)
(* of the free list, each listed once, and those of the index, where each  *)
(* id finds the slot that holds its own order.                             *)
SlotsAccounted ==
  /\ \A id \in DOMAIN order_location : Slot(id).id = id
  /\ \A s \in Slots : s \in Located <=> s \notin Range(free_slots)
  /\ \A i, j \in DOMAIN free_slots : free_slots[i] = free_slots[j] => i = j

(* The lists are sound in every state, inside a call too: prev and next    *)
(* mirror each other, stay within one price level and run in order of      *)
(* arrival, head and tail are the two ends, and count counts the orders of *)
(* the level.  No free slot is threaded into a list.                       *)
LevelsThreaded ==
  /\ \A s \in Located :
       LET node == pool[s]
           level == levels[node.side][node.price]
       IN  /\ arrival[s] < clock
           /\ node.price \in DOMAIN levels[node.side]
           /\ node.prev = kInvalid <=> level.head = s
           /\ node.next = kInvalid <=> level.tail = s
           /\ node.prev # kInvalid => Ahead(node.prev, s)
           /\ node.next # kInvalid => Ahead(s, node.next)
  /\ \A side \in Side : \A p \in DOMAIN levels[side] :
       LET level == levels[side][p]
       IN  /\ level.head = kInvalid <=> level.tail = kInvalid
           /\ level.head # kInvalid => OnLevel(level.head, side, p)
           /\ level.tail # kInvalid => OnLevel(level.tail, side, p)
           /\ level.count = Cardinality({s \in Slots : OnLevel(s, side, p)})

(* Every resting order has something left to trade, and the only level     *)
(* that may have no order is the one a running call is sweeping.           *)
NothingExhausted ==
  /\ \A s \in Located : pool[s].quantity > 0
  /\ \A side \in Side : \A p \in DOMAIN levels[side] :
       levels[side][p].count = 0 =>
         pc = "fill" /\ side = Opposite(order.side) /\ p = level_it

(* The book is never crossed or locked: matching leaves no bid at or above *)
(* an ask, whatever the order of the calls.                                *)
NotCrossed ==
  \A b \in DOMAIN levels["Buy"], a \in DOMAIN levels["Sell"] : b < a

(* The locals of a running add_order are never stale: its id is not in the *)
(* book, the level it sweeps is the best opposite one and within its limit,*)
(* and the cursor is at the order that is now the head of that level.      *)
SweepAtHead ==
  /\ pc # "idle" => order.id \notin DOMAIN order_location
  /\ pc = "fill" =>
       /\ IsBegin(Opposite(order.side), level_it)
       /\ Crosses(order, level_it)
       /\ current = levels[Opposite(order.side)][level_it].head

(* The quantity of some trades, and all the quantity that rests.           *)
TradedIn(made) == SumFunction([i \in DOMAIN made |-> made[i].quantity])

RestingQuantity ==
  SumFunction([id \in DOMAIN order_location |-> Slot(id).quantity])

(* What a running call has done so far: the quantity it was called with is *)
(* what it traded and what it has left; no trade is beyond its limit;      *)
(* prices never get better for it; and it went past no order that it did   *)
(* not exhaust.                                                            *)
SweepAccounted ==
  pc # "idle" =>
    /\ order.quantity = remaining + TradedIn(trades)
    /\ \A i \in DOMAIN trades :
         /\ Crosses(order, trades[i].price)
         /\ i > 1 => ~Better(Opposite(order.side),
                             trades[i].price, trades[i - 1].price)
         /\ i < Len(trades) \/ remaining > 0 =>
              trades[i].resting \notin DOMAIN order_location

(* What a caller sees between two calls is what rests in the book: a       *)
(* snapshot has one row per price, best first, with the whole quantity     *)
(* resting there, and stops early only at its depth; best_bid and best_ask *)
(* are its first rows, and order_count counts the orders it adds up.       *)
ViewOf(side, rows, depth) ==
  LET resting == {id \in DOMAIN order_location : Slot(id).side = side}
      at(p) == {id \in resting : Slot(id).price = p}
      quantities == [id \in resting |-> Slot(id).quantity]
      prices == {Slot(id).price : id \in resting}
  IN  /\ Len(rows) = Min({depth, Cardinality(prices)})
      /\ \A i \in DOMAIN rows :
           /\ rows[i].price \in prices
           /\ rows[i].quantity =
                SumFunctionOnSet(quantities, at(rows[i].price))
           /\ Cardinality({p \in prices : Better(side, p, rows[i].price)})
                = i - 1

SnapshotExact ==
  pc = "idle" =>
    /\ \A depth \in 0 .. Cardinality(Prices) + 1 :
         /\ ViewOf("Buy", snapshot(depth).bids, depth)
         /\ ViewOf("Sell", snapshot(depth).asks, depth)
    /\ best_bid = {row.price : row \in Range(snapshot(1).bids)}
    /\ best_ask = {row.price : row \in Range(snapshot(1).asks)}
    /\ order_count = Cardinality(Located)

(* Price-time priority: whenever a trade is made, it is made with the order*)
(* that comes first, by price and then by arrival, of all those resting on *)
(* the other side.                                                         *)
Precedes(s, t) ==
  \/ Better(pool[s].side, pool[s].price, pool[t].price)
  \/ pool[s].price = pool[t].price /\ arrival[s] <= arrival[t]

TradesWithFirst ==
  Len(trades') > Len(trades) =>
    /\ Last(trades').resting \in DOMAIN order_location
    /\ \A s \in Located : pool[s].side = Opposite(order.side) =>
         Precedes(order_location[Last(trades').resting], s)

PriceTimePriority == [][TradesWithFirst]_vars

(* Nothing that happens to other orders, and no reduction, costs an order  *)
(* that stays in the book its place: it keeps its slot, side, price and    *)
(* arrival, and its quantity never grows.                                  *)
KeepsPlaces ==
  \A id \in DOMAIN order_location \cap DOMAIN order_location' :
    LET s == order_location[id]
    IN  /\ order_location'[id] = s
        /\ arrival'[s] = arrival[s]
        /\ pool'[s].side = pool[s].side
        /\ pool'[s].price = pool[s].price
        /\ pool'[s].quantity <= pool[s].quantity

PlaceKept == [][KeepsPlaces]_vars

(* add_order returns: its two nested loops always come to an end.          *)
CallReturns == pc # "idle" ~> pc = "idle"
=============================================================================
