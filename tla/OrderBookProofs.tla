-------------------------- MODULE OrderBookProofs --------------------------
(***************************************************************************)
(* Theorems about OrderBook, for all ids, prices, quantities and call      *)
(* sequences: its indices never leave the pool, no slot is lost or shared, *)
(* the lists stay threaded, the book never crosses, trades follow          *)
(* price-time priority, and a running call accounts for what it was called *)
(* with.                                                                   *)
(***************************************************************************)
EXTENDS OrderBook, SumProofs, SequenceTheorems, FiniteSetTheorems, TLAPS

----------------------------------------------------------------------------
(* Lemmas on sequences and maps.                                           *)

LEMMA FunctionIsSeq ==
  ASSUME NEW S, NEW n \in Nat, NEW f \in [1 .. n -> S]
  PROVE  f \in Seq(S) /\ Len(f) = n
BY IsASeq, LenProperties

LEMMA SeqIsFunction ==
  ASSUME NEW S, NEW q \in Seq(S)
  PROVE  /\ Len(q) \in Nat
         /\ q \in [1 .. Len(q) -> S]
         /\ DOMAIN q = 1 .. Len(q)
BY LenProperties

LEMMA FrontProperties ==
  ASSUME NEW S, NEW q \in Seq(S), q # <<>>
  PROVE  /\ Front(q) \in Seq(S)
         /\ Len(Front(q)) = Len(q) - 1
         /\ \A i \in 1 .. Len(q) - 1 : Front(q)[i] = q[i]
         /\ Last(q) = q[Len(q)]
         /\ Last(q) \in S
         /\ Len(q) \in Nat \ {0}
<1>1. Len(q) \in Nat \ {0}
  BY EmptySeq, LenProperties
<1>2. \A i \in 1 .. Len(q) : q[i] \in S
  BY LenProperties
<1>3. \A i \in 1 .. Len(q) - 1 : q[i] \in S
  BY <1>1, <1>2
<1> DEFINE n == Len(q) - 1
<1>4. n \in Nat /\ \A i \in 1 .. n : q[i] \in S
  BY <1>1, <1>3
<1> HIDE DEF n
<1>5. /\ SubSeq(q, 1, n) \in Seq(S)
      /\ Len(SubSeq(q, 1, n)) = n
      /\ \A i \in 1 .. n : SubSeq(q, 1, n)[i] = q[i]
  BY <1>4, SubSeqProperties
<1>6. /\ Front(q) \in Seq(S)
      /\ Len(Front(q)) = Len(q) - 1
      /\ \A i \in 1 .. Len(q) - 1 : Front(q)[i] = q[i]
  BY <1>5 DEF Front, n
<1>7. Last(q) = q[Len(q)] /\ q[Len(q)] \in S
  BY <1>1, <1>2 DEF Last
<1>8. QED
  BY <1>1, <1>6, <1>7

LEMMA AppendRange ==
  ASSUME NEW S, NEW q \in Seq(S), NEW e \in S
  PROVE  /\ Append(q, e) \in Seq(S)
         /\ Range(Append(q, e)) = Range(q) \cup {e}
<1>1. /\ Append(q, e) \in Seq(S)
      /\ Len(Append(q, e)) = Len(q) + 1
      /\ \A i \in 1 .. Len(q) : Append(q, e)[i] = q[i]
      /\ Append(q, e)[Len(q) + 1] = e
  BY AppendProperties
<1>2. /\ DOMAIN q = 1 .. Len(q)
      /\ DOMAIN Append(q, e) = 1 .. Len(q) + 1
      /\ Len(q) \in Nat
  BY <1>1, LenProperties
<1>3. Range(Append(q, e)) \subseteq Range(q) \cup {e}
  BY <1>1, <1>2 DEF Range
<1>4. Range(q) \subseteq Range(Append(q, e))
  BY <1>1, <1>2 DEF Range
<1>5. e \in Range(Append(q, e))
  <2>1. Len(q) + 1 \in DOMAIN Append(q, e)
    BY <1>2
  <2>2. QED
    BY <1>1, <2>1 DEF Range
<1>6. QED
  BY <1>1, <1>3, <1>4, <1>5

(* Popping a sequence that lists nothing twice removes its last element.   *)
LEMMA FrontRange ==
  ASSUME NEW S, NEW q \in Seq(S), q # <<>>,
         \A i, j \in DOMAIN q : q[i] = q[j] => i = j
  PROVE  Range(Front(q)) = Range(q) \ {Last(q)}
<1>1. /\ Len(q) \in Nat \ {0}
      /\ DOMAIN q = 1 .. Len(q)
      /\ DOMAIN Front(q) = 1 .. Len(q) - 1
  BY FrontProperties, LenProperties
<1>2. /\ \A i \in 1 .. Len(q) - 1 : Front(q)[i] = q[i]
      /\ Last(q) = q[Len(q)]
  BY FrontProperties
<1>3. Range(Front(q)) \subseteq Range(q) \ {Last(q)}
  BY <1>1, <1>2 DEF Range
<1>4. Range(q) \ {Last(q)} \subseteq Range(Front(q))
  BY <1>1, <1>2 DEF Range
<1>5. QED
  BY <1>3, <1>4

----------------------------------------------------------------------------
(* Type correctness.                                                       *)

LEMMA PoolFacts ==
  ASSUME TypeOK
  PROVE  /\ Len(pool) \in Nat
         /\ DOMAIN pool = Slots
         /\ pool \in [Slots -> OrderNode]
         /\ Slots \subseteq Nat \ {0}
BY SeqIsFunction DEF TypeOK, Slots

(* A step that keeps the pool's length keeps the meaning of every type.    *)
LEMMA SameSlots ==
  ASSUME TypeOK, pool' \in [Slots -> OrderNode]
  PROVE  /\ pool' \in Seq(OrderNode)
         /\ Len(pool') = Len(pool)
         /\ Slots' = Slots /\ Index' = Index
         /\ OrderNode' = OrderNode /\ PriceLevel' = PriceLevel
<1>1. /\ pool' \in Seq(OrderNode)
      /\ Len(pool') = Len(pool)
  BY PoolFacts, FunctionIsSeq DEF Slots
<1>2. QED
  BY <1>1 DEF Slots, Index, OrderNode, PriceLevel

LEMMA QuantityChangeType ==
  ASSUME TypeOK, NEW i \in Slots, NEW quantity \in Int
  PROVE  [pool EXCEPT ![i].quantity = quantity] \in [Slots -> OrderNode]
<1>1. [pool[i] EXCEPT !.quantity = quantity] \in OrderNode
  BY PoolFacts DEF OrderNode
<1>2. QED
  BY <1>1, PoolFacts

LEMMA UnlinkedPoolType ==
  ASSUME NEW i \in Slots, NEW nodes \in [Slots -> OrderNode]
  PROVE  UnlinkedPool(i, nodes) \in [Slots -> OrderNode]
<1>1. nodes[i].prev \in Index /\ nodes[i].next \in Index /\ kInvalid \in Index
  BY DEF OrderNode, Index
<1>2. SUFFICES ASSUME NEW s \in Slots
               PROVE  UnlinkedPool(i, nodes)[s] \in OrderNode
  BY DEF UnlinkedPool
<1>3. CASE s = i
  BY <1>1, <1>3 DEF UnlinkedPool, OrderNode
<1>4. CASE s # i
  BY <1>1, <1>4 DEF UnlinkedPool, OrderNode
<1>5. QED
  BY <1>3, <1>4

LEMMA UnlinkedLevelType ==
  ASSUME TypeOK, NEW i \in Slots, NEW level \in PriceLevel
  PROVE  UnlinkedLevel(i, level) \in PriceLevel
<1>1. pool[i] \in OrderNode
  BY PoolFacts
<1>2. QED
  BY <1>1 DEF UnlinkedLevel, PriceLevel, OrderNode

LEMMA LevelTypes ==
  ASSUME TypeOK, NEW side \in Side, NEW p \in DOMAIN levels[side]
  PROVE  levels[side][p] \in PriceLevel
BY DEF TypeOK

(* Released slots and erased ids keep their types.                         *)
LEMMA ReleaseTypes ==
  ASSUME TypeOK, NEW i \in Slots, NEW id
  PROVE  /\ Append(free_slots, i) \in Seq(Slots)
         /\ Erase(order_location, id)
              \in [DOMAIN Erase(order_location, id) -> Slots]
         /\ DOMAIN Erase(order_location, id) \subseteq Ids
<1>1. Append(free_slots, i) \in Seq(Slots)
  BY AppendRange DEF TypeOK
<1>2. QED
  BY <1>1 DEF TypeOK, Erase, Restrict

LEMMA EraseIfEmptyType ==
  ASSUME TypeOK, NEW side \in Side, NEW p \in DOMAIN levels[side],
         NEW level \in PriceLevel
  PROVE  LET map == EraseIfEmpty(levels[side], p, level)
         IN  /\ DOMAIN map \subseteq DOMAIN levels[side]
             /\ \A q \in DOMAIN map : map[q] \in PriceLevel
BY LevelTypes DEF EraseIfEmpty, Erase, Restrict

LEMMA AddOrderType ==
  ASSUME TypeOK, NEW o \in Order, AddOrder(o)
  PROVE  TypeOK'
<1>1. o.quantity \in Nat
  BY QuantitiesAssumption DEF AddOrder, Order
<1>2. trades' \in Seq(Trade)
  BY EmptySeq DEF AddOrder
<1>3. QED
  BY <1>1, <1>2 DEF TypeOK, AddOrder, bookVars, Slots, Index, OrderNode,
                    PriceLevel

LEMMA MatchLevelType ==
  ASSUME TypeOK, MatchLevel
  PROVE  TypeOK'
<1>1. order.side \in Side /\ Opposite(order.side) \in Side
  BY DEF TypeOK, MatchLevel, Order, Side, Opposite
<1>2. PICK p \in DOMAIN levels[Opposite(order.side)] :
        /\ level_it' = p
        /\ current' = levels[Opposite(order.side)][p].head
  BY DEF MatchLevel
<1>3. current' \in Index
  BY <1>1, <1>2, LevelTypes DEF PriceLevel
<1>4. QED
  BY <1>2, <1>3 DEF TypeOK, MatchLevel, bookVars, Slots, Index, OrderNode,
                    PriceLevel

(* While a call fills, the node at its cursor and the level it sweeps.     *)
LEMMA CursorTypes ==
  ASSUME TypeOK, pc = "fill", current # kInvalid
  PROVE  /\ current \in Slots
         /\ pool[current] \in OrderNode
         /\ order \in Order
         /\ Opposite(order.side) \in Side
         /\ level_it \in DOMAIN levels[Opposite(order.side)]
         /\ levels[Opposite(order.side)][level_it] \in PriceLevel
<1>1. current \in Slots
  BY DEF TypeOK, Index
<1>2. order \in Order /\ Opposite(order.side) \in Side
  BY DEF TypeOK, Order, Side, Opposite
<1>3. QED
  BY <1>1, <1>2, PoolFacts, LevelTypes DEF TypeOK

LEMMA FillPartType ==
  ASSUME TypeOK, FillPart
  PROVE  TypeOK'
<1>1. /\ current \in Slots
      /\ pool[current] \in OrderNode
      /\ order \in Order
      /\ remaining \in Nat
  BY CursorTypes DEF FillPart, TypeOK
<1>2. TradeWith(pool[current], remaining) \in Trade
  BY <1>1 DEF TradeWith, Trade, OrderNode, Order
<1>3. trades' \in Seq(Trade)
  BY <1>2, AppendProperties DEF FillPart, TypeOK
<1>4. pool' \in [Slots -> OrderNode]
  <2>1. pool[current].quantity - remaining \in Int
    BY <1>1 DEF OrderNode
  <2>2. QED
    BY <1>1, <2>1, QuantityChangeType DEF FillPart
<1>5. QED
  BY <1>3, <1>4, SameSlots DEF FillPart, TypeOK

LEMMA FillWholeType ==
  ASSUME TypeOK, FillWhole
  PROVE  TypeOK'
<1> DEFINE side == Opposite(order.side)
           node == pool[current]
<1>1. /\ current \in Slots
      /\ node \in OrderNode
      /\ order \in Order
      /\ side \in Side
      /\ level_it \in DOMAIN levels[side]
      /\ levels[side][level_it] \in PriceLevel
      /\ remaining \in Nat
  BY CursorTypes DEF FillWhole, TypeOK
<1>2. TradeWith(node, node.quantity) \in Trade
  BY <1>1 DEF TradeWith, Trade, OrderNode, Order
<1>3. trades' \in Seq(Trade)
  BY <1>2, AppendProperties DEF FillWhole, TypeOK
<1>4. pool' \in [Slots -> OrderNode]
  <2>1. [pool EXCEPT ![current].quantity = 0] \in [Slots -> OrderNode]
    BY <1>1, QuantityChangeType
  <2>2. QED
    BY <1>1, <2>1, UnlinkedPoolType DEF FillWhole
<1>5. remaining' \in Nat
  BY <1>1 DEF FillWhole, OrderNode
<1>6. /\ free_slots' \in Seq(Slots)
      /\ order_location' \in [DOMAIN order_location' -> Slots]
      /\ DOMAIN order_location' \subseteq Ids
  BY <1>1, ReleaseTypes DEF FillWhole
<1>7. /\ DOMAIN levels' = Side
      /\ \A sd \in Side :
           /\ DOMAIN levels'[sd] = DOMAIN levels[sd]
           /\ \A p \in DOMAIN levels'[sd] : levels'[sd][p] \in PriceLevel
  <2>1. UnlinkedLevel(current, levels[side][level_it]) \in PriceLevel
    BY <1>1, UnlinkedLevelType
  <2>2. levels' = [levels EXCEPT ![side][level_it] =
                     UnlinkedLevel(current, levels[side][level_it])]
    BY DEF FillWhole
  <2>3. QED
    BY <1>1, <2>1, <2>2 DEF TypeOK
<1>8. current' \in Index
  BY <1>1 DEF FillWhole, OrderNode
<1>9. QED
  BY <1>1, <1>3, <1>4, <1>5, <1>6, <1>7, <1>8, SameSlots
     DEF FillWhole, TypeOK

LEMMA EndLevelType ==
  ASSUME TypeOK, EndLevel
  PROVE  TypeOK'
<1> DEFINE side == Opposite(order.side)
           map == EraseIfEmpty(levels[side], level_it, levels[side][level_it])
<1>1. /\ side \in Side
      /\ level_it \in DOMAIN levels[side]
  BY DEF EndLevel, TypeOK, Side, Opposite
<1>2. /\ DOMAIN map \subseteq DOMAIN levels[side]
      /\ \A q \in DOMAIN map : map[q] \in PriceLevel
  BY <1>1, LevelTypes, EraseIfEmptyType
<1>3. levels' = [levels EXCEPT ![side] = map]
  BY DEF EndLevel
<1>4. /\ DOMAIN levels' = Side
      /\ \A sd \in Side :
           /\ DOMAIN levels'[sd] \subseteq Prices
           /\ \A p \in DOMAIN levels'[sd] : levels'[sd][p] \in PriceLevel
  BY <1>1, <1>2, <1>3 DEF TypeOK
<1>5. QED
  BY <1>4 DEF EndLevel, TypeOK, Slots, Index, OrderNode, PriceLevel

LEMMA ReturnFilledType ==
  ASSUME TypeOK, ReturnFilled
  PROVE  TypeOK'
<1>1. trades' \in Seq(Trade)
  BY EmptySeq DEF ReturnFilled
<1>2. QED
  BY <1>1 DEF TypeOK, ReturnFilled, bookVars, Slots, Index, OrderNode,
              PriceLevel

LEMMA RemoveOrderType ==
  ASSUME TypeOK, pc = "idle", NEW id, CanCancel(id), RemoveOrder(id)
  PROVE  TypeOK'
<1> DEFINE i == order_location[id]
           side == pool[i].side
           p == pool[i].price
           map == EraseIfEmpty(levels[side], p, UnlinkedLevel(i, levels[side][p]))
<1>1. /\ i \in Slots
      /\ pool[i] \in OrderNode
      /\ side \in Side
      /\ p \in DOMAIN levels[side]
  BY PoolFacts DEF CanCancel, TypeOK, Slot, OrderNode
<1>2. pool' \in [Slots -> OrderNode]
  BY <1>1, PoolFacts, UnlinkedPoolType DEF RemoveOrder
<1>3. /\ DOMAIN map \subseteq DOMAIN levels[side]
      /\ \A q \in DOMAIN map : map[q] \in PriceLevel
  <2>1. UnlinkedLevel(i, levels[side][p]) \in PriceLevel
    BY <1>1, LevelTypes, UnlinkedLevelType
  <2>2. QED
    BY <1>1, <2>1, EraseIfEmptyType
<1>4. levels' = [levels EXCEPT ![side] = map]
  BY DEF RemoveOrder
<1>5. /\ DOMAIN levels' = Side
      /\ \A sd \in Side :
           /\ DOMAIN levels'[sd] \subseteq DOMAIN levels[sd]
           /\ \A q \in DOMAIN levels'[sd] : levels'[sd][q] \in PriceLevel
  BY <1>1, <1>3, <1>4 DEF TypeOK
<1>6. /\ free_slots' \in Seq(Slots)
      /\ order_location' \in [DOMAIN order_location' -> Slots]
      /\ DOMAIN order_location' \subseteq Ids
  BY <1>1, ReleaseTypes DEF RemoveOrder
<1>7. QED
  BY <1>1, <1>2, <1>5, <1>6, SameSlots DEF RemoveOrder, TypeOK, callVars

LEMMA ReduceOrderType ==
  ASSUME TypeOK, NEW id \in Ids, NEW quantity \in Quantities,
         ReduceOrder(id, quantity)
  PROVE  TypeOK'
<1> DEFINE i == order_location[id]
<1>1. id \in DOMAIN order_location
  BY QuantitiesAssumption DEF ReduceOrder, ReduceResult
<1>2. i \in Slots /\ pool[i] \in OrderNode
  BY <1>1, PoolFacts DEF TypeOK
<1>3. pool[i].quantity - quantity \in Int
  BY <1>2, QuantitiesAssumption DEF OrderNode
<1>4. pool' \in [Slots -> OrderNode]
  BY <1>2, <1>3, QuantityChangeType DEF ReduceOrder
<1>5. QED
  BY <1>4, SameSlots DEF ReduceOrder, TypeOK, callVars

(* The slot a resting order gets, and the level it is appended to.         *)
LEMMA AllocatedSlotType ==
  ASSUME TypeOK
  PROVE  /\ AllocatedSlot \in Nat \ {0}
         /\ free_slots # <<>> => AllocatedSlot \in Slots
         /\ free_slots = <<>> => /\ AllocatedSlot = Len(pool) + 1
                                 /\ AllocatedSlot \notin Slots
         /\ SlotsLeft \in Seq(Slots)
         /\ Slots \cup {AllocatedSlot}
              = 1 .. (IF free_slots = <<>> THEN Len(pool) + 1 ELSE Len(pool))
<1>1. Len(pool) \in Nat /\ Slots = 1 .. Len(pool) /\ free_slots \in Seq(Slots)
  BY PoolFacts DEF TypeOK, Slots
<1>2. CASE free_slots = <<>>
  BY <1>1, <1>2, EmptySeq DEF AllocatedSlot, SlotsLeft
<1>3. CASE free_slots # <<>>
  <2>1. Last(free_slots) \in Slots /\ Front(free_slots) \in Seq(Slots)
    BY <1>1, <1>3, FrontProperties
  <2>2. QED
    BY <1>1, <1>3, <2>1 DEF AllocatedSlot, SlotsLeft
<1>4. QED
  BY <1>2, <1>3

LEMMA LevelAtType ==
  ASSUME TypeOK, NEW side \in Side, NEW p
  PROVE  LevelAt(side, p) \in PriceLevel
<1>1. [head |-> kInvalid, tail |-> kInvalid, count |-> 0] \in PriceLevel
  BY DEF PriceLevel, Index
<1>2. QED
  BY <1>1, LevelTypes DEF LevelAt

LEMMA RestRemainderType ==
  ASSUME TypeOK, RestRemainder
  PROVE  TypeOK'
<1> DEFINE i == AllocatedSlot
           side == order.side
           level == LevelAt(side, order.price)
           size == IF free_slots = <<>> THEN Len(pool) + 1 ELSE Len(pool)
           slots == Slots \cup {i}
<1>1. /\ i \in Nat \ {0}
      /\ slots = 1 .. size
      /\ size \in Nat
      /\ SlotsLeft \in Seq(Slots)
  BY AllocatedSlotType, PoolFacts
<1>2. /\ order \in Order /\ side \in Side /\ order.id \in Ids
      /\ order.price \in Prices
      /\ level \in PriceLevel
      /\ remaining \in Nat
  BY LevelAtType DEF TypeOK, RestRemainder, Order
<1>3. DOMAIN pool' = slots /\ Len(pool') = size /\ pool' \in [slots -> OrderNode']
  <2>1. pool' = AppendedPool(i, order, remaining, level)
    BY DEF RestRemainder
  <2>2. pool' \in [slots -> {pool'[s] : s \in slots}] /\ DOMAIN pool' = slots
    BY <2>1 DEF AppendedPool
  <2>3. Len(pool') = size
    BY <1>1, <2>2, FunctionIsSeq
  <2>4. Slots' = slots /\ Index' = Index \cup {i}
    BY <1>1, <2>3 DEF Slots, Index
  <2>5. SUFFICES ASSUME NEW s \in slots
                 PROVE  pool'[s] \in OrderNode'
    BY <2>2, <2>3
  <2>6. level.tail \in Index'
    BY <1>2, <2>4 DEF PriceLevel
  <2>7. CASE s = i
    BY <1>2, <2>1, <2>4, <2>6, <2>7 DEF AppendedPool, OrderNode, Index
  <2>8. CASE s # i
    <3>1. pool[s] \in OrderNode
      BY <2>8, PoolFacts
    <3>2. pool'[s] = [pool[s] EXCEPT !.next = IF s = level.tail THEN i ELSE @]
      BY <2>1, <2>8 DEF AppendedPool
    <3>3. QED
      BY <3>1, <3>2, <2>4 DEF OrderNode
  <2>9. QED
    BY <2>7, <2>8
<1>4. /\ Slots' = slots /\ Slots \subseteq Slots'
      /\ Index' = Index \cup {i}
      /\ pool' \in Seq(OrderNode')
      /\ i \in Slots'
  BY <1>1, <1>3, FunctionIsSeq DEF Slots, Index
<1>5. PriceLevel \subseteq PriceLevel'
  BY <1>4 DEF PriceLevel
<1>6. /\ DOMAIN levels' = Side
      /\ \A sd \in Side :
           /\ DOMAIN levels'[sd] \subseteq Prices
           /\ \A q \in DOMAIN levels'[sd] : levels'[sd][q] \in PriceLevel'
  <2>1. AppendedLevel(i, level) \in PriceLevel'
    BY <1>2, <1>4, <1>5 DEF AppendedLevel, PriceLevel
  <2>2. levels' = [levels EXCEPT ![side] =
                     Insert(levels[side], order.price, AppendedLevel(i, level))]
    BY DEF RestRemainder
  <2>3. QED
    BY <1>2, <1>5, <2>1, <2>2 DEF TypeOK, Insert
<1>7. /\ order_location' \in [DOMAIN order_location' -> Slots']
      /\ DOMAIN order_location' \subseteq Ids
  BY <1>2, <1>4 DEF RestRemainder, TypeOK, Insert
<1>8. free_slots' \in Seq(Slots')
  BY <1>1, <1>4, SeqMonotonic DEF RestRemainder
<1>9. arrival' \in [Slots' -> Nat] /\ clock' \in Nat
  BY <1>4 DEF RestRemainder, TypeOK, Insert
<1>10. trades' \in Seq(Trade)
  BY EmptySeq DEF RestRemainder
<1>11. QED
  BY <1>4, <1>6, <1>7, <1>8, <1>9, <1>10 DEF RestRemainder, TypeOK, Index

LEMMA TypeInit == Init => TypeOK
<1>1. ASSUME Init
      PROVE  /\ Slots = {}
             /\ pool \in Seq(OrderNode) /\ free_slots \in Seq(Slots)
             /\ trades \in Seq(Trade)
  BY <1>1, EmptySeq, LenProperties DEF Init, Slots
<1>2. QED
  BY <1>1 DEF Init, TypeOK, EmptyMap, Index

LEMMA TypeUnchanged == TypeOK /\ UNCHANGED vars => TypeOK'
BY DEF TypeOK, vars, bookVars, callVars, Slots, Index, OrderNode, PriceLevel

LEMMA TypeNext == TypeOK /\ [Next]_vars => TypeOK'
<1> SUFFICES ASSUME TypeOK, [Next]_vars
             PROVE  TypeOK'
  OBVIOUS
<1>1. CASE UNCHANGED vars
  BY <1>1, TypeUnchanged
<1>2. ASSUME NEW o \in Order, AddOrder(o) \/ RejectOrder(o)
      PROVE  TypeOK'
  BY <1>2, AddOrderType, TypeUnchanged DEF RejectOrder
<1>3. CASE CallStep
  BY <1>3, MatchLevelType, FillPartType, FillWholeType, EndLevelType,
     ReturnFilledType, RestRemainderType DEF CallStep
<1>4. ASSUME NEW id \in Ids, CancelOrder(id) \/ CancelMissing(id)
      PROVE  TypeOK'
  BY <1>4, RemoveOrderType, TypeUnchanged DEF CancelOrder, CancelMissing
<1>5. ASSUME NEW id \in Ids, NEW quantity \in Quantities,
             \/ ReduceOrder(id, quantity)
             \/ ReduceToNothing(id, quantity)
             \/ ReduceRefused(id, quantity)
      PROVE  TypeOK'
  BY <1>5, ReduceOrderType, RemoveOrderType, TypeUnchanged
     DEF ReduceToNothing, ReduceRefused
<1>6. QED
  BY <1>1, <1>2, <1>3, <1>4, <1>5 DEF Next

(* Every variable always has its type: no index kept in a node, a level,   *)
(* the free list, the id index or a cursor ever leaves the pool.           *)
THEOREM TypeCorrect == Spec => []TypeOK
<1>1. QED
  BY TypeInit, TypeNext, PTL DEF Spec

----------------------------------------------------------------------------
(* The inductive invariant.  Its parts need each other: a list stays sound *)
(* only if the slot an order gets is in no list, and matching finds the    *)
(* oldest order of the best level only if the lists are sound.             *)

BookInv ==
  /\ TypeOK
  /\ SlotsAccounted
  /\ LevelsThreaded
  /\ NothingExhausted
  /\ NotCrossed
  /\ SweepAtHead

----------------------------------------------------------------------------
(* Slots: the index is a bijection onto the located slots, and a slot that *)
(* is released or allocated changes hands exactly once.                    *)

LEMMA LocatedFacts ==
  ASSUME TypeOK, SlotsAccounted
  PROVE  /\ Located \subseteq Slots
         /\ \A id \in DOMAIN order_location :
              /\ order_location[id] \in Located
              /\ pool[order_location[id]].id = id
         /\ \A s \in Located :
              /\ pool[s].id \in DOMAIN order_location
              /\ order_location[pool[s].id] = s
              /\ pool[s] \in OrderNode
BY PoolFacts DEF TypeOK, SlotsAccounted, Located, Range, Slot

LEMMA ReleaseAccounted ==
  ASSUME TypeOK, SlotsAccounted,
         NEW i \in Located,
         Slots' = Slots,
         \A s \in Slots : pool'[s].id = pool[s].id,
         order_location' = Erase(order_location, pool[i].id),
         free_slots' = Append(free_slots, i)
  PROVE  /\ SlotsAccounted'
         /\ Located' = Located \ {i}
<1>1. /\ DOMAIN order_location' = DOMAIN order_location \ {pool[i].id}
      /\ \A id \in DOMAIN order_location' :
           order_location'[id] = order_location[id]
  BY DEF Erase, Restrict
<1>2. Located' = Located \ {i}
  BY <1>1, LocatedFacts DEF Located, Range
<1>3. \A id \in DOMAIN order_location' : Slot(id)'.id = id
  BY <1>1, LocatedFacts DEF Slot
<1>4. i \in Slots /\ i \notin Range(free_slots) /\ free_slots \in Seq(Slots)
  BY LocatedFacts DEF SlotsAccounted, TypeOK
<1>5. Range(free_slots') = Range(free_slots) \cup {i}
  BY <1>4, AppendRange
<1>6. \A s \in Slots : s \in Located' <=> s \notin Range(free_slots')
  BY <1>2, <1>5 DEF SlotsAccounted
<1>7. ASSUME NEW j \in DOMAIN free_slots', NEW k \in DOMAIN free_slots',
             free_slots'[j] = free_slots'[k]
      PROVE  j = k
  <2>1. /\ DOMAIN free_slots = 1 .. Len(free_slots)
        /\ DOMAIN free_slots' = 1 .. Len(free_slots) + 1
        /\ Len(free_slots) \in Nat
        /\ \A l \in 1 .. Len(free_slots) : free_slots'[l] = free_slots[l]
        /\ free_slots'[Len(free_slots) + 1] = i
    BY <1>4, AppendProperties, LenProperties
  <2>2. \A l \in 1 .. Len(free_slots) : free_slots[l] # i
    BY <1>4, <2>1 DEF Range
  <2>3. QED
    BY <1>7, <2>1, <2>2 DEF SlotsAccounted
<1>8. QED
  BY <1>2, <1>3, <1>6, <1>7 DEF SlotsAccounted

LEMMA RestAccounted ==
  ASSUME TypeOK, SlotsAccounted, RestRemainder,
         order.id \notin DOMAIN order_location
  PROVE  /\ SlotsAccounted'
         /\ AllocatedSlot \notin Located
         /\ Located' = Located \cup {AllocatedSlot}
         /\ Slots' = Slots \cup {AllocatedSlot}
<1> DEFINE i == AllocatedSlot
<1>1. Slots' = Slots \cup {i}
  <2>1. DOMAIN pool' = Slots \cup {i}
    BY DEF RestRemainder, AppendedPool
  <2>2. DOMAIN pool' = Slots'
    BY RestRemainderType, PoolFacts, SeqIsFunction DEF TypeOK, Slots
  <2>3. QED
    BY <2>1, <2>2
<1>2. free_slots \in Seq(Slots) /\ free_slots' = SlotsLeft
  BY DEF TypeOK, RestRemainder
<1>3. i \notin Located
  <2>1. CASE free_slots = <<>>
    BY <2>1, AllocatedSlotType, LocatedFacts
  <2>2. CASE free_slots # <<>>
    <3>1. i \in Range(free_slots)
      <4>1. /\ Last(free_slots) = free_slots[Len(free_slots)]
            /\ Len(free_slots) \in Nat \ {0}
        BY <1>2, <2>2, FrontProperties
      <4>2. QED
        BY <1>2, <2>2, <4>1, SeqIsFunction DEF AllocatedSlot, Range
    <3>2. QED
      BY <3>1, <2>2, AllocatedSlotType DEF SlotsAccounted
  <2>3. QED
    BY <2>1, <2>2
<1>4. /\ DOMAIN order_location' = DOMAIN order_location \cup {order.id}
      /\ order_location'[order.id] = i
      /\ \A id \in DOMAIN order_location :
           order_location'[id] = order_location[id]
  BY DEF RestRemainder, Insert
<1>5. Located' = Located \cup {i}
  BY <1>4 DEF Located, Range
<1>6. /\ pool'[i].id = order.id
      /\ \A s \in Slots : s # i => pool'[s].id = pool[s].id
  <2>1. \A s \in Slots : pool[s] \in OrderNode
    BY PoolFacts
  <2>2. QED
    BY <2>1 DEF RestRemainder, AppendedPool, OrderNode
<1>7. \A id \in DOMAIN order_location' : Slot(id)'.id = id
  BY <1>3, <1>4, <1>6, LocatedFacts DEF Slot
<1>8. /\ \A s \in Slots' : s \in Located' <=> s \notin Range(free_slots')
      /\ \A j, k \in DOMAIN free_slots' :
           free_slots'[j] = free_slots'[k] => j = k
  <2>1. CASE free_slots = <<>>
    <3>1. free_slots' = <<>> /\ Range(free_slots) = {} /\ DOMAIN free_slots' = {}
      BY <1>2, <2>1 DEF SlotsLeft, Range
    <3>2. QED
      BY <1>1, <1>5, <2>1, <3>1 DEF SlotsAccounted
  <2>2. CASE free_slots # <<>>
    <3>1. free_slots' = Front(free_slots) /\ i = Last(free_slots) /\ i \in Slots
      BY <1>2, <2>2, AllocatedSlotType DEF SlotsLeft, AllocatedSlot
    <3>2. Range(free_slots') = Range(free_slots) \ {i}
      BY <1>2, <2>2, <3>1, FrontRange DEF SlotsAccounted
    <3>3. \A s \in Slots' : s \in Located' <=> s \notin Range(free_slots')
      BY <1>1, <1>5, <3>1, <3>2 DEF SlotsAccounted
    <3>4. /\ DOMAIN free_slots = 1 .. Len(free_slots)
          /\ DOMAIN free_slots' = 1 .. Len(free_slots) - 1
          /\ Len(free_slots) \in Nat \ {0}
          /\ \A j \in DOMAIN free_slots' : free_slots'[j] = free_slots[j]
      BY <1>2, <2>2, <3>1, FrontProperties, LenProperties
    <3>5. \A j, k \in DOMAIN free_slots' :
            free_slots'[j] = free_slots'[k] => j = k
      BY <3>4 DEF SlotsAccounted
    <3>6. QED
      BY <3>3, <3>5
  <2>3. QED
    BY <2>1, <2>2
<1>9. QED
  BY <1>1, <1>3, <1>5, <1>7, <1>8 DEF SlotsAccounted

----------------------------------------------------------------------------
(* Lists: unlinking, appending and erasing keep them threaded.             *)

LEMMA OnLevelFinite ==
  ASSUME TypeOK, NEW side, NEW p
  PROVE  IsFiniteSet({s \in Slots : OnLevel(s, side, p)})
<1>1. IsFiniteSet(Slots)
  BY PoolFacts, FS_Interval DEF Slots
<1>2. QED
  BY <1>1, FS_Subset

(* A located node's neighbours, and its level.                             *)
LEMMA NodeFacts ==
  ASSUME TypeOK, SlotsAccounted, LevelsThreaded, NEW s \in Located
  PROVE  /\ s \in Slots /\ s # kInvalid
         /\ pool[s] \in OrderNode
         /\ pool[s].side \in Side
         /\ pool[s].price \in DOMAIN levels[pool[s].side]
         /\ arrival[s] \in Nat /\ arrival[s] < clock
         /\ pool[s].prev = kInvalid
              <=> levels[pool[s].side][pool[s].price].head = s
         /\ pool[s].next = kInvalid
              <=> levels[pool[s].side][pool[s].price].tail = s
         /\ pool[s].prev # kInvalid => Ahead(pool[s].prev, s)
         /\ pool[s].next # kInvalid => Ahead(s, pool[s].next)
<1>1. s \in Slots /\ pool[s] \in OrderNode
  BY LocatedFacts
<1>2. s # kInvalid
  BY <1>1, PoolFacts DEF kInvalid
<1>3. pool[s].side \in Side
  BY <1>1 DEF OrderNode
<1>4. QED
  BY <1>1, <1>2, <1>3 DEF LevelsThreaded, TypeOK

LEMMA LevelFacts ==
  ASSUME TypeOK, LevelsThreaded, NEW side \in Side,
         NEW p \in DOMAIN levels[side]
  PROVE  LET level == levels[side][p]
         IN  /\ level \in PriceLevel
             /\ level.head = kInvalid <=> level.tail = kInvalid
             /\ level.head # kInvalid => OnLevel(level.head, side, p)
             /\ level.tail # kInvalid => OnLevel(level.tail, side, p)
             /\ level.count = Cardinality({s \in Slots : OnLevel(s, side, p)})
BY LevelTypes DEF LevelsThreaded

(* The lists after a step: as OnLevel, Ahead and LevelsThreaded, for slots, *)
(* sides and prices read before it.                                        *)
OnLevelNext(s, side, p) ==
  s \in Located' /\ pool'[s].side = side /\ pool'[s].price = p

AheadNext(s, t) ==
  /\ OnLevelNext(s, pool'[t].side, pool'[t].price)
  /\ t \in Located'
  /\ pool'[s].next = t
  /\ pool'[t].prev = s
  /\ arrival'[s] < arrival'[t]

NodeThreadedNext(s) ==
  LET node == pool'[s]
      level == levels'[node.side][node.price]
  IN  /\ arrival'[s] < clock'
      /\ node.price \in DOMAIN levels'[node.side]
      /\ node.prev = kInvalid <=> level.head = s
      /\ node.next = kInvalid <=> level.tail = s
      /\ node.prev # kInvalid => AheadNext(node.prev, s)
      /\ node.next # kInvalid => AheadNext(s, node.next)

LevelThreadedNext(side, p) ==
  LET level == levels'[side][p]
  IN  /\ level.head = kInvalid <=> level.tail = kInvalid
      /\ level.head # kInvalid => OnLevelNext(level.head, side, p)
      /\ level.tail # kInvalid => OnLevelNext(level.tail, side, p)
      /\ level.count = Cardinality({s \in Slots' : OnLevelNext(s, side, p)})

LEMMA ThreadedNext ==
  ASSUME \A s \in Located' : NodeThreadedNext(s),
         \A side \in Side, p \in Prices :
           p \in DOMAIN levels'[side] => LevelThreadedNext(side, p),
         TypeOK'
  PROVE  LevelsThreaded'
<1>1. \A side \in Side : \A p \in DOMAIN levels'[side] : p \in Prices
  BY DEF TypeOK
<1>2. QED
  BY <1>1 DEF LevelsThreaded, NodeThreadedNext, LevelThreadedNext,
              AheadNext, OnLevelNext, Ahead, OnLevel

(* What a step does when it takes the order of slot i off its list, whether*)
(* it keeps the level or erases it for being empty.                        *)
Unlinks(i) ==
  LET side == pool[i].side
      p == pool[i].price
      level == UnlinkedLevel(i, levels[side][p])
  IN  /\ Slots' = Slots
      /\ Located' = Located \ {i}
      /\ arrival' = arrival /\ clock' = clock
      /\ \A s \in Slots :
           /\ pool'[s].side = pool[s].side
           /\ pool'[s].price = pool[s].price
      /\ \A s \in Slots \ {i} :
           /\ pool'[s].next =
                IF s = pool[i].prev THEN pool[i].next ELSE pool[s].next
           /\ pool'[s].prev =
                IF s = pool[i].next THEN pool[i].prev ELSE pool[s].prev
      /\ DOMAIN levels' = Side
      /\ \A sd \in Side, q \in Prices :
           IF sd = side /\ q = p
           THEN IF q \in DOMAIN levels'[sd] THEN levels'[sd][q] = level
                ELSE level.count = 0
           ELSE /\ q \in DOMAIN levels'[sd] <=> q \in DOMAIN levels[sd]
                /\ q \in DOMAIN levels'[sd] =>
                     levels'[sd][q] = levels[sd][q]

LEMMA UnlinkThreaded ==
  ASSUME TypeOK, TypeOK', SlotsAccounted, LevelsThreaded,
         NEW i \in Located, Unlinks(i)
  PROVE  LevelsThreaded'
<1> DEFINE side == pool[i].side
           p == pool[i].price
           a == pool[i].prev
           b == pool[i].next
           old == levels[side][p]
           new == UnlinkedLevel(i, old)
           Resting(sd, q) == {s \in Slots : OnLevel(s, sd, q)}
           RestingNext(sd, q) == {s \in Slots' : OnLevelNext(s, sd, q)}
<1>1. /\ i \in Slots /\ i # kInvalid
      /\ side \in Side /\ p \in DOMAIN levels[side] /\ p \in Prices
      /\ a = kInvalid <=> old.head = i
      /\ b = kInvalid <=> old.tail = i
      /\ a # kInvalid => Ahead(a, i)
      /\ b # kInvalid => Ahead(i, b)
      /\ arrival[i] \in Nat
  BY NodeFacts DEF OrderNode
<1>2. /\ a # i /\ b # i
      /\ a # kInvalid => /\ OnLevel(a, side, p) /\ pool[a].next = i
                         /\ arrival[a] < arrival[i] /\ arrival[a] \in Nat
                         /\ a \in Slots
      /\ b # kInvalid => /\ OnLevel(b, side, p) /\ pool[b].prev = i
                         /\ arrival[i] < arrival[b] /\ arrival[b] \in Nat
                         /\ b \in Slots
      /\ a # kInvalid /\ b # kInvalid => a # b
  <2>1. a # kInvalid => /\ OnLevel(a, side, p) /\ pool[a].next = i
                        /\ arrival[a] < arrival[i] /\ arrival[a] \in Nat
                        /\ a \in Slots
    BY <1>1, NodeFacts DEF Ahead, OnLevel
  <2>2. b # kInvalid => /\ OnLevel(b, side, p) /\ pool[b].prev = i
                        /\ arrival[i] < arrival[b] /\ arrival[b] \in Nat
                        /\ b \in Slots
    BY <1>1, NodeFacts DEF Ahead, OnLevel
  <2>3. QED
    BY <1>1, <2>1, <2>2
<1>3. \A s, sd, q : OnLevelNext(s, sd, q) <=> OnLevel(s, sd, q) /\ s # i
  BY LocatedFacts DEF Unlinks, OnLevel, OnLevelNext
<1>4. /\ RestingNext(side, p) = Resting(side, p) \ {i}
      /\ i \in Resting(side, p)
      /\ \A sd, q : ~(sd = side /\ q = p) => RestingNext(sd, q) = Resting(sd, q)
  BY <1>1, <1>3 DEF Unlinks, OnLevel
<1>5. /\ Cardinality(RestingNext(side, p)) = old.count - 1
      /\ old.count \in Int
      /\ old.count - 1 = 0 => RestingNext(side, p) = {}
  <2>1. IsFiniteSet(Resting(side, p))
    BY OnLevelFinite
  <2>2. old.count = Cardinality(Resting(side, p)) /\ old \in PriceLevel
    BY <1>1, LevelFacts
  <2>3. /\ IsFiniteSet(RestingNext(side, p))
        /\ Cardinality(RestingNext(side, p)) = Cardinality(Resting(side, p)) - 1
    BY <1>4, <2>1, FS_RemoveElement
  <2>4. QED
    BY <2>2, <2>3, FS_EmptySet DEF PriceLevel
<1>6. /\ new.head = IF a = kInvalid THEN b ELSE old.head
      /\ new.tail = IF b = kInvalid THEN a ELSE old.tail
      /\ new.count = old.count - 1
  BY DEF UnlinkedLevel
<1>7. ASSUME NEW s \in Located'
      PROVE  NodeThreadedNext(s)
  <2>1. s \in Located /\ s # i /\ s \in Slots /\ s # kInvalid
    BY <1>7, NodeFacts DEF Unlinks
  <2> DEFINE sd == pool[s].side
             q == pool[s].price
             level == levels[sd][q]
  <2>2. /\ sd \in Side /\ q \in DOMAIN levels[sd] /\ q \in Prices
        /\ arrival[s] < clock
        /\ arrival[s] \in Nat
        /\ pool[s].prev = kInvalid <=> level.head = s
        /\ pool[s].next = kInvalid <=> level.tail = s
        /\ pool[s].prev # kInvalid => Ahead(pool[s].prev, s)
        /\ pool[s].next # kInvalid => Ahead(s, pool[s].next)
    BY <2>1, NodeFacts DEF OrderNode
  <2>3. /\ pool'[s].side = sd /\ pool'[s].price = q
        /\ arrival'[s] < clock'
    BY <2>1, <2>2 DEF Unlinks
  <2>4. q \in DOMAIN levels'[sd]
    <3>1. CASE sd = side /\ q = p
      <4>1. s \in RestingNext(side, p)
        BY <1>4, <2>1, <3>1 DEF OnLevel, OnLevelNext
      <4>2. QED
        BY <1>5, <1>6, <2>2, <3>1, <4>1 DEF Unlinks
    <3>2. CASE ~(sd = side /\ q = p)
      BY <2>2, <3>2 DEF Unlinks
    <3>3. QED
      BY <3>1, <3>2
  <2>5. levels'[sd][q] = IF sd = side /\ q = p THEN new ELSE level
    BY <2>2, <2>4 DEF Unlinks
  <2>6. /\ pool'[s].next = IF s = a THEN b ELSE pool[s].next
        /\ pool'[s].prev = IF s = b THEN a ELSE pool[s].prev
    BY <2>1 DEF Unlinks
  <2>7. pool[s].prev = i => s = b
    BY <1>1, <2>2 DEF Ahead, AheadNext
  <2>8. pool[s].next = i => s = a
    BY <1>1, <2>2 DEF Ahead, AheadNext
  <2>9. pool'[s].prev = kInvalid <=> levels'[sd][q].head = s
    BY <1>1, <1>2, <1>6, <2>1, <2>2, <2>5, <2>6, <2>7 DEF OnLevel, OnLevelNext
  <2>10. pool'[s].next = kInvalid <=> levels'[sd][q].tail = s
    BY <1>1, <1>2, <1>6, <2>1, <2>2, <2>5, <2>6, <2>8 DEF OnLevel, OnLevelNext
  <2>11. ASSUME pool'[s].prev # kInvalid
         PROVE  AheadNext(pool'[s].prev, s)
    <3>1. CASE s = b
      <4>1. pool'[s].prev = a /\ a # kInvalid /\ b # kInvalid
        BY <2>1, <2>6, <2>11, <3>1
      <4>2. /\ pool'[a].next = b
            /\ arrival'[a] < arrival'[b]
        BY <1>1, <1>2, <4>1 DEF Unlinks
      <4>3. OnLevelNext(a, side, p) /\ sd = side /\ q = p
        BY <1>2, <1>3, <3>1, <4>1 DEF OnLevel, OnLevelNext
      <4>4. QED
        BY <1>7, <2>3, <3>1, <4>1, <4>2, <4>3 DEF Ahead, AheadNext
    <3>2. CASE s # b
      <4> DEFINE t == pool[s].prev
      <4>1. pool'[s].prev = t /\ t # kInvalid /\ Ahead(t, s) /\ t # i
        BY <2>2, <2>6, <2>7, <2>11, <3>2
      <4>2. t \in Slots /\ t # a
        BY <1>1, <1>2, <2>1, <4>1, LocatedFacts DEF Ahead, AheadNext, OnLevel, OnLevelNext
      <4>3. pool'[t].next = s /\ arrival'[t] < arrival'[s]
        BY <4>1, <4>2 DEF Unlinks, Ahead
      <4>4. OnLevelNext(t, sd, q)
        BY <1>3, <4>1 DEF Ahead, AheadNext
      <4>5. QED
        BY <1>7, <2>3, <4>1, <4>3, <4>4 DEF Ahead, AheadNext
    <3>3. QED
      BY <3>1, <3>2
  <2>12. ASSUME pool'[s].next # kInvalid
         PROVE  AheadNext(s, pool'[s].next)
    <3>1. CASE s = a
      <4>1. pool'[s].next = b /\ a # kInvalid /\ b # kInvalid
        BY <2>1, <2>6, <2>12, <3>1
      <4>2. /\ pool'[b].prev = a
            /\ arrival'[a] < arrival'[b]
        BY <1>1, <1>2, <4>1 DEF Unlinks
      <4>3. OnLevelNext(a, side, p) /\ OnLevelNext(b, side, p) /\ sd = side /\ q = p
        BY <1>2, <1>3, <3>1, <4>1 DEF OnLevel, OnLevelNext
      <4>4. QED
        BY <1>7, <2>3, <3>1, <4>1, <4>2, <4>3 DEF Ahead, AheadNext, OnLevel, OnLevelNext
    <3>2. CASE s # a
      <4> DEFINE t == pool[s].next
      <4>1. pool'[s].next = t /\ t # kInvalid /\ Ahead(s, t) /\ t # i
        BY <2>2, <2>6, <2>8, <2>12, <3>2
      <4>2. t \in Slots /\ t # b
        BY <1>1, <1>2, <2>1, <4>1, LocatedFacts DEF Ahead, AheadNext, OnLevel, OnLevelNext
      <4>3. pool'[t].prev = s /\ arrival'[s] < arrival'[t]
        BY <4>1, <4>2 DEF Unlinks, Ahead
      <4>4. /\ OnLevelNext(s, sd, q) /\ t \in Located'
            /\ pool'[t].side = sd /\ pool'[t].price = q
        BY <1>3, <2>1, <4>1, <4>2 DEF Ahead, OnLevel, Unlinks
      <4>5. QED
        BY <4>1, <4>3, <4>4 DEF Ahead, AheadNext
    <3>3. QED
      BY <3>1, <3>2
  <2>13. QED
    BY <2>3, <2>4, <2>9, <2>10, <2>11, <2>12 DEF NodeThreadedNext
<1>8. ASSUME NEW sd \in Side, NEW q \in Prices, q \in DOMAIN levels'[sd]
      PROVE  LevelThreadedNext(sd, q)
  <2>2. CASE sd = side /\ q = p
    <3>1. levels'[sd][q] = new
      BY <1>8, <2>2 DEF Unlinks
    <3>2. /\ old.head = kInvalid <=> old.tail = kInvalid
          /\ old.head # kInvalid => OnLevel(old.head, side, p)
          /\ old.tail # kInvalid => OnLevel(old.tail, side, p)
      BY <1>1, LevelFacts
    <3>3. QED
      BY <1>1, <1>2, <1>3, <1>5, <1>6, <2>2, <3>1, <3>2
       DEF LevelThreadedNext
  <2>3. CASE ~(sd = side /\ q = p)
    <3>1. q \in DOMAIN levels[sd] /\ levels'[sd][q] = levels[sd][q]
      BY <1>8, <2>3 DEF Unlinks
    <3>2. LET level == levels[sd][q]
          IN  /\ level.head = kInvalid <=> level.tail = kInvalid
              /\ level.head # kInvalid => OnLevel(level.head, sd, q)
              /\ level.tail # kInvalid => OnLevel(level.tail, sd, q)
              /\ level.count = Cardinality(Resting(sd, q))
      BY <3>1, LevelFacts
    <3>3. ~OnLevel(i, sd, q)
      BY <2>3 DEF OnLevel, OnLevelNext
    <3>4. QED
      BY <1>3, <1>4, <2>3, <3>1, <3>2, <3>3 DEF LevelThreadedNext
  <2>4. QED
    BY <2>2, <2>3
<1>9. QED
  BY <1>7, <1>8, ThreadedNext

(* The step that puts the order of a call to rest.                         *)
LEMMA RestThreaded ==
  ASSUME TypeOK, TypeOK', SlotsAccounted, LevelsThreaded, RestRemainder,
         order.id \notin DOMAIN order_location
  PROVE  LevelsThreaded'
<1> DEFINE i == AllocatedSlot
           side == order.side
           p == order.price
           old == LevelAt(side, p)
           new == AppendedLevel(i, old)
           t == old.tail
           Resting(sd, q) == {s \in Slots : OnLevel(s, sd, q)}
           RestingNext(sd, q) == {s \in Slots' : OnLevelNext(s, sd, q)}
<1>1. /\ i \notin Located /\ i # kInvalid
      /\ Located' = Located \cup {i}
      /\ Slots' = Slots \cup {i}
      /\ Located \subseteq Slots
  BY RestAccounted, AllocatedSlotType, LocatedFacts DEF kInvalid
<1>2. side \in Side /\ p \in Prices
  BY DEF TypeOK, RestRemainder, Order
<1>3. /\ old.head = kInvalid <=> t = kInvalid
      /\ old.head # kInvalid => OnLevel(old.head, side, p)
      /\ t # kInvalid => OnLevel(t, side, p)
      /\ old.count = Cardinality(Resting(side, p))
  <2>1. CASE p \in DOMAIN levels[side]
    BY <1>2, <2>1, LevelFacts DEF LevelAt
  <2>2. CASE p \notin DOMAIN levels[side]
    <3>1. Resting(side, p) = {}
      BY <2>2, NodeFacts DEF OnLevel
    <3>2. QED
      BY <2>2, <3>1, FS_EmptySet DEF LevelAt
  <2>3. QED
    BY <2>1, <2>2
<1>4. /\ pool'[i].side = side /\ pool'[i].price = p
      /\ pool'[i].prev = t /\ pool'[i].next = kInvalid
      /\ \A s \in Slots \ {i} :
           /\ pool'[s].side = pool[s].side
           /\ pool'[s].price = pool[s].price
           /\ pool'[s].prev = pool[s].prev
           /\ pool'[s].next = IF s = t THEN i ELSE pool[s].next
  <2>1. \A s \in Slots : pool[s] \in OrderNode
    BY PoolFacts
  <2>2. QED
    BY <2>1 DEF RestRemainder, AppendedPool, OrderNode
<1>5. /\ arrival'[i] = clock
      /\ \A s \in Slots \ {i} : arrival'[s] = arrival[s]
      /\ clock' = clock + 1 /\ clock \in Nat
  BY DEF RestRemainder, Insert, TypeOK
<1>6. /\ DOMAIN levels' = Side
      /\ \A sd \in Side, q \in Prices :
           IF sd = side /\ q = p
           THEN q \in DOMAIN levels'[sd] /\ levels'[sd][q] = new
           ELSE /\ q \in DOMAIN levels'[sd] <=> q \in DOMAIN levels[sd]
                /\ q \in DOMAIN levels'[sd] =>
                     levels'[sd][q] = levels[sd][q]
  BY <1>2 DEF RestRemainder, Insert, TypeOK
<1>7. /\ new.head = IF t = kInvalid THEN i ELSE old.head
      /\ new.tail = i
      /\ new.count = old.count + 1
  BY DEF AppendedLevel
<1>8. \A s, sd, q : OnLevelNext(s, sd, q) <=>
                     OnLevel(s, sd, q) \/ (s = i /\ sd = side /\ q = p)
  BY <1>1, <1>4 DEF OnLevel, OnLevelNext
<1>9. /\ RestingNext(side, p) = Resting(side, p) \cup {i}
      /\ i \notin Resting(side, p)
      /\ \A sd, q : ~(sd = side /\ q = p) =>
           RestingNext(sd, q) = Resting(sd, q)
  BY <1>1, <1>8 DEF OnLevel
<1>10. Cardinality(RestingNext(side, p)) = new.count
  <2>1. IsFiniteSet(Resting(side, p))
    BY OnLevelFinite
  <2>2. Cardinality(RestingNext(side, p)) = Cardinality(Resting(side, p)) + 1
    BY <1>9, <2>1, FS_AddElement
  <2>3. QED
    BY <1>3, <1>7, <2>2
<1>11. ASSUME NEW s \in Located'
       PROVE  NodeThreadedNext(s)
  <2>1. CASE s = i
    <3>1. arrival'[i] < clock' /\ p \in DOMAIN levels'[side]
      BY <1>2, <1>5, <1>6
    <3>2. levels'[side][p] = new
      BY <1>2, <1>6
    <3>3. pool'[i].prev = kInvalid <=> new.head = i
      BY <1>1, <1>3, <1>4, <1>7 DEF OnLevel
    <3>4. t # kInvalid => AheadNext(t, i)
      BY <1>1, <1>3, <1>4, <1>5, <1>8, NodeFacts DEF AheadNext, OnLevel
    <3>5. QED
      BY <1>4, <1>7, <2>1, <3>1, <3>2, <3>3, <3>4 DEF NodeThreadedNext
  <2>2. CASE s # i
    <3> DEFINE sd == pool[s].side
               q == pool[s].price
               level == levels[sd][q]
    <3>1. s \in Located /\ s \in Slots
      BY <1>1, <1>11, <2>2
    <3>2. /\ s # kInvalid /\ sd \in Side /\ q \in DOMAIN levels[sd]
          /\ q \in Prices
          /\ arrival[s] < clock /\ arrival[s] \in Nat
          /\ pool[s].prev = kInvalid <=> level.head = s
          /\ pool[s].next = kInvalid <=> level.tail = s
          /\ pool[s].prev # kInvalid => Ahead(pool[s].prev, s)
          /\ pool[s].next # kInvalid => Ahead(s, pool[s].next)
      BY <3>1, NodeFacts DEF OrderNode
    <3>3. /\ q \in DOMAIN levels'[sd]
          /\ levels'[sd][q] = IF sd = side /\ q = p THEN new ELSE level
          /\ sd = side /\ q = p => old = level
      BY <1>6, <3>2 DEF LevelAt
    <3>4. /\ pool'[s].side = sd /\ pool'[s].price = q
          /\ pool'[s].prev = pool[s].prev
          /\ pool'[s].next = IF s = t THEN i ELSE pool[s].next
          /\ arrival'[s] = arrival[s]
      BY <1>4, <1>5, <2>2, <3>1
    <3>5. pool'[s].prev = kInvalid <=> levels'[sd][q].head = s
      BY <1>1, <1>3, <1>7, <2>2, <3>2, <3>3, <3>4
    <3>6. pool'[s].next = kInvalid <=> levels'[sd][q].tail = s
      BY <1>1, <1>3, <1>7, <2>2, <3>2, <3>3, <3>4 DEF OnLevel
    <3>7. ASSUME pool'[s].prev # kInvalid
          PROVE  AheadNext(pool'[s].prev, s)
      <4> DEFINE r == pool[s].prev
      <4>1. Ahead(r, s) /\ r \in Located /\ r # i /\ r \in Slots
        BY <1>1, <3>2, <3>4, <3>7 DEF Ahead, OnLevel
      <4>2. r # t
        <5>1. SUFFICES ASSUME r = t PROVE FALSE
          OBVIOUS
        <5>2. /\ pool[t].side = side /\ pool[t].price = p
              /\ pool[t].next = s /\ t # kInvalid
          BY <1>3, <3>4, <3>7, <4>1, <5>1 DEF Ahead, OnLevel
        <5>3. levels[side][p].tail = t
          BY <1>3, <4>1, <5>1, <5>2, NodeFacts DEF LevelAt
        <5>4. pool[t].next = kInvalid
          BY <4>1, <5>1, <5>2, <5>3, NodeFacts
        <5>5. QED
          BY <3>2, <5>2, <5>4
      <4>3. pool'[r].next = s /\ arrival'[r] < arrival'[s]
        BY <1>4, <1>5, <3>4, <4>1, <4>2 DEF Ahead
      <4>4. OnLevelNext(r, sd, q)
        BY <1>8, <4>1 DEF Ahead
      <4>5. QED
        BY <1>11, <3>4, <4>3, <4>4 DEF AheadNext
    <3>8. ASSUME pool'[s].next # kInvalid
          PROVE  AheadNext(s, pool'[s].next)
      <4>1. CASE s = t
        <5>1. t # kInvalid /\ sd = side /\ q = p
          BY <1>3, <3>2, <4>1 DEF OnLevel
        <5>2. arrival'[s] < arrival'[i]
          BY <1>5, <3>2, <3>4
        <5>3. QED
          BY <1>1, <1>4, <1>11, <3>4, <4>1, <5>1, <5>2
             DEF AheadNext, OnLevelNext
      <4>2. CASE s # t
        <5> DEFINE r == pool[s].next
        <5>1. pool'[s].next = r /\ Ahead(s, r) /\ r \in Located /\ r # i
          BY <1>1, <3>2, <3>4, <3>8, <4>2 DEF Ahead
        <5>2. r \in Slots /\ pool'[r].prev = s /\ arrival'[s] < arrival'[r]
          BY <1>1, <1>4, <1>5, <3>4, <5>1 DEF Ahead
        <5>3. /\ OnLevelNext(s, sd, q) /\ r \in Located'
              /\ pool'[r].side = sd /\ pool'[r].price = q
          BY <1>1, <1>4, <1>8, <5>1, <5>2 DEF Ahead, OnLevel
        <5>4. QED
          BY <5>1, <5>2, <5>3 DEF AheadNext
      <4>3. QED
        BY <4>1, <4>2
    <3>9. arrival'[s] < clock'
      BY <1>5, <3>2, <3>4
    <3>10. QED
      BY <3>3, <3>4, <3>5, <3>6, <3>7, <3>8, <3>9 DEF NodeThreadedNext
  <2>3. QED
    BY <2>1, <2>2
<1>12. ASSUME NEW sd \in Side, NEW q \in Prices, q \in DOMAIN levels'[sd]
       PROVE  LevelThreadedNext(sd, q)
  <2>1. CASE sd = side /\ q = p
    BY <1>1, <1>3, <1>6, <1>7, <1>8, <1>10, <2>1 DEF LevelThreadedNext
  <2>2. CASE ~(sd = side /\ q = p)
    <3>1. q \in DOMAIN levels[sd] /\ levels'[sd][q] = levels[sd][q]
      BY <1>6, <1>12, <2>2
    <3>2. QED
      BY <1>8, <1>9, <2>2, <3>1, LevelFacts DEF LevelThreadedNext
  <2>3. QED
    BY <2>1, <2>2
<1>13. QED
  BY <1>11, <1>12, ThreadedNext

(* Erasing a level that has no order.                                      *)
LEMMA EndLevelThreaded ==
  ASSUME TypeOK, TypeOK', SlotsAccounted, LevelsThreaded, EndLevel
  PROVE  LevelsThreaded' /\ SlotsAccounted'
<1> DEFINE side == Opposite(order.side)
           Resting(sd, q) == {s \in Slots : OnLevel(s, sd, q)}
<1>1. side \in Side /\ level_it \in DOMAIN levels[side]
  BY DEF EndLevel, TypeOK, Side, Opposite
<1>2. /\ pool' = pool /\ Slots' = Slots /\ Located' = Located
      /\ arrival' = arrival /\ clock' = clock
  BY DEF EndLevel, Slots, Located
<1>3. /\ DOMAIN levels' = Side
      /\ \A sd \in Side : \A q \in DOMAIN levels'[sd] :
           q \in DOMAIN levels[sd] /\ levels'[sd][q] = levels[sd][q]
      /\ \A sd \in Side : \A q \in DOMAIN levels[sd] :
           q \notin DOMAIN levels'[sd] => levels[sd][q].count = 0
  BY <1>1 DEF EndLevel, TypeOK, EraseIfEmpty, Erase, Restrict
<1>4. /\ \A s, sd, q : OnLevelNext(s, sd, q) <=> OnLevel(s, sd, q)
      /\ \A s, r : AheadNext(s, r) <=> Ahead(s, r)
  BY <1>2 DEF OnLevelNext, OnLevel, AheadNext, Ahead
<1>5. ASSUME NEW s \in Located'
      PROVE  NodeThreadedNext(s)
  <2>1. s \in Located
    BY <1>2, <1>5
  <2> DEFINE sd == pool[s].side
             q == pool[s].price
  <2>2. sd \in Side /\ q \in DOMAIN levels[sd]
    BY <2>1, NodeFacts
  <2>3. levels[sd][q].count # 0
    <3>1. s \in Resting(sd, q)
      BY <2>1, LocatedFacts DEF OnLevel
    <3>2. Cardinality(Resting(sd, q)) # 0
      BY <3>1, OnLevelFinite, FS_EmptySet
    <3>3. QED
      BY <2>2, <3>2, LevelFacts
  <2>4. q \in DOMAIN levels'[sd] /\ levels'[sd][q] = levels[sd][q]
    BY <1>3, <2>2, <2>3
  <2>5. QED
    BY <1>2, <1>4, <2>1, <2>4, NodeFacts DEF NodeThreadedNext
<1>6. ASSUME NEW sd \in Side, NEW q \in Prices, q \in DOMAIN levels'[sd]
      PROVE  LevelThreadedNext(sd, q)
  <2>1. q \in DOMAIN levels[sd] /\ levels'[sd][q] = levels[sd][q]
    BY <1>3, <1>6
  <2>2. {s \in Slots' : OnLevelNext(s, sd, q)} = Resting(sd, q)
    BY <1>2, <1>4
  <2>3. QED
    BY <1>4, <2>1, <2>2, LevelFacts DEF LevelThreadedNext
<1>7. SlotsAccounted'
  BY <1>2 DEF EndLevel, SlotsAccounted, Slot, Located
<1>8. QED
  BY <1>5, <1>6, <1>7, ThreadedNext

(* A step that changes quantities only.                                    *)
SameLists ==
  /\ Slots' = Slots
  /\ UNCHANGED <<free_slots, levels, order_location, arrival, clock>>
  /\ \A s \in Slots :
       /\ pool'[s].id = pool[s].id
       /\ pool'[s].side = pool[s].side
       /\ pool'[s].price = pool[s].price
       /\ pool'[s].prev = pool[s].prev
       /\ pool'[s].next = pool[s].next

LEMMA SameListsThreaded ==
  ASSUME TypeOK, TypeOK', SlotsAccounted, LevelsThreaded, SameLists
  PROVE  LevelsThreaded' /\ SlotsAccounted' /\ Located' = Located
<1>1. Located' = Located /\ Located \subseteq Slots
  BY LocatedFacts DEF SameLists, Located
<1>2. /\ \A s, sd, q : OnLevelNext(s, sd, q) <=> OnLevel(s, sd, q)
      /\ \A s, r : AheadNext(s, r) <=> Ahead(s, r)
  BY <1>1 DEF SameLists, OnLevelNext, OnLevel, AheadNext, Ahead
<1>3. ASSUME NEW s \in Located'
      PROVE  NodeThreadedNext(s)
  BY <1>1, <1>2, <1>3, NodeFacts DEF SameLists, NodeThreadedNext
<1>4. ASSUME NEW sd \in Side, NEW q \in Prices, q \in DOMAIN levels'[sd]
      PROVE  LevelThreadedNext(sd, q)
  <2>1. q \in DOMAIN levels[sd] /\ levels'[sd][q] = levels[sd][q]
    BY <1>4 DEF SameLists
  <2>2. {s \in Slots' : OnLevelNext(s, sd, q)}
          = {s \in Slots : OnLevel(s, sd, q)}
    BY <1>2 DEF SameLists
  <2>3. QED
    BY <1>2, <2>1, <2>2, LevelFacts DEF LevelThreadedNext
<1>5. SlotsAccounted'
  <2>1. \A id \in DOMAIN order_location' : Slot(id)'.id = id
    BY LocatedFacts DEF SameLists, Slot
  <2>2. QED
    BY <1>1, <2>1 DEF SameLists, SlotsAccounted
<1>6. QED
  BY <1>1, <1>3, <1>4, <1>5, ThreadedNext

----------------------------------------------------------------------------
(* The steps in these terms.                                               *)

LEMMA FillPartSameLists ==
  ASSUME TypeOK, FillPart
  PROVE  /\ SameLists
         /\ current \in Slots
         /\ pool'[current].quantity = pool[current].quantity - remaining
         /\ \A s \in Slots \ {current} : pool'[s] = pool[s]
<1>1. current \in Slots /\ \A s \in Slots : pool[s] \in OrderNode
  BY CursorTypes, PoolFacts DEF FillPart
<1>2. /\ DOMAIN pool = Slots
      /\ pool' = [pool EXCEPT ![current].quantity = @ - remaining]
  BY PoolFacts DEF FillPart
<1>3. Slots' = Slots
  <2>1. pool' \in [Slots -> OrderNode]
    <3>1. pool[current].quantity - remaining \in Int
      BY <1>1 DEF OrderNode, TypeOK
    <3>2. QED
      BY <1>1, <1>2, <3>1, QuantityChangeType
  <2>2. QED
    BY <2>1, SameSlots
<1>4. QED
  BY <1>1, <1>2, <1>3 DEF SameLists, FillPart, OrderNode

LEMMA ReduceOrderSameLists ==
  ASSUME TypeOK, NEW id, NEW quantity \in Quantities,
         ReduceOrder(id, quantity)
  PROVE  LET i == order_location[id]
         IN  /\ SameLists
             /\ id \in DOMAIN order_location /\ i \in Slots
             /\ 0 < quantity /\ quantity < pool[i].quantity
             /\ pool'[i].quantity = pool[i].quantity - quantity
             /\ \A s \in Slots \ {i} : pool'[s] = pool[s]
<1> DEFINE i == order_location[id]
<1>1. /\ id \in DOMAIN order_location
      /\ 0 < quantity /\ ~(quantity > Slot(id).quantity)
      /\ quantity # Slot(id).quantity
  BY QuantitiesAssumption DEF ReduceOrder, ReduceResult
<1>2. /\ i \in Slots /\ \A s \in Slots : pool[s] \in OrderNode
      /\ DOMAIN pool = Slots
      /\ pool' = [pool EXCEPT ![i].quantity = @ - quantity]
  BY <1>1, PoolFacts DEF TypeOK, ReduceOrder
<1>3. quantity < pool[i].quantity /\ pool[i].quantity - quantity \in Int
  BY <1>1, <1>2, QuantitiesAssumption DEF OrderNode, Slot
<1>4. Slots' = Slots
  BY <1>2, <1>3, QuantityChangeType, SameSlots
<1>5. QED
  BY <1>1, <1>2, <1>3, <1>4 DEF SameLists, ReduceOrder, OrderNode

(* The fields UnlinkedPool changes, when only quantities may differ between*)
(* the pool it is given and the pool of the state.                         *)
LEMMA UnlinkedPoolFields ==
  ASSUME TypeOK, NEW i \in Slots,
         NEW nodes \in [Slots -> OrderNode],
         \A s \in Slots : /\ nodes[s].id = pool[s].id
                          /\ nodes[s].side = pool[s].side
                          /\ nodes[s].price = pool[s].price
                          /\ nodes[s].prev = pool[s].prev
                          /\ nodes[s].next = pool[s].next,
         pool' = UnlinkedPool(i, nodes)
  PROVE  /\ Slots' = Slots
         /\ \A s \in Slots :
              /\ pool'[s].id = pool[s].id
              /\ pool'[s].side = pool[s].side
              /\ pool'[s].price = pool[s].price
              /\ pool'[s].quantity = nodes[s].quantity
         /\ \A s \in Slots \ {i} :
              /\ pool'[s].next =
                   IF s = pool[i].prev THEN pool[i].next ELSE pool[s].next
              /\ pool'[s].prev =
                   IF s = pool[i].next THEN pool[i].prev ELSE pool[s].prev
<1>1. Slots' = Slots
  BY UnlinkedPoolType, SameSlots
<1>2. \A s \in Slots : nodes[s] \in OrderNode
  OBVIOUS
<1>3. \A s \in Slots \ {i} : pool'[s] =
        [nodes[s] EXCEPT
           !.next = IF s = nodes[i].prev THEN nodes[i].next ELSE @,
           !.prev = IF s = nodes[i].next THEN nodes[i].prev ELSE @]
  BY DEF UnlinkedPool
<1>4. pool'[i] = [nodes[i] EXCEPT !.prev = kInvalid, !.next = kInvalid]
  BY DEF UnlinkedPool
<1>5. ASSUME NEW s \in Slots \ {i}
      PROVE  /\ pool'[s].id = pool[s].id
             /\ pool'[s].side = pool[s].side
             /\ pool'[s].price = pool[s].price
             /\ pool'[s].quantity = nodes[s].quantity
             /\ pool'[s].next =
                  IF s = pool[i].prev THEN pool[i].next ELSE pool[s].next
             /\ pool'[s].prev =
                  IF s = pool[i].next THEN pool[i].prev ELSE pool[s].prev
  <2> DEFINE next == IF s = nodes[i].prev THEN nodes[i].next ELSE nodes[s].next
             prev == IF s = nodes[i].next THEN nodes[i].prev ELSE nodes[s].prev
  <2>1. pool'[s] = [nodes[s] EXCEPT !.next = next, !.prev = prev]
    BY <1>3
  <2>2. /\ next = IF s = pool[i].prev THEN pool[i].next ELSE pool[s].next
        /\ prev = IF s = pool[i].next THEN pool[i].prev ELSE pool[s].prev
    OBVIOUS
  <2> HIDE DEF next, prev
  <2>3. /\ pool'[s].next = next /\ pool'[s].prev = prev
        /\ pool'[s].id = nodes[s].id
        /\ pool'[s].side = nodes[s].side
        /\ pool'[s].price = nodes[s].price
        /\ pool'[s].quantity = nodes[s].quantity
    BY <1>2, <2>1 DEF OrderNode
  <2>4. QED
    BY <2>2, <2>3
<1>6. /\ pool'[i].id = pool[i].id
      /\ pool'[i].side = pool[i].side
      /\ pool'[i].price = pool[i].price
      /\ pool'[i].quantity = nodes[i].quantity
  BY <1>2, <1>4 DEF OrderNode
<1>7. QED
  BY <1>1, <1>5, <1>6

(* The cursor of a filling call is at a located slot of the swept level.   *)
LEMMA CursorFacts ==
  ASSUME BookInv, pc = "fill", current # kInvalid
  PROVE  LET side == Opposite(order.side)
         IN  /\ side \in Side /\ level_it \in DOMAIN levels[side]
             /\ current \in Located
             /\ pool[current].side = side /\ pool[current].price = level_it
             /\ levels[side][level_it].head = current
             /\ pool[current].prev = kInvalid
<1>1. /\ Opposite(order.side) \in Side
      /\ level_it \in DOMAIN levels[Opposite(order.side)]
      /\ current = levels[Opposite(order.side)][level_it].head
  BY CursorTypes DEF BookInv, SweepAtHead
<1>2. OnLevel(current, Opposite(order.side), level_it)
  BY <1>1, LevelFacts DEF BookInv
<1>3. QED
  BY <1>1, <1>2, NodeFacts DEF OnLevel, BookInv

LEMMA FillWholeUnlinks ==
  ASSUME BookInv, FillWhole
  PROVE  /\ current \in Located
         /\ Unlinks(current)
         /\ SlotsAccounted'
         /\ \A s \in Slots \ {current} : pool'[s].quantity = pool[s].quantity
         /\ \A sd \in Side : DOMAIN levels'[sd] = DOMAIN levels[sd]
<1> DEFINE side == Opposite(order.side)
           nodes == [pool EXCEPT ![current].quantity = 0]
<1>1. /\ side \in Side /\ level_it \in DOMAIN levels[side]
      /\ current \in Located /\ current \in Slots
      /\ pool[current].side = side /\ pool[current].price = level_it
  BY CursorFacts, LocatedFacts DEF FillWhole, BookInv
<1>2. /\ nodes \in [Slots -> OrderNode]
      /\ \A s \in Slots : pool[s] \in OrderNode
      /\ DOMAIN pool = Slots
  BY <1>1, QuantityChangeType, PoolFacts DEF BookInv
<1>3. \A s \in Slots : /\ nodes[s].id = pool[s].id
                       /\ nodes[s].side = pool[s].side
                       /\ nodes[s].price = pool[s].price
                       /\ nodes[s].prev = pool[s].prev
                       /\ nodes[s].next = pool[s].next
                       /\ s # current => nodes[s].quantity = pool[s].quantity
  BY <1>2 DEF OrderNode
<1>4. pool' = UnlinkedPool(current, nodes)
  BY DEF FillWhole
<1> HIDE DEF nodes
<1>5. /\ Slots' = Slots
      /\ \A s \in Slots :
           /\ pool'[s].id = pool[s].id
           /\ pool'[s].side = pool[s].side
           /\ pool'[s].price = pool[s].price
           /\ pool'[s].quantity = nodes[s].quantity
      /\ \A s \in Slots \ {current} :
           /\ pool'[s].next = IF s = pool[current].prev
                               THEN pool[current].next ELSE pool[s].next
           /\ pool'[s].prev = IF s = pool[current].next
                               THEN pool[current].prev ELSE pool[s].prev
  BY <1>1, <1>2, <1>3, <1>4, UnlinkedPoolFields DEF BookInv
<1>6. SlotsAccounted' /\ Located' = Located \ {current}
  BY <1>1, <1>5, ReleaseAccounted DEF FillWhole, BookInv
<1>7. levels' = [levels EXCEPT ![side][level_it] =
                   UnlinkedLevel(current, levels[side][level_it])]
  BY DEF FillWhole
<1>8. /\ DOMAIN levels' = Side
      /\ \A sd \in Side : DOMAIN levels'[sd] = DOMAIN levels[sd]
      /\ levels'[side][level_it] =
           UnlinkedLevel(current, levels[side][level_it])
      /\ \A sd \in Side : \A q \in DOMAIN levels[sd] :
           ~(sd = side /\ q = level_it) => levels'[sd][q] = levels[sd][q]
  BY <1>1, <1>7 DEF BookInv, TypeOK
<1>9. Unlinks(current)
  <2>1. \A sd \in Side, q \in Prices :
          IF sd = pool[current].side /\ q = pool[current].price
          THEN /\ q \in DOMAIN levels'[sd]
               /\ levels'[sd][q] = UnlinkedLevel(current, levels[sd][q])
          ELSE /\ q \in DOMAIN levels'[sd] <=> q \in DOMAIN levels[sd]
               /\ q \in DOMAIN levels'[sd] => levels'[sd][q] = levels[sd][q]
    BY <1>1, <1>8
  <2>2. arrival' = arrival /\ clock' = clock
    BY DEF FillWhole
  <2>3. QED
    BY <1>1, <1>5, <1>6, <1>8, <2>1, <2>2 DEF Unlinks
<1>10. QED
  BY <1>1, <1>3, <1>5, <1>6, <1>8, <1>9

LEMMA RemoveOrderUnlinks ==
  ASSUME BookInv, NEW id, CanCancel(id), RemoveOrder(id)
  PROVE  LET i == order_location[id]
         IN  /\ i \in Located /\ pool[i].id = id
             /\ Unlinks(i)
             /\ SlotsAccounted'
             /\ \A s \in Slots : pool'[s].quantity = pool[s].quantity
             /\ \A sd \in Side : \A q \in DOMAIN levels'[sd] :
                  /\ q \in DOMAIN levels[sd]
                  /\ levels'[sd][q].count = 0 =>
                       levels'[sd][q] = levels[sd][q]
<1> DEFINE i == order_location[id]
           side == pool[i].side
           p == pool[i].price
           level == UnlinkedLevel(i, levels[side][p])
           map == EraseIfEmpty(levels[side], p, level)
<1>1. /\ i \in Located /\ i \in Slots /\ pool[i].id = id
      /\ side \in Side /\ p \in DOMAIN levels[side]
  BY LocatedFacts, NodeFacts DEF CanCancel, BookInv
<1>2. pool \in [Slots -> OrderNode]
  BY PoolFacts DEF BookInv
<1>3. pool' = UnlinkedPool(i, pool)
  BY DEF RemoveOrder
<1>4. /\ Slots' = Slots
      /\ \A s \in Slots :
           /\ pool'[s].id = pool[s].id
           /\ pool'[s].side = pool[s].side
           /\ pool'[s].price = pool[s].price
           /\ pool'[s].quantity = pool[s].quantity
      /\ \A s \in Slots \ {i} :
           /\ pool'[s].next =
                IF s = pool[i].prev THEN pool[i].next ELSE pool[s].next
           /\ pool'[s].prev =
                IF s = pool[i].next THEN pool[i].prev ELSE pool[s].prev
  BY <1>1, <1>2, <1>3, UnlinkedPoolFields DEF BookInv
<1>5. SlotsAccounted' /\ Located' = Located \ {i}
  BY <1>1, <1>4, ReleaseAccounted DEF RemoveOrder, BookInv
<1>6. levels' = [levels EXCEPT ![side] = map]
  BY DEF RemoveOrder
<1>7. /\ DOMAIN levels' = Side
      /\ levels'[side] = map
      /\ \A sd \in Side : sd # side => levels'[sd] = levels[sd]
  BY <1>1, <1>6 DEF BookInv, TypeOK
<1>8. /\ IF p \in DOMAIN map THEN map[p] = level ELSE level.count = 0
      /\ \A q \in Prices : q # p =>
           /\ q \in DOMAIN map <=> q \in DOMAIN levels[side]
           /\ q \in DOMAIN map => map[q] = levels[side][q]
  BY <1>1 DEF EraseIfEmpty, Erase, Restrict
<1>9. Unlinks(i)
  <2> HIDE DEF map, level
  <2>1. \A sd \in Side, q \in Prices :
          IF sd = side /\ q = p
          THEN IF q \in DOMAIN levels'[sd] THEN levels'[sd][q] = level
               ELSE level.count = 0
          ELSE /\ q \in DOMAIN levels'[sd] <=> q \in DOMAIN levels[sd]
               /\ q \in DOMAIN levels'[sd] => levels'[sd][q] = levels[sd][q]
    BY <1>1, <1>7, <1>8
  <2>2. arrival' = arrival /\ clock' = clock
    BY DEF RemoveOrder
  <2>3. QED
    BY <1>4, <1>5, <1>7, <2>1, <2>2 DEF Unlinks, level
<1>10. \A sd \in Side : \A q \in DOMAIN levels'[sd] :
         /\ q \in DOMAIN levels[sd]
         /\ levels'[sd][q].count = 0 => levels'[sd][q] = levels[sd][q]
  <2> HIDE DEF level
  <2>1. \A q \in DOMAIN map : /\ q \in DOMAIN levels[side]
                              /\ map[q].count = 0 => map[q] = levels[side][q]
    BY <1>1 DEF EraseIfEmpty, Erase, Restrict
  <2>2. QED
    BY <1>7, <2>1
<1>11. QED
  BY <1>1, <1>4, <1>5, <1>9, <1>10

----------------------------------------------------------------------------
(* Every step keeps the invariant.                                         *)

LEMMA SameBook ==
  ASSUME BookInv, UNCHANGED bookVars
  PROVE  SlotsAccounted' /\ LevelsThreaded' /\ NotCrossed'
BY DEF BookInv, bookVars, SlotsAccounted, LevelsThreaded, NotCrossed, Slots,
       Slot, Located, OnLevel, Ahead

LEMMA AddOrderInv ==
  ASSUME BookInv, NEW o \in Order, AddOrder(o)
  PROVE  BookInv'
<1>1. TypeOK'
  BY AddOrderType DEF BookInv
<1>2. SlotsAccounted' /\ LevelsThreaded' /\ NotCrossed'
  BY SameBook DEF AddOrder
<1>3. NothingExhausted'
  BY DEF BookInv, NothingExhausted, AddOrder, bookVars, Located
<1>4. SweepAtHead'
  BY DEF SweepAtHead, AddOrder, bookVars
<1>5. QED
  BY <1>1, <1>2, <1>3, <1>4 DEF BookInv

LEMMA MatchLevelInv ==
  ASSUME BookInv, MatchLevel
  PROVE  BookInv'
<1>1. TypeOK'
  BY MatchLevelType DEF BookInv
<1>2. SlotsAccounted' /\ LevelsThreaded' /\ NotCrossed'
  BY SameBook DEF MatchLevel
<1>3. NothingExhausted'
  BY DEF BookInv, NothingExhausted, MatchLevel, bookVars, Located
<1>4. SweepAtHead'
  BY DEF BookInv, SweepAtHead, MatchLevel, bookVars, IsBegin, Crosses
<1>5. QED
  BY <1>1, <1>2, <1>3, <1>4 DEF BookInv

LEMMA FillPartInv ==
  ASSUME BookInv, FillPart
  PROVE  BookInv'
<1>1. TypeOK'
  BY FillPartType DEF BookInv
<1>2. /\ SameLists
      /\ current \in Slots
      /\ pool'[current].quantity = pool[current].quantity - remaining
      /\ \A s \in Slots \ {current} : pool'[s] = pool[s]
  BY FillPartSameLists DEF BookInv
<1>3. SlotsAccounted' /\ LevelsThreaded' /\ Located' = Located
  BY <1>1, <1>2, SameListsThreaded DEF BookInv
<1>4. NotCrossed'
  BY DEF BookInv, NotCrossed, FillPart
<1>5. NothingExhausted'
  <2>1. \A s \in Located' : pool'[s].quantity > 0
    <3>1. pool[current].quantity - remaining > 0
      BY <1>2, PoolFacts DEF FillPart, BookInv, TypeOK, OrderNode
    <3>2. QED
      BY <1>2, <1>3, <3>1, LocatedFacts DEF BookInv, NothingExhausted
  <2>2. QED
    BY <2>1 DEF BookInv, NothingExhausted, FillPart
<1>6. SweepAtHead'
  BY DEF BookInv, SweepAtHead, FillPart, IsBegin, Crosses
<1>7. QED
  BY <1>1, <1>3, <1>4, <1>5, <1>6 DEF BookInv

LEMMA FillWholeInv ==
  ASSUME BookInv, FillWhole
  PROVE  BookInv'
<1> DEFINE side == Opposite(order.side)
<1>1. TypeOK'
  BY FillWholeType DEF BookInv
<1>2. /\ current \in Located
      /\ Unlinks(current)
      /\ SlotsAccounted'
      /\ \A s \in Slots \ {current} : pool'[s].quantity = pool[s].quantity
      /\ \A sd \in Side : DOMAIN levels'[sd] = DOMAIN levels[sd]
  BY FillWholeUnlinks
<1>3. LevelsThreaded'
  BY <1>1, <1>2, UnlinkThreaded DEF BookInv
<1>4. /\ side \in Side /\ level_it \in DOMAIN levels[side] /\ level_it \in Prices
      /\ pool[current].side = side /\ pool[current].price = level_it
      /\ pool[current].prev = kInvalid
  BY CursorFacts DEF FillWhole, BookInv, TypeOK
<1>5. NotCrossed'
  BY <1>2 DEF BookInv, NotCrossed, Side
<1>6. NothingExhausted'
  <2>1. \A s \in Located' : pool'[s].quantity > 0
    BY <1>2, LocatedFacts DEF BookInv, NothingExhausted, Unlinks
  <2>2. ASSUME NEW sd \in Side, NEW q \in DOMAIN levels'[sd],
               levels'[sd][q].count = 0
        PROVE  sd = side /\ q = level_it
    <3>1. q \in Prices
      BY <1>1, <2>2 DEF TypeOK
    <3>2. CASE ~(sd = side /\ q = level_it)
      <4>1. q \in DOMAIN levels[sd] /\ levels[sd][q].count = 0
        BY <1>2, <1>4, <2>2, <3>1, <3>2 DEF Unlinks
      <4>2. QED
        BY <4>1 DEF BookInv, NothingExhausted
    <3>3. QED
      BY <3>2
  <2>3. pc' = "fill" /\ order' = order /\ level_it' = level_it
    BY DEF FillWhole
  <2>4. QED
    BY <2>1, <2>2, <2>3 DEF NothingExhausted
<1>7. SweepAtHead'
  <2>1. pc' = pc /\ pc = "fill" /\ order' = order /\ level_it' = level_it
    BY DEF FillWhole
  <2>2. order.id \notin DOMAIN order_location'
    BY <2>1 DEF FillWhole, BookInv, SweepAtHead, Erase, Restrict
  <2>3. IsBegin(side, level_it) /\ Crosses(order, level_it)
    BY <2>1 DEF BookInv, SweepAtHead
  <2>4. /\ level_it \in DOMAIN levels'[side]
        /\ \A q \in DOMAIN levels'[side] \ {level_it} :
             Better(side, level_it, q)
    BY <1>2, <1>4, <2>3 DEF IsBegin
  <2>5. current' = levels'[side][level_it].head
    BY <1>2, <1>4, <2>4 DEF Unlinks, UnlinkedLevel, FillWhole
  <2>6. QED
    BY <2>1, <2>2, <2>3, <2>4, <2>5 DEF SweepAtHead, IsBegin, Crosses
<1>8. QED
  BY <1>1, <1>2, <1>3, <1>5, <1>6, <1>7 DEF BookInv

LEMMA EndLevelInv ==
  ASSUME BookInv, EndLevel
  PROVE  BookInv'
<1> DEFINE side == Opposite(order.side)
<1>1. TypeOK'
  BY EndLevelType DEF BookInv
<1>2. SlotsAccounted' /\ LevelsThreaded'
  BY <1>1, EndLevelThreaded DEF BookInv
<1>3. side \in Side /\ level_it \in DOMAIN levels[side]
  BY DEF EndLevel, BookInv, TypeOK, Side, Opposite
<1>4. \A sd \in Side : \A q \in DOMAIN levels'[sd] :
        /\ q \in DOMAIN levels[sd]
        /\ levels'[sd][q] = levels[sd][q]
        /\ sd = side /\ q = level_it => levels[sd][q].count # 0
  BY <1>3 DEF EndLevel, BookInv, TypeOK, EraseIfEmpty, Erase, Restrict
<1>5. NotCrossed'
  BY <1>4 DEF BookInv, NotCrossed, Side
<1>6. NothingExhausted'
  <2>1. \A s \in Located' : pool'[s].quantity > 0
    BY DEF EndLevel, BookInv, NothingExhausted, Located
  <2>2. \A sd \in Side : \A q \in DOMAIN levels'[sd] :
          levels'[sd][q].count # 0
    BY <1>4 DEF BookInv, NothingExhausted
  <2>3. QED
    BY <1>1, <2>1, <2>2 DEF NothingExhausted
<1>7. SweepAtHead'
  BY DEF EndLevel, BookInv, SweepAtHead
<1>8. QED
  BY <1>1, <1>2, <1>5, <1>6, <1>7 DEF BookInv

LEMMA ReturnFilledInv ==
  ASSUME BookInv, ReturnFilled
  PROVE  BookInv'
<1>1. TypeOK'
  BY ReturnFilledType DEF BookInv
<1>2. SlotsAccounted' /\ LevelsThreaded' /\ NotCrossed'
  BY SameBook DEF ReturnFilled
<1>3. NothingExhausted'
  BY DEF BookInv, NothingExhausted, ReturnFilled, bookVars, Located
<1>4. SweepAtHead'
  BY DEF SweepAtHead, ReturnFilled
<1>5. QED
  BY <1>1, <1>2, <1>3, <1>4 DEF BookInv

(* A finite set of prices that is not empty has one that comes last.       *)
LEMMA LastInMap ==
  ASSUME NEW side \in Side, NEW S \in SUBSET Int, IsFiniteSet(S), S # {}
  PROVE  \E w \in S : \A p \in S \ {w} : Better(side, p, w)
<1> DEFINE HasLast(T) == \E w \in T : \A p \in T \ {w} : Better(side, p, w)
           F == {T \in SUBSET S : T # {} /\ ~HasLast(T)}
<1> SUFFICES ASSUME F # {} PROVE FALSE
  OBVIOUS
<1>1. PICK T \in F : /\ IsFiniteSet(T)
                     /\ \A U \in F : Cardinality(T) <= Cardinality(U)
  BY SmallestSet
<1>2. PICK x \in T : TRUE
  BY <1>1
<1>3. /\ T \in SUBSET Int /\ T \ {x} \in SUBSET S
      /\ ~HasLast(T)
  BY <1>1
<1>4. /\ Cardinality(T \ {x}) < Cardinality(T)
      /\ Cardinality(T) \in Nat /\ Cardinality(T \ {x}) \in Nat
  BY <1>1, <1>2, Smaller
<1>5. T \ {x} \notin F
  <2> HIDE DEF F
  <2>1. QED
    BY <1>1, <1>4
<1>6. T \ {x} # {}
  <2>1. SUFFICES ASSUME T \ {x} = {} PROVE HasLast(T)
    BY <1>3
  <2>2. QED
    BY <1>2, <2>1
<1>7. PICK w \in T \ {x} : \A p \in (T \ {x}) \ {w} : Better(side, p, w)
  <2>1. HasLast(T \ {x})
    <3> HIDE DEF HasLast
    <3>1. QED
      BY <1>3, <1>5, <1>6
  <2>2. QED
    BY <2>1
<1>8. x \in Int /\ w \in Int /\ x # w
  BY <1>2, <1>3, <1>7
<1>9. CASE Better(side, x, w)
  <2>1. \A p \in T \ {w} : Better(side, p, w)
    BY <1>7, <1>9
  <2>2. QED
    BY <1>3, <1>7, <2>1
<1>10. CASE Better(side, w, x)
  <2>1. \A p \in T \ {x} : p \in Int /\ (p = w \/ Better(side, p, w))
    BY <1>3, <1>7
  <2>2. \A p \in T \ {x} : Better(side, p, x)
    BY <1>8, <1>10, <2>1 DEF Better
  <2>3. QED
    BY <1>2, <1>3, <2>2
<1>11. QED
  BY <1>8, <1>9, <1>10 DEF Better

(* A finite set of prices that is not empty has one that comes first.      *)
LEMMA FirstInMap ==
  ASSUME NEW side \in Side, NEW S \in SUBSET Int, IsFiniteSet(S), S # {}
  PROVE  \E w \in S : \A p \in S \ {w} : Better(side, w, p)
<1>1. Opposite(side) \in Side
  BY DEF Side, Opposite
<1>2. PICK w \in S : \A p \in S \ {w} : Better(Opposite(side), p, w)
  BY <1>1, LastInMap
<1>3. \A p \in S \ {w} : Better(side, w, p)
  BY <1>2 DEF Better, Opposite, Side
<1>4. QED
  BY <1>3

(* While no level is being swept every level holds an order, so that there *)
(* are finitely many of them.                                              *)
LEMMA LevelsFinite ==
  ASSUME TypeOK, SlotsAccounted, LevelsThreaded, NothingExhausted,
         pc # "fill", NEW side \in Side
  PROVE  IsFiniteSet(DOMAIN levels[side])
<1> DEFINE L == {s \in Slots : s \in Located /\ pool[s].side = side}
           prices == {pool[s].price : s \in L}
           g == [s \in L |-> pool[s].price]
<1>1. ASSUME NEW p \in DOMAIN levels[side] PROVE p \in prices
  <2>1. levels[side][p].count # 0
    BY <1>1 DEF NothingExhausted
  <2>2. levels[side][p].count = Cardinality({s \in Slots : OnLevel(s, side, p)})
    BY <1>1, LevelFacts
  <2>3. PICK s \in Slots : OnLevel(s, side, p)
    BY <2>1, <2>2, FS_EmptySet
  <2>4. s \in L /\ pool[s].price = p
    BY <2>3 DEF OnLevel
  <2> HIDE DEF L
  <2>5. QED
    BY <2>4
<1>2. IsFiniteSet(L)
  <2>1. IsFiniteSet(Slots)
    BY PoolFacts, FS_Interval DEF Slots
  <2>2. QED
    BY <2>1, FS_Subset
<1>3. g \in Surjection(L, prices)
  BY DEF Surjection
<1>4. IsFiniteSet(prices)
  BY <1>2, <1>3, FS_Surjection
<1>5. QED
  BY <1>1, <1>4, FS_Subset

(* The matching loop looks at the first opposite level only: where that    *)
(* one does not cross, none does.                                          *)
LEMMA NoneCrosses ==
  ASSUME BookInv, RestRemainder,
         NEW p \in DOMAIN levels[Opposite(order.side)]
  PROVE  ~Crosses(order, p)
<1> DEFINE opposite == Opposite(order.side)
           S == DOMAIN levels[opposite]
<1>1. order \in Order /\ order.side \in Side /\ opposite \in Side
  BY DEF BookInv, TypeOK, RestRemainder, Order, Side, Opposite
<1>2. S \in SUBSET Int
  BY <1>1, PricesAssumption DEF BookInv, TypeOK
<1>3. IsFiniteSet(S)
  BY <1>1, LevelsFinite DEF BookInv, RestRemainder
<1>4. PICK w \in S : \A q \in S \ {w} : Better(opposite, w, q)
  BY <1>1, <1>2, <1>3, FirstInMap
<1>5. ~Crosses(order, w)
  BY <1>4 DEF RestRemainder, IsBegin
<1>6. /\ w \in Int /\ p \in Int /\ order.price \in Int
      /\ w = p \/ Better(opposite, w, p)
  BY <1>1, <1>2, <1>4, PricesAssumption DEF Order
<1>7. QED
  BY <1>1, <1>5, <1>6 DEF Crosses, Better, Opposite, Side

LEMMA RestRemainderInv ==
  ASSUME BookInv, RestRemainder
  PROVE  BookInv'
<1> DEFINE i == AllocatedSlot
           side == order.side
<1>1. TypeOK'
  BY RestRemainderType DEF BookInv
<1>2. order.id \notin DOMAIN order_location
  BY DEF BookInv, SweepAtHead, RestRemainder
<1>3. /\ SlotsAccounted'
      /\ i \notin Located
      /\ Located' = Located \cup {i}
      /\ Slots' = Slots \cup {i}
  BY <1>2, RestAccounted DEF BookInv
<1>4. LevelsThreaded'
  BY <1>1, <1>2, RestThreaded DEF BookInv
<1>5. /\ order \in Order /\ side \in Side /\ order.price \in Prices
      /\ Opposite(side) \in Side /\ Opposite(side) # side
  BY DEF BookInv, TypeOK, RestRemainder, Order, Side, Opposite
<1>6. \A sd \in Side : \A q \in DOMAIN levels'[sd] :
        \/ sd = side /\ q = order.price
        \/ q \in DOMAIN levels[sd] /\ levels'[sd][q] = levels[sd][q]
  BY <1>5 DEF RestRemainder, Insert, BookInv, TypeOK
<1>7. NotCrossed'
  <2>1. SUFFICES ASSUME NEW b \in DOMAIN levels'["Buy"],
                        NEW a \in DOMAIN levels'["Sell"]
                 PROVE  b < a
    BY DEF NotCrossed
  <2>2. b \in Int /\ a \in Int /\ "Buy" \in Side /\ "Sell" \in Side
    BY <1>1, PricesAssumption DEF TypeOK, Side
  <2>3. CASE b \in DOMAIN levels["Buy"] /\ a \in DOMAIN levels["Sell"]
    BY <2>3 DEF BookInv, NotCrossed
  <2>4. CASE side = "Buy" /\ b = order.price /\ a \in DOMAIN levels["Sell"]
    BY <2>2, <2>4, NoneCrosses DEF Crosses, Opposite
  <2>5. CASE side = "Sell" /\ a = order.price /\ b \in DOMAIN levels["Buy"]
    BY <2>2, <2>5, NoneCrosses DEF Crosses, Opposite
  <2>6. QED
    BY <1>6, <2>2, <2>3, <2>4, <2>5
<1>8. NothingExhausted'
  <2>1. \A s \in Located' : pool'[s].quantity > 0
    <3>1. pool'[i].quantity > 0
      BY DEF RestRemainder, AppendedPool
    <3>2. \A s \in Located : s \in Slots /\ pool[s] \in OrderNode
      BY LocatedFacts DEF BookInv
    <3>3. \A s \in Located : pool'[s].quantity = pool[s].quantity
      BY <1>3, <3>2 DEF RestRemainder, AppendedPool, OrderNode
    <3>4. QED
      BY <1>3, <3>1, <3>3 DEF BookInv, NothingExhausted
  <2>2. ASSUME NEW sd \in Side, NEW q \in DOMAIN levels'[sd]
        PROVE  levels'[sd][q].count # 0
    <3>1. CASE sd = side /\ q = order.price
      <4> DEFINE S == {s \in Slots' : OnLevelNext(s, sd, q)}
      <4>1. pool'[i].side = side /\ pool'[i].price = order.price
        BY DEF RestRemainder, AppendedPool
      <4>2. i \in S
        BY <1>3, <3>1, <4>1 DEF OnLevelNext
      <4>3. IsFiniteSet(S)
        <5>1. IsFiniteSet(Slots')
          <6>1. Len(pool') \in Nat
            BY <1>1, SeqIsFunction DEF TypeOK
          <6>2. QED
            BY <6>1, FS_Interval DEF Slots
        <5>2. QED
          BY <5>1, FS_Subset
      <4>4. levels'[sd][q].count = Cardinality(S)
        BY <1>1, <1>4, <2>2 DEF LevelsThreaded, OnLevel, OnLevelNext
      <4>5. QED
        BY <4>2, <4>3, <4>4, FS_EmptySet
    <3>2. CASE q \in DOMAIN levels[sd] /\ levels'[sd][q] = levels[sd][q]
      BY <3>2 DEF BookInv, NothingExhausted, RestRemainder
    <3>3. QED
      BY <1>6, <2>2, <3>1, <3>2
  <2>3. QED
    BY <1>1, <2>1, <2>2 DEF NothingExhausted
<1>9. SweepAtHead'
  BY DEF SweepAtHead, RestRemainder
<1>10. QED
  BY <1>1, <1>3, <1>4, <1>7, <1>8, <1>9 DEF BookInv

LEMMA RemoveOrderInv ==
  ASSUME BookInv, pc = "idle", NEW id, CanCancel(id), RemoveOrder(id)
  PROVE  BookInv'
<1> DEFINE i == order_location[id]
<1>1. TypeOK'
  BY RemoveOrderType DEF BookInv
<1>2. /\ i \in Located
      /\ Unlinks(i)
      /\ SlotsAccounted'
      /\ \A s \in Slots : pool'[s].quantity = pool[s].quantity
      /\ \A sd \in Side : \A q \in DOMAIN levels'[sd] :
           /\ q \in DOMAIN levels[sd]
           /\ levels'[sd][q].count = 0 => levels'[sd][q] = levels[sd][q]
  BY RemoveOrderUnlinks
<1>3. LevelsThreaded'
  BY <1>1, <1>2, UnlinkThreaded DEF BookInv
<1>4. NotCrossed'
  BY <1>2 DEF BookInv, NotCrossed, Side
<1>5. NothingExhausted'
  <2>1. \A s \in Located' : pool'[s].quantity > 0
    BY <1>2, LocatedFacts DEF BookInv, NothingExhausted, Unlinks
  <2>2. \A sd \in Side : \A q \in DOMAIN levels'[sd] :
          levels'[sd][q].count # 0
    BY <1>2 DEF BookInv, NothingExhausted
  <2>3. QED
    BY <1>1, <2>1, <2>2 DEF NothingExhausted
<1>6. SweepAtHead'
  BY DEF RemoveOrder, callVars, SweepAtHead
<1>7. QED
  BY <1>1, <1>2, <1>3, <1>4, <1>5, <1>6 DEF BookInv

LEMMA ReduceOrderInv ==
  ASSUME BookInv, NEW id \in Ids, NEW quantity \in Quantities,
         ReduceOrder(id, quantity)
  PROVE  BookInv'
<1> DEFINE i == order_location[id]
<1>1. TypeOK'
  BY ReduceOrderType DEF BookInv
<1>2. /\ SameLists
      /\ i \in Slots
      /\ quantity < pool[i].quantity
      /\ pool'[i].quantity = pool[i].quantity - quantity
      /\ \A s \in Slots \ {i} : pool'[s] = pool[s]
  BY ReduceOrderSameLists DEF BookInv
<1>3. SlotsAccounted' /\ LevelsThreaded' /\ Located' = Located
  BY <1>1, <1>2, SameListsThreaded DEF BookInv
<1>4. NotCrossed'
  BY <1>2 DEF BookInv, NotCrossed, SameLists
<1>5. NothingExhausted'
  <2>1. \A s \in Located' : pool'[s].quantity > 0
    <3>1. pool[i].quantity - quantity > 0
      BY <1>2, PoolFacts, QuantitiesAssumption DEF BookInv, OrderNode
    <3>2. QED
      BY <1>2, <1>3, <3>1, LocatedFacts DEF BookInv, NothingExhausted
  <2>2. QED
    BY <2>1 DEF BookInv, NothingExhausted, ReduceOrder, callVars
<1>6. SweepAtHead'
  BY DEF ReduceOrder, callVars, SweepAtHead
<1>7. QED
  BY <1>1, <1>3, <1>4, <1>5, <1>6 DEF BookInv

LEMMA SameInv ==
  ASSUME BookInv, UNCHANGED vars
  PROVE  BookInv'
<1>1. TypeOK'
  BY TypeUnchanged DEF BookInv
<1>2. SlotsAccounted' /\ LevelsThreaded' /\ NotCrossed'
  BY SameBook DEF vars
<1>3. NothingExhausted' /\ SweepAtHead'
  BY DEF BookInv, NothingExhausted, SweepAtHead, vars, bookVars, callVars,
         Located, IsBegin, Crosses
<1>4. QED
  BY <1>1, <1>2, <1>3 DEF BookInv

LEMMA InvInit == Init => BookInv
<1> SUFFICES ASSUME Init PROVE BookInv
  OBVIOUS
<1>1. TypeOK
  BY TypeInit
<1>2. Slots = {} /\ Located = {} /\ Range(free_slots) = {}
  BY EmptySeq, LenProperties DEF Init, Slots, Located, Range, EmptyMap
<1>3. SlotsAccounted
  BY <1>2, EmptySeq, LenProperties DEF Init, SlotsAccounted, EmptyMap
<1>4. QED
  BY <1>1, <1>2, <1>3 DEF Init, BookInv, LevelsThreaded, NothingExhausted,
     NotCrossed, SweepAtHead, EmptyMap, Side

LEMMA InvNext == BookInv /\ [Next]_vars => BookInv'
<1> SUFFICES ASSUME BookInv, [Next]_vars
             PROVE  BookInv'
  OBVIOUS
<1>1. CASE UNCHANGED vars
  BY <1>1, SameInv
<1>2. ASSUME NEW o \in Order, AddOrder(o) \/ RejectOrder(o)
      PROVE  BookInv'
  BY <1>2, AddOrderInv, SameInv DEF RejectOrder
<1>3. CASE CallStep
  BY <1>3, MatchLevelInv, FillPartInv, FillWholeInv, EndLevelInv,
     ReturnFilledInv, RestRemainderInv DEF CallStep
<1>4. ASSUME NEW id \in Ids, CancelOrder(id) \/ CancelMissing(id)
      PROVE  BookInv'
  BY <1>4, RemoveOrderInv, SameInv DEF CancelOrder, CancelMissing
<1>5. ASSUME NEW id \in Ids, NEW quantity \in Quantities,
             \/ ReduceOrder(id, quantity)
             \/ ReduceToNothing(id, quantity)
             \/ ReduceRefused(id, quantity)
      PROVE  BookInv'
  BY <1>5, ReduceOrderInv, RemoveOrderInv, SameInv
     DEF ReduceToNothing, ReduceRefused
<1>6. QED
  BY <1>1, <1>2, <1>3, <1>4, <1>5 DEF Next

(* In every reachable state the book is sound, during a call as well as    *)
(* between two calls.                                                      *)
THEOREM Invariant == Spec => []BookInv
<1>1. QED
  BY InvInit, InvNext, PTL DEF Spec

(* Whatever the order of calls, no slot is lost, listed free twice, or     *)
(* free while an order of the index is in it.                              *)
THEOREM NoSlotLost == Spec => []SlotsAccounted
<1>1. BookInv => SlotsAccounted
  BY DEF BookInv
<1>2. QED
  BY <1>1, Invariant, PTL

(* Every price level is always one doubly-linked list of exactly its own   *)
(* orders, in order of arrival.                                            *)
THEOREM ListsSound == Spec => []LevelsThreaded
<1>1. BookInv => LevelsThreaded
  BY DEF BookInv
<1>2. QED
  BY <1>1, Invariant, PTL

(* No order with nothing left, and no level without orders, stays behind.  *)
THEOREM NoResidue == Spec => []NothingExhausted
<1>1. BookInv => NothingExhausted
  BY DEF BookInv
<1>2. QED
  BY <1>1, Invariant, PTL

(* The best bid is always below the best ask.                              *)
THEOREM NeverCrossed == Spec => []NotCrossed
<1>1. BookInv => NotCrossed
  BY DEF BookInv
<1>2. QED
  BY <1>1, Invariant, PTL

(* The iterator, cursor and id a running add_order holds are never stale.  *)
THEOREM CursorNeverStale == Spec => []SweepAtHead
<1>1. BookInv => SweepAtHead
  BY DEF BookInv
<1>2. QED
  BY <1>1, Invariant, PTL

----------------------------------------------------------------------------
(* Price-time priority.                                                    *)

(* The head of a level is its oldest order: the order of least arrival has *)
(* nobody ahead of it, and only the head has nobody ahead of it.           *)
LEMMA HeadIsOldest ==
  ASSUME TypeOK, SlotsAccounted, LevelsThreaded,
         NEW side \in Side, NEW p \in DOMAIN levels[side],
         NEW s \in Located, OnLevel(s, side, p)
  PROVE  /\ OnLevel(levels[side][p].head, side, p)
         /\ arrival[levels[side][p].head] <= arrival[s]
<1> DEFINE S == {t \in Located : OnLevel(t, side, p)}
           A == {arrival[t] : t \in S}
<1>1. A \subseteq Nat /\ s \in S /\ A # {}
  BY NodeFacts
<1>2. PICK m \in A : \A n \in A : m <= n
  BY <1>1, LeastNatural
<1>3. PICK t \in S : arrival[t] = m
  BY <1>2
<1>4. pool[t].prev = kInvalid
  <2>1. SUFFICES ASSUME pool[t].prev # kInvalid
                 PROVE  FALSE
    OBVIOUS
  <2>2. Ahead(pool[t].prev, t)
    BY <1>3, <2>1, NodeFacts
  <2>3. pool[t].prev \in S /\ arrival[pool[t].prev] < arrival[t]
    BY <1>3, <2>2 DEF Ahead, OnLevel
  <2>4. arrival[pool[t].prev] \in Nat /\ arrival[t] \in Nat
    BY <1>1, <1>3, <2>3
  <2>5. QED
    BY <1>2, <1>3, <2>3, <2>4
<1>5. levels[side][p].head = t
  BY <1>3, <1>4, NodeFacts DEF OnLevel
<1>6. QED
  BY <1>1, <1>2, <1>3, <1>5

(* The order at the cursor comes first of all those it could trade with.   *)
LEMMA CursorIsFirst ==
  ASSUME BookInv, pc = "fill", current # kInvalid,
         NEW s \in Located, pool[s].side = Opposite(order.side)
  PROVE  Precedes(current, s)
<1> DEFINE side == Opposite(order.side)
<1>1. /\ side \in Side /\ level_it \in DOMAIN levels[side]
      /\ current \in Located
      /\ pool[current].side = side /\ pool[current].price = level_it
      /\ levels[side][level_it].head = current
  BY CursorFacts
<1>2. pool[s].price \in DOMAIN levels[side]
  BY NodeFacts DEF BookInv
<1>3. CASE pool[s].price = level_it
  <2>1. OnLevel(s, side, level_it)
    BY <1>3 DEF OnLevel
  <2>2. arrival[current] <= arrival[s]
    BY <1>1, <2>1, HeadIsOldest DEF BookInv
  <2>3. QED
    BY <1>1, <1>3, <2>2 DEF Precedes
<1>4. CASE pool[s].price # level_it
  BY <1>1, <1>2, <1>4 DEF BookInv, SweepAtHead, IsBegin, Precedes
<1>5. QED
  BY <1>3, <1>4

LEMMA FillTradesWithFirst ==
  ASSUME BookInv, pc = "fill", current # kInvalid,
         NEW quantity, trades' = Append(trades, TradeWith(pool[current], quantity)),
         TypeOK'
  PROVE  TradesWithFirst
<1> DEFINE id == pool[current].id
<1>1. current \in Located
  BY CursorFacts
<1>2. id \in DOMAIN order_location /\ order_location[id] = current
  BY <1>1, LocatedFacts DEF BookInv
<1>3. Last(trades').resting = id
  <2>1. trades \in Seq(Trade) /\ trades' \in Seq(Trade)
    BY DEF BookInv, TypeOK, Trade
  <2>2. /\ Len(trades') = Len(trades) + 1
        /\ trades'[Len(trades) + 1] = TradeWith(pool[current], quantity)
    BY <2>1, SeqIsFunction
  <2>3. QED
    BY <2>2 DEF Last, TradeWith
<1>4. QED
  BY <1>2, <1>3, CursorIsFirst DEF TradesWithFirst

LEMMA NoTradeStep ==
  ASSUME TypeOK, trades' = trades \/ trades' = <<>>
  PROVE  TradesWithFirst
<1>1. Len(trades) \in Nat /\ Len(<<>>) = 0
  BY SeqIsFunction, EmptySeq DEF TypeOK
<1>2. QED
  BY <1>1 DEF TradesWithFirst

LEMMA StepTradesWithFirst == BookInv /\ [Next]_vars => TradesWithFirst
<1> SUFFICES ASSUME BookInv, [Next]_vars
             PROVE  TradesWithFirst
  OBVIOUS
<1>1. TypeOK /\ TypeOK'
  BY InvNext DEF BookInv
<1>2. CASE FillPart
  BY <1>1, <1>2, FillTradesWithFirst DEF FillPart
<1>3. CASE FillWhole
  BY <1>1, <1>3, FillTradesWithFirst DEF FillWhole
<1>4. CASE ~FillPart /\ ~FillWhole
  <2>1. trades' = trades \/ trades' = <<>>
    BY <1>4 DEF Next, CallStep, AddOrder, RejectOrder, MatchLevel, EndLevel,
       ReturnFilled, RestRemainder, CancelOrder, CancelMissing, RemoveOrder,
       ReduceOrder, ReduceToNothing, ReduceRefused, vars, callVars
  <2>2. QED
    BY <1>1, <2>1, NoTradeStep
<1>5. QED
  BY <1>2, <1>3, <1>4

(* Every trade is with the order that comes first, by price and then by    *)
(* arrival, among all orders resting on the other side: always taking the  *)
(* head of the first level is enough.                                      *)
THEOREM TradesByPriceThenTime == Spec => PriceTimePriority
<1>1. BookInv /\ [Next]_vars => [TradesWithFirst]_vars
  BY StepTradesWithFirst
<1>2. QED
  BY <1>1, Invariant, PTL DEF Spec, PriceTimePriority

----------------------------------------------------------------------------
(* An order that stays keeps its place.                                    *)

LEMMA SameListsKeepPlaces ==
  ASSUME TypeOK, SlotsAccounted, SameLists,
         \A s \in Slots : pool'[s].quantity <= pool[s].quantity
  PROVE  KeepsPlaces
BY LocatedFacts DEF SameLists, KeepsPlaces

LEMMA UnlinksKeepsPlaces ==
  ASSUME TypeOK, SlotsAccounted, NEW i \in Located, Unlinks(i),
         order_location' = Erase(order_location, pool[i].id),
         \A s \in Slots \ {i} : pool'[s].quantity = pool[s].quantity
  PROVE  KeepsPlaces
<1> SUFFICES ASSUME NEW id \in DOMAIN order_location,
                    id \in DOMAIN order_location'
             PROVE  LET s == order_location[id]
                    IN  /\ order_location'[id] = s
                        /\ arrival'[s] = arrival[s]
                        /\ pool'[s].side = pool[s].side
                        /\ pool'[s].price = pool[s].price
                        /\ pool'[s].quantity <= pool[s].quantity
  BY DEF KeepsPlaces
<1> DEFINE s == order_location[id]
<1>1. id # pool[i].id /\ order_location'[id] = s
  BY DEF Erase, Restrict
<1>2. s \in Slots /\ s # i /\ pool[s].quantity \in Int
  BY <1>1, LocatedFacts DEF OrderNode
<1>3. /\ pool'[s].side = pool[s].side
      /\ pool'[s].price = pool[s].price
      /\ arrival'[s] = arrival[s]
      /\ pool'[s].quantity = pool[s].quantity
  BY <1>2 DEF Unlinks
<1>4. QED
  BY <1>1, <1>2, <1>3

LEMMA SameBookKeepsPlaces ==
  ASSUME TypeOK, SlotsAccounted, UNCHANGED bookVars
  PROVE  KeepsPlaces
BY LocatedFacts DEF bookVars, KeepsPlaces, OrderNode

LEMMA RestKeepsPlaces ==
  ASSUME BookInv, RestRemainder
  PROVE  KeepsPlaces
<1> DEFINE i == AllocatedSlot
<1>1. order.id \notin DOMAIN order_location
  BY DEF BookInv, SweepAtHead, RestRemainder
<1>2. i \notin Located
  BY <1>1, RestAccounted DEF BookInv
<1> SUFFICES ASSUME NEW id \in DOMAIN order_location
             PROVE  LET s == order_location[id]
                    IN  /\ order_location'[id] = s
                        /\ arrival'[s] = arrival[s]
                        /\ pool'[s].side = pool[s].side
                        /\ pool'[s].price = pool[s].price
                        /\ pool'[s].quantity <= pool[s].quantity
  BY DEF KeepsPlaces
<1> DEFINE s == order_location[id]
<1>3. s \in Slots /\ s # i /\ pool[s] \in OrderNode
  BY <1>2, LocatedFacts DEF BookInv
<1>4. order_location'[id] = s
  BY <1>1 DEF RestRemainder, Insert
<1>5. arrival'[s] = arrival[s]
  BY <1>3 DEF RestRemainder, Insert, BookInv, TypeOK
<1>6. /\ pool'[s].side = pool[s].side
      /\ pool'[s].price = pool[s].price
      /\ pool'[s].quantity = pool[s].quantity
  BY <1>3 DEF RestRemainder, AppendedPool, OrderNode
<1>7. QED
  BY <1>3, <1>4, <1>5, <1>6 DEF OrderNode

LEMMA RemoveKeepsPlaces ==
  ASSUME BookInv, NEW id, CanCancel(id), RemoveOrder(id)
  PROVE  KeepsPlaces
<1>1. LET i == order_location[id]
      IN  /\ i \in Located /\ pool[i].id = id
          /\ Unlinks(i)
          /\ \A s \in Slots : pool'[s].quantity = pool[s].quantity
  BY RemoveOrderUnlinks
<1>2. order_location' = Erase(order_location, id)
  BY DEF RemoveOrder
<1>3. QED
  BY <1>1, <1>2, UnlinksKeepsPlaces DEF BookInv

LEMMA StepKeepsPlaces == BookInv /\ [Next]_vars => KeepsPlaces
<1> SUFFICES ASSUME BookInv, [Next]_vars
             PROVE  KeepsPlaces
  OBVIOUS
<1>1. TypeOK /\ SlotsAccounted /\ \A s \in Slots : pool[s].quantity \in Int
  BY PoolFacts DEF BookInv, OrderNode
<1>2. CASE FillPart
  <2>1. /\ SameLists /\ current \in Slots
        /\ pool'[current].quantity = pool[current].quantity - remaining
        /\ \A s \in Slots \ {current} : pool'[s] = pool[s]
    BY <1>1, <1>2, FillPartSameLists
  <2>2. remaining \in Nat
    BY <1>1 DEF TypeOK
  <2>3. \A s \in Slots : pool'[s].quantity <= pool[s].quantity
    BY <1>1, <2>1, <2>2
  <2>4. QED
    BY <1>1, <2>1, <2>3, SameListsKeepPlaces
<1>3. CASE FillWhole
  <2>1. /\ current \in Located /\ Unlinks(current)
        /\ \A s \in Slots \ {current} : pool'[s].quantity = pool[s].quantity
    BY <1>3, FillWholeUnlinks
  <2>2. order_location' = Erase(order_location, pool[current].id)
    BY <1>3 DEF FillWhole
  <2>3. QED
    BY <1>1, <2>1, <2>2, UnlinksKeepsPlaces
<1>4. CASE RestRemainder
  BY <1>4, RestKeepsPlaces
<1>5. CASE EndLevel
  BY <1>1, <1>5, LocatedFacts DEF EndLevel, KeepsPlaces
<1>6. ASSUME NEW id \in Ids, CanCancel(id), RemoveOrder(id)
      PROVE  KeepsPlaces
  BY <1>6, RemoveKeepsPlaces
<1>7. ASSUME NEW id \in Ids, NEW quantity \in Quantities,
             ReduceOrder(id, quantity)
      PROVE  KeepsPlaces
  <2> DEFINE i == order_location[id]
  <2>1. /\ SameLists /\ i \in Slots /\ 0 < quantity
        /\ pool'[i].quantity = pool[i].quantity - quantity
        /\ \A s \in Slots \ {i} : pool'[s] = pool[s]
    BY <1>1, <1>7, ReduceOrderSameLists
  <2>2. \A s \in Slots : pool'[s].quantity <= pool[s].quantity
    BY <1>1, <2>1, QuantitiesAssumption
  <2>3. QED
    BY <1>1, <2>1, <2>2, SameListsKeepPlaces
<1>8. CASE UNCHANGED bookVars
  BY <1>1, <1>8, SameBookKeepsPlaces
<1>9. ASSUME NEW o \in Order, AddOrder(o) \/ RejectOrder(o)
      PROVE  UNCHANGED bookVars
  BY <1>9 DEF AddOrder, RejectOrder, vars
<1>10. MatchLevel \/ ReturnFilled => UNCHANGED bookVars
  BY DEF MatchLevel, ReturnFilled
<1>11. QED
  BY <1>2, <1>3, <1>4, <1>5, <1>6, <1>7, <1>8, <1>9, <1>10
     DEF Next, CallStep, CancelOrder, CancelMissing, ReduceToNothing,
         ReduceRefused, vars

(* An order that stays in the book keeps its slot, side, price and place in*)
(* its queue whatever happens to it and around it, and never grows.        *)
THEOREM PlaceInQueueKept == Spec => PlaceKept
<1>1. BookInv /\ [Next]_vars => [KeepsPlaces]_vars
  BY StepKeepsPlaces
<1>2. QED
  BY <1>1, Invariant, PTL DEF Spec, PlaceKept

----------------------------------------------------------------------------
(* The quantity of a sequence of trades.                                   *)

LEMMA TradedInNone == TradedIn(<<>>) = 0
<1> DEFINE f == [i \in DOMAIN <<>> |-> <<>>[i].quantity]
<1>1. DOMAIN f = {}
  BY EmptySeq, LenProperties
<1>2. SumFunctionOnSet(f, {}) = 0
  BY SumOfNone
<1>3. QED
  BY <1>1, <1>2 DEF TradedIn, SumFunction

LEMMA TradedInType ==
  ASSUME NEW made \in Seq(Trade)
  PROVE  TradedIn(made) \in Int
<1> DEFINE f == [i \in DOMAIN made |-> made[i].quantity]
<1>1. DOMAIN made = 1 .. Len(made) /\ Len(made) \in Nat
  BY SeqIsFunction
<1>2. DOMAIN f = DOMAIN made /\ IsFiniteSet(DOMAIN made)
  BY <1>1, FS_Interval
<1>3. \A i \in DOMAIN made : made[i] \in Trade
  BY SeqIsFunction
<1>4. \A i \in DOMAIN f : f[i] \in Int
  BY <1>3 DEF Trade
<1> HIDE DEF f
<1>5. SumFunctionOnSet(f, DOMAIN f) \in Int
  BY <1>2, <1>4, SumType
<1>6. QED
  BY <1>5 DEF TradedIn, SumFunction, f

LEMMA TradedInOneMore ==
  ASSUME NEW made \in Seq(Trade), NEW trade \in Trade
  PROVE  TradedIn(Append(made, trade)) = TradedIn(made) + trade.quantity
<1> DEFINE more == Append(made, trade)
           n == Len(made) + 1
           f == [i \in DOMAIN made |-> made[i].quantity]
           g == [i \in DOMAIN more |-> more[i].quantity]
<1>1. /\ DOMAIN made = 1 .. Len(made) /\ Len(made) \in Nat
      /\ more \in Seq(Trade) /\ Len(more) = n
      /\ \A i \in 1 .. Len(made) : more[i] = made[i]
      /\ more[n] = trade
  BY SeqIsFunction, AppendProperties
<1>2. DOMAIN more = DOMAIN made \cup {n} /\ n \notin DOMAIN made
  <2>1. DOMAIN more = 1 .. n
    BY <1>1, SeqIsFunction
  <2>2. QED
    BY <1>1, <2>1
<1>3. IsFiniteSet(DOMAIN made)
  BY <1>1, FS_Interval
<1>4. /\ DOMAIN f = DOMAIN made /\ DOMAIN g = DOMAIN made \cup {n}
      /\ \A i \in DOMAIN made : g[i] = f[i]
      /\ \A i \in DOMAIN made \cup {n} : g[i] \in Int
      /\ g[n] = trade.quantity
  <2>1. \A i \in DOMAIN more : more[i] \in Trade
    BY <1>1, SeqIsFunction
  <2>2. QED
    BY <1>1, <1>2, <2>1 DEF Trade
<1> HIDE DEF f, g
<1>5. SumFunctionOnSet(g, DOMAIN made \cup {n})
        = SumFunctionOnSet(g, DOMAIN made) + g[n]
  BY <1>2, <1>3, <1>4, SumWith
<1>6. SumFunctionOnSet(g, DOMAIN made) = SumFunctionOnSet(f, DOMAIN made)
  BY <1>3, <1>4, SumSame
<1>7. /\ TradedIn(made) = SumFunctionOnSet(f, DOMAIN made)
      /\ TradedIn(more) = SumFunctionOnSet(g, DOMAIN made \cup {n})
  BY <1>4 DEF TradedIn, SumFunction, f, g
<1>8. QED
  BY <1>4, <1>5, <1>6, <1>7

----------------------------------------------------------------------------
(* What a running call has done.  Its trades follow price order because no *)
(* level left on the other side is better than a price it has traded at.   *)

TradedFirst ==
  pc # "idle" =>
    \A i \in DOMAIN trades, p \in DOMAIN levels[Opposite(order.side)] :
      ~Better(Opposite(order.side), p, trades[i].price)

SweepInv == BookInv /\ SweepAccounted /\ TradedFirst

(* A trade is made: with the head of the best level.                       *)
LEMMA TradeAccounted ==
  ASSUME SweepInv, pc = "fill", current # kInvalid, remaining > 0,
         NEW quantity \in Int,
         pc' = pc, order' = order,
         trades' = Append(trades, TradeWith(pool[current], quantity)),
         remaining' = remaining - quantity,
         remaining' = 0 \/ pool[current].id \notin DOMAIN order_location',
         DOMAIN order_location' \subseteq DOMAIN order_location,
         DOMAIN levels'[Opposite(order.side)]
           = DOMAIN levels[Opposite(order.side)]
  PROVE  SweepAccounted' /\ TradedFirst'
<1> DEFINE side == Opposite(order.side)
           trade == TradeWith(pool[current], quantity)
           n == Len(trades) + 1
<1>1. BookInv /\ TypeOK /\ trades \in Seq(Trade) /\ order \in Order
  BY CursorTypes DEF SweepInv, BookInv, TypeOK, Trade
<1>2. /\ side \in Side /\ level_it \in DOMAIN levels[side]
      /\ current \in Located
      /\ pool[current].price = level_it /\ pool[current] \in OrderNode
      /\ Crosses(order, level_it)
      /\ \A p \in DOMAIN levels[side] : p # level_it => Better(side, level_it, p)
      /\ DOMAIN levels[side] \subseteq Int
  BY <1>1, CursorFacts, CursorTypes, PricesAssumption
     DEF BookInv, TypeOK, SweepAtHead, IsBegin
<1>3. trade \in Trade /\ trade.quantity = quantity
      /\ trade.price = level_it /\ trade.resting = pool[current].id
  BY <1>1, <1>2 DEF TradeWith, Trade, OrderNode, Order
<1> HIDE DEF trade
<1>4. /\ DOMAIN trades = 1 .. Len(trades) /\ Len(trades) \in Nat
      /\ DOMAIN trades' = 1 .. n /\ Len(trades') = n
      /\ \A i \in 1 .. Len(trades) : trades'[i] = trades[i]
      /\ trades'[n] = trade
      /\ \A i \in 1 .. Len(trades) : trades[i].price \in Int
  <2>1. trades' = Append(trades, trade)
    BY DEF trade
  <2>2. trades' \in Seq(Trade) /\ Len(trades') = n
    BY <1>1, <1>3, <2>1, AppendProperties
  <2>3. \A i \in 1 .. Len(trades) : trades[i] \in Trade
    BY <1>1, SeqIsFunction
  <2>4. QED
    BY <1>1, <1>3, <2>1, <2>2, <2>3, AppendProperties, SeqIsFunction,
       PricesAssumption DEF Trade
<1>5. order.quantity = remaining' + TradedIn(trades')
  <2>1. TradedIn(trades') = TradedIn(trades) + quantity
    BY <1>1, <1>3, TradedInOneMore DEF trade
  <2>2. order.quantity = remaining + TradedIn(trades)
    BY DEF SweepInv, SweepAccounted
  <2>3. remaining \in Int /\ TradedIn(trades) \in Int
    BY <1>1, TradedInType DEF TypeOK
  <2>4. QED
    BY <2>1, <2>2, <2>3
<1>6. ASSUME NEW i \in 1 .. n
      PROVE  /\ Crosses(order, trades'[i].price)
             /\ i > 1 => ~Better(side, trades'[i].price, trades'[i - 1].price)
             /\ i < n \/ remaining' > 0 =>
                  trades'[i].resting \notin DOMAIN order_location'
             /\ \A p \in DOMAIN levels[side] :
                  ~Better(side, p, trades'[i].price)
  <2>1. CASE i = n
    <3> DEFINE j == n - 1
    <3>0. /\ i > 1 => j \in DOMAIN trades /\ trades'[j] = trades[j]
          /\ i - 1 = j /\ ~(i < n)
      <4>1. n \in Nat /\ DOMAIN trades = 1 .. n - 1
        BY <1>4
      <4>2. i > 1 => n - 1 \in 1 .. n - 1
        BY <2>1, <4>1
      <4>3. i - 1 = j /\ ~(i < n)
        BY <2>1, <4>1
      <4> HIDE DEF n
      <4>4. i > 1 => trades'[j] = trades[j]
        BY <1>4, <4>1, <4>2
      <4>5. QED
        BY <4>1, <4>2, <4>3, <4>4
    <3> HIDE DEF j
    <3>1. i > 1 => ~Better(side, level_it, trades[j].price)
      BY <1>2, <3>0 DEF SweepInv, TradedFirst
    <3>2. i > 1 => ~Better(side, level_it, trades'[i - 1].price)
      BY <3>0, <3>1
    <3>3. remaining' > 0 => trades'[i].resting \notin DOMAIN order_location'
      BY <1>3, <1>4, <2>1
    <3>4. \A p \in DOMAIN levels[side] : ~Better(side, p, level_it)
      BY <1>2 DEF Better
    <3>5. trades'[i] = trade /\ trades'[i].price = level_it
      BY <1>3, <1>4, <2>1
    <3>6. QED
      BY <1>2, <3>0, <3>2, <3>3, <3>4, <3>5
  <2>2. CASE i # n
    <3>1. /\ i \in DOMAIN trades /\ trades'[i] = trades[i]
          /\ i > 1 => trades'[i - 1] = trades[i - 1]
      BY <1>4, <2>2
    <3>2. /\ Crosses(order, trades[i].price)
          /\ i > 1 => ~Better(side, trades[i].price, trades[i - 1].price)
          /\ trades[i].resting \notin DOMAIN order_location
      BY <3>1 DEF SweepInv, SweepAccounted
    <3>3. \A p \in DOMAIN levels[side] : ~Better(side, p, trades[i].price)
      BY <3>1 DEF SweepInv, TradedFirst
    <3>4. QED
      BY <3>1, <3>2, <3>3
  <2>3. QED
    BY <2>1, <2>2
<1>7. \A i \in 1 .. n : Crosses(order', trades'[i].price)
  BY <1>6
<1>8. SweepAccounted'
  BY <1>4, <1>5, <1>6, <1>7 DEF SweepAccounted, Crosses
<1>9. TradedFirst'
  BY <1>4, <1>6 DEF TradedFirst
<1>10. QED
  BY <1>8, <1>9

(* A step of a call that makes no trade.                                   *)
LEMMA NoTradeAccounted ==
  ASSUME SweepInv, pc # "idle",
         order' = order, trades' = trades, remaining' = remaining,
         order_location' = order_location,
         DOMAIN levels'[Opposite(order.side)]
           \subseteq DOMAIN levels[Opposite(order.side)]
  PROVE  SweepAccounted' /\ TradedFirst'
<1>1. SweepAccounted'
  BY DEF SweepInv, SweepAccounted, Crosses, Better
<1>2. TradedFirst'
  BY DEF SweepInv, TradedFirst
<1>3. QED
  BY <1>1, <1>2

LEMMA FillAccounted ==
  ASSUME SweepInv, FillPart \/ FillWhole
  PROVE  SweepAccounted' /\ TradedFirst'
<1>1. BookInv /\ TypeOK /\ remaining \in Int
  BY DEF SweepInv, BookInv, TypeOK
<1>2. CASE FillPart
  BY <1>1, <1>2, TradeAccounted DEF FillPart
<1>3. CASE FillWhole
  <2>1. Opposite(order.side) \in Side
    BY <1>1, <1>3, CursorFacts DEF FillWhole
  <2>2. DOMAIN levels'[Opposite(order.side)]
          = DOMAIN levels[Opposite(order.side)]
    BY <1>1, <1>3, <2>1, FillWholeUnlinks
  <2>3. pool[current].quantity \in Int
    BY <1>1, <1>3, CursorTypes DEF FillWhole, OrderNode
  <2>4. /\ pool[current].id \notin DOMAIN order_location'
        /\ DOMAIN order_location' \subseteq DOMAIN order_location
    BY <1>3 DEF FillWhole, Erase, Restrict
  <2>5. QED
    BY <1>3, <2>2, <2>3, <2>4, TradeAccounted DEF FillWhole
<1>4. QED
  BY <1>2, <1>3

LEMMA EndLevelAccounted ==
  ASSUME SweepInv, EndLevel
  PROVE  SweepAccounted' /\ TradedFirst'
<1> DEFINE side == Opposite(order.side)
<1>1. TypeOK /\ side \in Side /\ level_it \in DOMAIN levels[side]
  BY DEF SweepInv, BookInv, TypeOK, EndLevel, Opposite, Side
<1>2. DOMAIN levels'[side] \subseteq DOMAIN levels[side]
  BY <1>1 DEF EndLevel, EraseIfEmpty, Erase, Restrict, TypeOK
<1>3. QED
  BY <1>2, NoTradeAccounted DEF EndLevel

LEMMA AddOrderAccounted ==
  ASSUME SweepInv, NEW o \in Order, AddOrder(o)
  PROVE  SweepAccounted' /\ TradedFirst'
<1>1. trades' = <<>> /\ DOMAIN trades' = {} /\ TradedIn(trades') = 0
  BY TradedInNone, EmptySeq, LenProperties DEF AddOrder
<1>2. o.quantity \in Int /\ remaining' = o.quantity /\ order' = o
  BY QuantitiesAssumption DEF Order, AddOrder
<1>3. QED
  BY <1>1, <1>2 DEF SweepAccounted, TradedFirst

LEMMA SweepNext == SweepInv /\ [Next]_vars => SweepInv'
<1> SUFFICES ASSUME SweepInv, [Next]_vars
             PROVE  SweepAccounted' /\ TradedFirst'
  BY InvNext DEF SweepInv
<1>1. CASE UNCHANGED vars
  BY <1>1 DEF SweepInv, SweepAccounted, TradedFirst, vars, bookVars, callVars,
     Crosses, Better
<1>2. CASE pc' = "idle"
  BY <1>2 DEF SweepAccounted, TradedFirst
<1>3. CASE MatchLevel
  BY <1>3, NoTradeAccounted DEF MatchLevel, bookVars
<1>4. ASSUME NEW id \in Ids, NEW quantity \in Quantities,
             CancelOrder(id) \/ ReduceToNothing(id, quantity)
               \/ ReduceOrder(id, quantity)
      PROVE  pc' = "idle"
  BY <1>4 DEF CancelOrder, ReduceToNothing, ReduceOrder, RemoveOrder, callVars
<1>5. ReturnFilled \/ RestRemainder => pc' = "idle"
  BY DEF ReturnFilled, RestRemainder
<1>6. ASSUME NEW id \in Ids, CancelOrder(id)
      PROVE  pc' = "idle"
  BY <1>6 DEF CancelOrder, RemoveOrder, callVars
<1>7. QED
  BY <1>1, <1>2, <1>3, <1>4, <1>5, <1>6, FillAccounted, EndLevelAccounted,
     AddOrderAccounted
     DEF Next, CallStep, RejectOrder, CancelMissing, ReduceRefused

(* A running call accounts for the quantity it was called with, trades at  *)
(* no price beyond its limit, in price order, and passes no order by.      *)
THEOREM SweepAccounts == Spec => []SweepAccounted
<1>1. Init => SweepInv
  BY InvInit DEF Init, SweepInv, SweepAccounted, TradedFirst
<1>2. SweepInv => SweepAccounted
  BY DEF SweepInv
<1>3. QED
  BY <1>1, <1>2, SweepNext, PTL DEF Spec

----------------------------------------------------------------------------
(* What rests.                                                             *)

QuantityById == [id \in DOMAIN order_location |-> Slot(id).quantity]

LEMMA IndexFinite ==
  ASSUME TypeOK, SlotsAccounted
  PROVE  /\ IsFiniteSet(DOMAIN order_location) /\ IsFiniteSet(Located)
         /\ Cardinality(DOMAIN order_location) = Cardinality(Located)
<1> DEFINE g == [s \in Located |-> pool[s].id]
<1>1. IsFiniteSet(Slots)
  BY PoolFacts, FS_Interval DEF Slots
<1>2. IsFiniteSet(Located)
  BY <1>1, LocatedFacts, FS_Subset
<1>3. /\ g \in [Located -> DOMAIN order_location]
      /\ \A s, t \in Located : g[s] = g[t] => s = t
      /\ \A id \in DOMAIN order_location : \E s \in Located : g[s] = id
  BY LocatedFacts
<1>4. g \in Bijection(Located, DOMAIN order_location)
  BY <1>3 DEF Bijection, Injection, Surjection, IsInjective
<1>5. QED
  BY <1>2, <1>4, FS_Bijection DEF ExistsBijection

LEMMA RestingIsSum ==
  ASSUME TypeOK, SlotsAccounted
  PROVE  /\ RestingQuantity =
              SumFunctionOnSet(QuantityById, DOMAIN order_location)
         /\ \A id \in DOMAIN order_location : QuantityById[id] \in Int
         /\ RestingQuantity \in Int
<1>1. \A id \in DOMAIN order_location : QuantityById[id] \in Int
  BY LocatedFacts DEF QuantityById, Slot, OrderNode
<1>2. RestingQuantity = SumFunctionOnSet(QuantityById, DOMAIN order_location)
  BY DEF RestingQuantity, QuantityById, SumFunction
<1>3. QED
  BY <1>1, <1>2, IndexFinite, SumType

(* The same after a step.                                                  *)
LEMMA RestingIsSumNext ==
  ASSUME TypeOK', SlotsAccounted'
  PROVE  /\ RestingQuantity' =
              SumFunctionOnSet(QuantityById', DOMAIN order_location')
         /\ \A id \in DOMAIN order_location' : QuantityById'[id] \in Int
<1>1. pool' \in [Slots' -> OrderNode']
  BY SeqIsFunction DEF TypeOK, Slots
<1>2. /\ order_location' \in [DOMAIN order_location' -> Slots']
      /\ \A s \in Slots' : pool'[s].quantity \in Int
  BY <1>1 DEF TypeOK, OrderNode
<1>3. \A id \in DOMAIN order_location' : QuantityById'[id] \in Int
  BY <1>2 DEF QuantityById, Slot
<1>4. RestingQuantity' = SumFunctionOnSet(QuantityById', DOMAIN order_location')
  BY DEF RestingQuantity, QuantityById, SumFunction
<1>5. QED
  BY <1>3, <1>4

(* The quantity of the order in slot i changes, and no other.              *)
LEMMA RestingChanged ==
  ASSUME TypeOK, SlotsAccounted, TypeOK', SlotsAccounted',
         SameLists, NEW i \in Located,
         \A s \in Slots \ {i} : pool'[s] = pool[s]
  PROVE  RestingQuantity' =
           RestingQuantity - pool[i].quantity + pool'[i].quantity
<1> DEFINE S == DOMAIN order_location
           f == QuantityById
           g == QuantityById'
           x == pool[i].id
<1>1. /\ order_location' = order_location
      /\ x \in S /\ order_location[x] = i
      /\ \A id \in S : order_location[id] \in Slots
      /\ \A id \in S \ {x} : order_location[id] # i
  BY LocatedFacts DEF SameLists
<1>2. /\ RestingQuantity = SumFunctionOnSet(f, S)
      /\ RestingQuantity' = SumFunctionOnSet(g, S)
      /\ \A id \in S : f[id] \in Int /\ g[id] \in Int
  <2>1. /\ RestingQuantity' = SumFunctionOnSet(g, DOMAIN order_location')
        /\ \A id \in DOMAIN order_location' : g[id] \in Int
    BY RestingIsSumNext
  <2>2. QED
    BY <1>1, <2>1, RestingIsSum
<1>3. /\ f[x] = pool[i].quantity /\ g[x] = pool'[i].quantity
      /\ \A id \in S \ {x} : g[id] = f[id]
  BY <1>1 DEF QuantityById, Slot
<1> HIDE DEF f, g
<1>4. SumFunctionOnSet(g, S) = SumFunctionOnSet(f, S) - f[x] + g[x]
  BY <1>1, <1>2, <1>3, IndexFinite, SumChanged
<1>5. QED
  BY <1>2, <1>3, <1>4

(* The order in slot i leaves.                                             *)
LEMMA RestingLeft ==
  ASSUME TypeOK, SlotsAccounted, TypeOK', SlotsAccounted',
         NEW i \in Located, Unlinks(i),
         order_location' = Erase(order_location, pool[i].id),
         \A s \in Slots \ {i} : pool'[s].quantity = pool[s].quantity
  PROVE  RestingQuantity' = RestingQuantity - pool[i].quantity
<1> DEFINE S == DOMAIN order_location
           f == QuantityById
           g == QuantityById'
           x == pool[i].id
<1>1. /\ DOMAIN order_location' = S \ {x}
      /\ x \in S /\ order_location[x] = i
      /\ \A id \in S \ {x} : /\ order_location'[id] = order_location[id]
                             /\ order_location[id] \in Slots \ {i}
  BY LocatedFacts DEF Erase, Restrict
<1>2. /\ RestingQuantity = SumFunctionOnSet(f, S)
      /\ \A id \in S : f[id] \in Int
      /\ IsFiniteSet(S)
  BY RestingIsSum, IndexFinite
<1>3. RestingQuantity' = SumFunctionOnSet(g, S \ {x})
  <2>1. RestingQuantity' = SumFunctionOnSet(g, DOMAIN order_location')
    BY RestingIsSumNext
  <2>2. QED
    BY <1>1, <2>1
<1>4. /\ f[x] = pool[i].quantity
      /\ \A id \in S \ {x} : g[id] = f[id]
  BY <1>1 DEF QuantityById, Slot
<1>5. x \in S
  BY <1>1
<1> HIDE DEF f, g, S, x
<1>6. /\ SumFunctionOnSet(f, S) = f[x] + SumFunctionOnSet(f, S \ {x})
      /\ SumFunctionOnSet(f, S \ {x}) \in Int
      /\ f[x] \in Int
  BY <1>5, <1>2, SumWithout
<1>7. SumFunctionOnSet(g, S \ {x}) = SumFunctionOnSet(f, S \ {x})
  <2>1. IsFiniteSet(S \ {x})
    BY <1>2, FS_Subset
  <2>2. QED
    BY <1>4, <2>1, SumSame
<1>8. QED
  BY <1>2, <1>3, <1>4, <1>6, <1>7

(* What is left of the incoming order comes to rest.                       *)
LEMMA RestingArrived ==
  ASSUME BookInv, RestRemainder
  PROVE  /\ RestingQuantity' = RestingQuantity + remaining
         /\ order.id \notin DOMAIN order_location
         /\ DOMAIN order_location' = DOMAIN order_location \cup {order.id}
<1> DEFINE S == DOMAIN order_location
           f == QuantityById
           g == QuantityById'
           x == order.id
           i == AllocatedSlot
<1>1. /\ TypeOK /\ SlotsAccounted /\ TypeOK' /\ SlotsAccounted'
      /\ x \notin S /\ i \notin Located
  BY InvNext, RestAccounted
     DEF BookInv, SweepAtHead, RestRemainder, Next, CallStep
<1>2. /\ DOMAIN order_location' = S \cup {x}
      /\ order_location'[x] = i
      /\ \A id \in S : /\ order_location'[id] = order_location[id]
                       /\ order_location[id] \in Slots \ {i}
  BY <1>1, LocatedFacts DEF RestRemainder, Insert
<1>3. /\ RestingQuantity = SumFunctionOnSet(f, S)
      /\ \A id \in S : f[id] \in Int
      /\ IsFiniteSet(S)
  BY <1>1, RestingIsSum, IndexFinite
<1>4. /\ RestingQuantity' = SumFunctionOnSet(g, S \cup {x})
      /\ \A id \in S \cup {x} : g[id] \in Int
  <2>1. /\ RestingQuantity' = SumFunctionOnSet(g, DOMAIN order_location')
        /\ \A id \in DOMAIN order_location' : g[id] \in Int
    BY <1>1, RestingIsSumNext
  <2>2. QED
    BY <1>2, <2>1
<1>5. /\ pool'[i].quantity = remaining
      /\ \A s \in Slots \ {i} : pool'[s].quantity = pool[s].quantity
  <2>1. \A s \in Slots : pool[s] \in OrderNode
    BY <1>1, PoolFacts
  <2>2. QED
    BY <2>1 DEF RestRemainder, AppendedPool, OrderNode
<1>6. g[x] = remaining /\ \A id \in S : g[id] = f[id]
  BY <1>2, <1>5 DEF QuantityById, Slot
<1> HIDE DEF f, g
<1>7. SumFunctionOnSet(g, S \cup {x}) = SumFunctionOnSet(g, S) + g[x]
  BY <1>1, <1>3, <1>4, SumWith
<1>8. SumFunctionOnSet(g, S) = SumFunctionOnSet(f, S)
  BY <1>3, <1>6, SumSame
<1>9. QED
  BY <1>1, <1>2, <1>3, <1>4, <1>6, <1>7, <1>8

----------------------------------------------------------------------------
(* What each operation does to the quantity at rest.                       *)

LEMMA FillPartResting ==
  ASSUME BookInv, FillPart
  PROVE  RestingQuantity' = RestingQuantity - remaining
<1>1. /\ TypeOK /\ SlotsAccounted /\ TypeOK' /\ SlotsAccounted'
      /\ current \in Located
  BY InvNext, CursorFacts DEF BookInv, Next, CallStep, FillPart
<1>2. /\ SameLists
      /\ pool'[current].quantity = pool[current].quantity - remaining
      /\ \A s \in Slots \ {current} : pool'[s] = pool[s]
  BY <1>1, FillPartSameLists
<1>3. /\ pool[current].quantity \in Int /\ remaining \in Int
      /\ RestingQuantity \in Int
  <2>1. pool[current].quantity \in Int
    BY <1>1, LocatedFacts DEF OrderNode
  <2>2. remaining \in Int
    BY <1>1 DEF TypeOK
  <2>3. RestingQuantity \in Int
    BY <1>1, RestingIsSum
  <2>4. QED
    BY <2>1, <2>2, <2>3
<1>4. RestingQuantity' =
        RestingQuantity - pool[current].quantity + pool'[current].quantity
  BY <1>1, <1>2, RestingChanged
<1>5. QED
  BY <1>2, <1>3, <1>4

LEMMA FillWholeResting ==
  ASSUME BookInv, FillWhole
  PROVE  RestingQuantity' = RestingQuantity - pool[current].quantity
<1>1. TypeOK /\ SlotsAccounted /\ TypeOK' /\ SlotsAccounted'
  BY InvNext DEF BookInv, Next, CallStep
<1>2. /\ current \in Located /\ Unlinks(current)
      /\ \A s \in Slots \ {current} : pool'[s].quantity = pool[s].quantity
  BY FillWholeUnlinks
<1>3. order_location' = Erase(order_location, pool[current].id)
  BY DEF FillWhole
<1>4. QED
  BY <1>1, <1>2, <1>3, RestingLeft

LEMMA RemoveOrderResting ==
  ASSUME BookInv, pc = "idle", NEW id \in Ids, CanCancel(id), RemoveOrder(id)
  PROVE  RestingQuantity' = RestingQuantity - Slot(id).quantity
<1> DEFINE i == order_location[id]
<1>1. TypeOK /\ SlotsAccounted /\ TypeOK' /\ SlotsAccounted'
  BY InvNext DEF BookInv, Next, CancelOrder
<1>2. /\ i \in Located /\ pool[i].id = id /\ Unlinks(i)
      /\ \A s \in Slots : pool'[s].quantity = pool[s].quantity
  BY RemoveOrderUnlinks
<1>3. order_location' = Erase(order_location, id)
  BY DEF RemoveOrder
<1>4. QED
  BY <1>1, <1>2, <1>3, RestingLeft DEF Slot

LEMMA ReduceOrderResting ==
  ASSUME BookInv, NEW id \in Ids, NEW quantity \in Quantities,
         ReduceOrder(id, quantity)
  PROVE  RestingQuantity' = RestingQuantity - quantity
<1> DEFINE i == order_location[id]
<1>1. TypeOK /\ SlotsAccounted /\ TypeOK' /\ SlotsAccounted'
  BY InvNext DEF BookInv, Next
<1>2. /\ SameLists /\ id \in DOMAIN order_location
      /\ pool'[i].quantity = pool[i].quantity - quantity
      /\ \A s \in Slots \ {i} : pool'[s] = pool[s]
  BY <1>1, ReduceOrderSameLists
<1>3. /\ i \in Located /\ pool[i].quantity \in Int
      /\ quantity \in Int /\ RestingQuantity \in Int
  BY <1>1, <1>2, LocatedFacts, RestingIsSum, QuantitiesAssumption DEF OrderNode
<1>4. RestingQuantity' =
        RestingQuantity - pool[i].quantity + pool'[i].quantity
  BY <1>1, <1>2, <1>3, RestingChanged
<1>5. QED
  BY <1>2, <1>3, <1>4

LEMMA SameResting ==
  ASSUME order_location' = order_location, pool' = pool
  PROVE  RestingQuantity' = RestingQuantity
BY DEF RestingQuantity, Slot

----------------------------------------------------------------------------
(* The rows of a snapshot come in the order of the map.                    *)

(* The prices of a set that come before a price, and a list in map order.  *)
AheadOfPrice(side, S, q) == {p \in S : Better(side, p, q)}

InOrder(side, s) ==
  \A i, j \in DOMAIN s : i < j => Better(side, s[i], s[j])

(* A finite set of prices can be put in the order of its map.              *)
LEMMA OrderExists ==
  ASSUME NEW side \in Side, NEW S \in SUBSET Int, IsFiniteSet(S)
  PROVE  \E s \in [1 .. Cardinality(S) -> S] : InOrder(side, s)
<1> DEFINE Ordered(T) == \E s \in [1 .. Cardinality(T) -> T] : InOrder(side, s)
           F == {T \in SUBSET S : ~Ordered(T)}
<1> SUFFICES ASSUME F # {} PROVE FALSE
  OBVIOUS
<1>1. PICK T \in F : /\ IsFiniteSet(T)
                     /\ \A U \in F : Cardinality(T) <= Cardinality(U)
  BY SmallestSet
<1>2. T \in SUBSET Int /\ ~Ordered(T)
  BY <1>1
<1>3. CASE T = {}
  <2>1. Cardinality(T) = 0
    BY <1>3, FS_EmptySet
  <2> DEFINE s == [i \in 1 .. 0 |-> 0]
  <2>2. s \in [1 .. Cardinality(T) -> T] /\ InOrder(side, s)
    BY <2>1 DEF InOrder
  <2>3. QED
    BY <1>2, <2>2
<1>4. CASE T # {}
  <2>1. PICK w \in T : \A p \in T \ {w} : Better(side, p, w)
    BY <1>1, <1>2, <1>4, LastInMap
  <2> DEFINE U == T \ {w}
             n == Cardinality(T)
  <2>2. U \in SUBSET S /\ n \in Nat /\ Cardinality(U) \in Nat /\ Cardinality(U) < n
    BY <1>1, Smaller
  <2>3. Cardinality(U) = n - 1
    BY <1>1, FS_RemoveElement, FS_CardinalityType
  <2>4. U \notin F
    <3>1. ~(n <= Cardinality(U))
      BY <2>2
    <3> HIDE DEF F
    <3>2. QED
      BY <1>1, <3>1
  <2>5. PICK r \in [1 .. n - 1 -> U] : InOrder(side, r)
    <3>1. Ordered(U)
      <4> HIDE DEF Ordered
      <4>1. QED
        BY <2>2, <2>4
    <3>2. QED
      BY <2>3, <3>1
  <2> DEFINE s == [i \in 1 .. n |-> IF i = n THEN w ELSE r[i]]
  <2>6. \A i \in 1 .. n : i # n => i \in 1 .. n - 1 /\ r[i] \in U
    BY <2>2, <2>5
  <2>7. s \in [1 .. n -> T]
    BY <2>1, <2>6
  <2> HIDE DEF n, U
  <2>8. ASSUME NEW i \in 1 .. n, NEW j \in 1 .. n, i < j
        PROVE  Better(side, s[i], s[j])
    <3>1. i # n /\ i \in 1 .. n - 1 /\ s[i] = r[i] /\ r[i] \in U
      BY <2>2, <2>6, <2>8
    <3>2. CASE j = n
      BY <2>1, <3>1, <3>2 DEF U
    <3>3. CASE j # n
      BY <2>5, <2>6, <2>8, <3>1, <3>3 DEF InOrder
    <3>4. QED
      BY <3>2, <3>3
  <2>9. InOrder(side, s)
    BY <2>8 DEF InOrder
  <2>10. QED
    BY <1>2, <2>7, <2>9 DEF n
<1>5. QED
  BY <1>3, <1>4

(* What InMapOrder makes of the prices of a map.                           *)
LEMMA InMapOrderIs ==
  ASSUME NEW side \in Side, NEW S \in SUBSET Int, IsFiniteSet(S),
         NEW s, s = InMapOrder(side, S)
  PROVE  /\ Cardinality(S) \in Nat
         /\ s \in [1 .. Cardinality(S) -> S]
         /\ s \in Seq(S) /\ Len(s) = Cardinality(S)
         /\ InOrder(side, s)
         /\ \A p \in S : \E i \in 1 .. Cardinality(S) : s[i] = p
         /\ \A i \in 1 .. Cardinality(S) :
              Cardinality(AheadOfPrice(side, S, s[i])) = i - 1
<1> DEFINE n == Cardinality(S)
<1>1. n \in Nat
  BY FS_CardinalityType
<1>2. s \in [1 .. n -> S] /\ InOrder(side, s)
  BY OrderExists DEF InMapOrder, InOrder
<1>3. s \in Seq(S) /\ Len(s) = n
  BY <1>1, <1>2, FunctionIsSeq
<1> HIDE DEF n
<1>4. \A i \in 1 .. n : s[i] \in Int
  BY <1>2
<1>5. \A i, j \in 1 .. n : i < j <=> Better(side, s[i], s[j])
  BY <1>1, <1>2, <1>4 DEF InOrder, Better
<1>6. \A i, j \in 1 .. n : s[i] = s[j] => i = j
  BY <1>1, <1>4, <1>5 DEF Better
<1>7. s \in Injection(1 .. n, S)
  BY <1>2, <1>6 DEF Injection, IsInjective
<1>8. IsFiniteSet(1 .. n) /\ Cardinality(1 .. n) = n
  BY <1>1, FS_Interval
<1>9. s \in Surjection(1 .. n, S)
  BY <1>7, <1>8, FS_Injection DEF n
<1>10. \A p \in S : \E i \in 1 .. n : s[i] = p
  BY <1>9 DEF Surjection
<1>11. ASSUME NEW i \in 1 .. n
       PROVE  Cardinality(AheadOfPrice(side, S, s[i])) = i - 1
  <2> DEFINE B == {p \in S : Better(side, p, s[i])}
             r == [j \in 1 .. i - 1 |-> s[j]]
  <2>1. i - 1 \in Nat /\ 1 .. i - 1 \subseteq 1 .. n
    BY <1>1
  <2>2. \A j \in 1 .. i - 1 : s[j] \in B
    BY <1>1, <1>2, <1>5, <2>1
  <2>3. r \in [1 .. i - 1 -> B]
    BY <2>2
  <2>4. \A j, k \in 1 .. i - 1 : r[j] = r[k] => j = k
    BY <1>6, <2>1
  <2>5. \A p \in B : \E j \in 1 .. i - 1 : r[j] = p
    <3>1. ASSUME NEW p \in B PROVE \E j \in 1 .. i - 1 : r[j] = p
      <4>1. PICK j \in 1 .. n : s[j] = p
        BY <1>10, <3>1
      <4>2. j < i
        BY <1>5, <3>1, <4>1
      <4>3. j \in 1 .. i - 1
        BY <1>1, <4>2
      <4>4. QED
        BY <4>1, <4>3
    <3>2. QED
      BY <3>1
  <2> HIDE DEF r, B
  <2>6. r \in Injection(1 .. i - 1, B) /\ r \in Surjection(1 .. i - 1, B)
    BY <2>3, <2>4, <2>5 DEF Injection, IsInjective, Surjection
  <2>7. ExistsBijection(1 .. i - 1, B)
    BY <2>6 DEF ExistsBijection, Bijection
  <2>8. Cardinality(B) = i - 1
    BY <2>1, <2>7, FS_CountingElements
  <2>9. QED
    BY <2>8 DEF B, AheadOfPrice
<1>12. QED
  BY <1>1, <1>2, <1>3, <1>10, <1>11 DEF n
----------------------------------------------------------------------------
(* Two facts BookInv does not need and a snapshot relies on: the orders at *)
(* rest have distinct arrival numbers, and a released slot leads nowhere.  *)

ArrivalsDistinct ==
  \A s, t \in Located : arrival[s] = arrival[t] => s = t

FreeUnthreaded == \A s \in Slots \ Located : pool[s].next = kInvalid

ViewInv == BookInv /\ ArrivalsDistinct /\ FreeUnthreaded

LEMMA RestKeepsView ==
  ASSUME ViewInv, RestRemainder
  PROVE  ArrivalsDistinct' /\ FreeUnthreaded'
<1> DEFINE i == AllocatedSlot
           level == LevelAt(order.side, order.price)
<1>1. BookInv /\ TypeOK /\ SlotsAccounted /\ LevelsThreaded
  BY DEF ViewInv, BookInv
<1>2. order.id \notin DOMAIN order_location
  BY <1>1 DEF BookInv, SweepAtHead, RestRemainder
<1>3. /\ Located' = Located \cup {i} /\ i \notin Located
      /\ Slots' = Slots \cup {i}
  BY <1>1, <1>2, RestAccounted
<1>4. \A s \in Located : s \in Slots /\ arrival[s] \in Nat /\ arrival[s] < clock
  BY <1>1, NodeFacts
<1>5. /\ arrival'[i] = clock
      /\ \A s \in Located : arrival'[s] = arrival[s]
  BY <1>1, <1>3, <1>4 DEF RestRemainder, Insert, TypeOK
<1>6. clock \in Nat
  BY <1>1 DEF TypeOK
<1>7. ArrivalsDistinct'
  BY <1>3, <1>4, <1>5, <1>6 DEF ViewInv, ArrivalsDistinct
<1>8. ASSUME NEW s \in Slots \ Located, s # i PROVE pool'[s].next = kInvalid
  <2>1. s # level.tail
    <3>1. CASE order.price \in DOMAIN levels[order.side]
      <4>1. order.side \in Side
        BY <1>1 DEF TypeOK, RestRemainder, Order
      <4>2. level = levels[order.side][order.price]
        BY <3>1 DEF LevelAt
      <4>3. level.tail # kInvalid => level.tail \in Located
        <5> DEFINE tail == levels[order.side][order.price].tail
        <5>1. tail # kInvalid => OnLevel(tail, order.side, order.price)
          BY <1>1, <3>1, <4>1, LevelFacts
        <5>2. QED
          BY <4>2, <5>1 DEF OnLevel
      <4>4. s # kInvalid
        BY <1>1, <1>8, PoolFacts DEF kInvalid
      <4>5. s \notin Located
        BY <1>8
      <4> HIDE DEF level
      <4>6. QED
        BY <4>3, <4>4, <4>5
    <3>2. CASE order.price \notin DOMAIN levels[order.side]
      <4>1. level.tail = kInvalid
        BY <3>2 DEF LevelAt
      <4>2. QED
        BY <1>1, <1>8, <4>1, PoolFacts DEF kInvalid
    <3>3. QED
      BY <3>1, <3>2
  <2>2. pool'[s] = [pool[s] EXCEPT !.next = IF s = level.tail THEN i ELSE @]
    BY <1>8 DEF RestRemainder, AppendedPool
  <2>3. pool[s] \in OrderNode /\ pool[s].next = kInvalid
    BY <1>1, <1>8, PoolFacts DEF ViewInv, FreeUnthreaded
  <2> HIDE DEF i, level
  <2>4. QED
    BY <2>1, <2>2, <2>3 DEF OrderNode
<1>9. FreeUnthreaded'
  BY <1>3, <1>8 DEF FreeUnthreaded
<1>10. QED
  BY <1>7, <1>9

LEMMA UnlinkKeepsView ==
  ASSUME ViewInv, NEW i \in Located, Unlinks(i), pool'[i].next = kInvalid
  PROVE  ArrivalsDistinct' /\ FreeUnthreaded'
<1>1. /\ Slots' = Slots /\ Located' = Located \ {i} /\ arrival' = arrival
      /\ \A s \in Slots \ {i} : pool'[s].next =
           IF s = pool[i].prev THEN pool[i].next ELSE pool[s].next
  BY DEF Unlinks
<1>2. ArrivalsDistinct'
  BY <1>1 DEF ViewInv, ArrivalsDistinct
<1>3. pool[i].prev = kInvalid \/ pool[i].prev \in Located
  BY NodeFacts DEF ViewInv, BookInv, Ahead, OnLevel
<1>4. \A s \in Slots : s # kInvalid
  BY PoolFacts DEF ViewInv, BookInv, kInvalid
<1>5. FreeUnthreaded'
  BY <1>1, <1>3, <1>4 DEF ViewInv, FreeUnthreaded
<1>6. QED
  BY <1>2, <1>5

LEMMA SameListsKeepView ==
  ASSUME ViewInv, SameLists
  PROVE  ArrivalsDistinct' /\ FreeUnthreaded'
BY DEF ViewInv, SameLists, ArrivalsDistinct, FreeUnthreaded, Located

LEMMA SameBookKeepsView ==
  ASSUME ViewInv, UNCHANGED <<pool, order_location, arrival>>
  PROVE  ArrivalsDistinct' /\ FreeUnthreaded'
BY DEF ViewInv, ArrivalsDistinct, FreeUnthreaded, Located, Slots

LEMMA ViewInvNext == ViewInv /\ [Next]_vars => ViewInv'
<1> SUFFICES ASSUME ViewInv, [Next]_vars PROVE ArrivalsDistinct' /\ FreeUnthreaded'
  BY InvNext DEF ViewInv
<1>1. BookInv /\ TypeOK
  BY DEF ViewInv, BookInv
<1>2. CASE RestRemainder
  BY <1>2, RestKeepsView
<1>3. CASE FillWhole
  <2>1. current \in Located /\ Unlinks(current) /\ current \in Slots
    BY <1>1, <1>3, FillWholeUnlinks, LocatedFacts DEF BookInv
  <2> DEFINE nodes == [pool EXCEPT ![current].quantity = 0]
  <2>2. nodes \in [Slots -> OrderNode]
    BY <1>1, <2>1, QuantityChangeType
  <2>3. pool' = UnlinkedPool(current, nodes)
    BY <1>3 DEF FillWhole
  <2> HIDE DEF nodes
  <2>4. pool'[current].next = kInvalid
    BY <2>1, <2>2, <2>3 DEF UnlinkedPool, OrderNode
  <2>5. QED
    BY <2>1, <2>4, UnlinkKeepsView
<1>4. ASSUME NEW id \in Ids, CanCancel(id), RemoveOrder(id)
      PROVE  ArrivalsDistinct' /\ FreeUnthreaded'
  <2> DEFINE i == order_location[id]
  <2>1. i \in Located /\ Unlinks(i) /\ i \in Slots
    BY <1>1, <1>4, RemoveOrderUnlinks, LocatedFacts DEF BookInv
  <2>2. pool' = UnlinkedPool(i, pool) /\ pool \in [Slots -> OrderNode]
    BY <1>1, <1>4, PoolFacts DEF RemoveOrder
  <2> HIDE DEF i
  <2>3. pool'[i].next = kInvalid
    BY <2>1, <2>2 DEF UnlinkedPool, OrderNode
  <2>4. QED
    BY <2>1, <2>3, UnlinkKeepsView
<1>5. CASE UNCHANGED <<pool, order_location, arrival>>
  BY <1>5, SameBookKeepsView
<1>6. CASE FillPart
  BY <1>1, <1>6, FillPartSameLists, SameListsKeepView
<1>7. ASSUME NEW id \in Ids, NEW quantity \in Quantities,
             ReduceOrder(id, quantity)
      PROVE  ArrivalsDistinct' /\ FreeUnthreaded'
  BY <1>1, <1>7, ReduceOrderSameLists, SameListsKeepView
<1>8. MatchLevel \/ EndLevel \/ ReturnFilled
        => UNCHANGED <<pool, order_location, arrival>>
  BY DEF MatchLevel, EndLevel, ReturnFilled, bookVars
<1>9. ASSUME NEW o \in Order, AddOrder(o) \/ RejectOrder(o)
      PROVE  UNCHANGED <<pool, order_location, arrival>>
  BY <1>9 DEF AddOrder, RejectOrder, vars, bookVars
<1>10. QED
  BY <1>2, <1>3, <1>4, <1>5, <1>6, <1>7, <1>8, <1>9
     DEF Next, CallStep, CancelOrder, CancelMissing, ReduceToNothing,
         ReduceRefused, vars, bookVars

LEMMA ViewInvInit == Init => ViewInv
<1>1. Init => ArrivalsDistinct /\ FreeUnthreaded
  <2>1. ASSUME Init PROVE Slots = {} /\ Located = {}
    BY <2>1 DEF Init, Slots, Located, Range, EmptyMap
  <2>2. QED
    BY <2>1 DEF ArrivalsDistinct, FreeUnthreaded
<1>2. QED
  BY <1>1, InvInit DEF ViewInv

----------------------------------------------------------------------------
(* The walk along a list, from slot to slot until it leads nowhere.        *)

(* The orders at the level of an order.                                    *)
LevelOf(s) == {t \in Located : OnLevel(t, pool[s].side, pool[s].price)}

(* Nothing of a level lies between an order and the one it points to.      *)
LEMMA NextComesNext ==
  ASSUME ViewInv, NEW s \in Located, NEW t \in LevelOf(s), arrival[s] < arrival[t]
  PROVE  pool[s].next # kInvalid /\ arrival[pool[s].next] <= arrival[t]
<1> DEFINE Follows(a, b) ==
             pool[a].next # kInvalid /\ arrival[pool[a].next] <= arrival[b]
           C == {b \in Located : \E a \in Located :
                   /\ b \in LevelOf(a) /\ arrival[a] < arrival[b]
                   /\ ~Follows(a, b)}
           A == {arrival[b] : b \in C}
<1>1. TypeOK /\ SlotsAccounted /\ LevelsThreaded /\ ArrivalsDistinct
  BY DEF ViewInv, BookInv
<1>2. \A b \in Located : arrival[b] \in Nat
  BY <1>1, NodeFacts
<1>3. ASSUME C # {} PROVE FALSE
  <2>1. A \subseteq Nat /\ A # {}
    BY <1>2, <1>3
  <2>2. PICK m \in A : \A n \in A : m <= n
    BY <2>1, LeastNatural
  <2>3. PICK b \in C : \A c \in C : arrival[b] <= arrival[c]
    BY <2>2
  <2>4. PICK a \in Located : /\ b \in LevelOf(a) /\ arrival[a] < arrival[b]
                             /\ ~Follows(a, b)
    BY <2>3
  <2>5. b \in Located /\ pool[b].side = pool[a].side /\ pool[b].price = pool[a].price
    BY <2>4 DEF LevelOf, OnLevel
  <2>6. \A c \in Located : arrival[c] < arrival[b] => c \notin C
    <3> HIDE DEF C
    <3>1. QED
      BY <1>2, <2>3, <2>5
  <2> DEFINE u == pool[b].prev
  <2>7. u # kInvalid
    <3>1. SUFFICES ASSUME u = kInvalid PROVE FALSE
      OBVIOUS
    <3>2. /\ pool[b].side \in Side
          /\ pool[b].price \in DOMAIN levels[pool[b].side]
          /\ levels[pool[b].side][pool[b].price].head = b
      BY <1>1, <2>5, <3>1, NodeFacts
    <3>3. arrival[b] <= arrival[a]
      BY <1>1, <2>4, <2>5, <3>2, HeadIsOldest DEF OnLevel
    <3>4. QED
      BY <1>2, <2>4, <2>5, <3>3
  <2>8. /\ u \in Located /\ pool[u].next = b /\ arrival[u] < arrival[b]
        /\ pool[u].side = pool[b].side /\ pool[u].price = pool[b].price
    BY <1>1, <2>5, <2>7, NodeFacts DEF Ahead, OnLevel
  <2> HIDE DEF u
  <2>9. CASE arrival[a] < arrival[u]
    <3>1. u \in LevelOf(a) /\ u \notin C
      BY <2>5, <2>6, <2>8 DEF LevelOf, OnLevel
    <3>2. Follows(a, u)
      BY <2>4, <2>8, <2>9, <3>1
    <3>3. pool[a].next \in Located
      BY <1>1, <2>4, <3>2, NodeFacts DEF Ahead, OnLevel
    <3>4. arrival[pool[a].next] <= arrival[b]
      BY <1>2, <2>5, <2>8, <3>2, <3>3
    <3>5. QED
      BY <2>4, <3>2, <3>4
  <2>10. CASE arrival[a] = arrival[u]
    <3>1. a = u
      BY <1>1, <2>4, <2>8, <2>10 DEF ArrivalsDistinct
    <3>2. pool[a].next = b /\ b # kInvalid
      BY <1>1, <2>5, <2>8, <3>1, NodeFacts
    <3>3. Follows(a, b)
      BY <1>2, <2>5, <3>2
    <3>4. QED
      BY <2>4, <3>3
  <2>11. CASE arrival[u] < arrival[a]
    <3>1. a \in LevelOf(u) /\ a \notin C
      BY <2>4, <2>5, <2>6, <2>8 DEF LevelOf, OnLevel
    <3>2. Follows(u, a)
      BY <2>4, <2>8, <2>11, <3>1
    <3>3. QED
      BY <1>2, <2>4, <2>5, <2>8, <3>2
  <2>12. QED
    BY <1>2, <2>4, <2>8, <2>9, <2>10, <2>11
<1>4. t \in Located
  BY DEF LevelOf
<1> HIDE DEF Follows
<1>5. Follows(s, t)
  BY <1>3, <1>4
<1>6. QED
  BY <1>5 DEF Follows
(* The order and those of its level that came after it.                    *)
Behind(s) == {t \in LevelOf(s) : arrival[t] >= arrival[s]}

QuantityAt == [s \in Slots |-> pool[s].quantity]

LEMMA LevelFinite ==
  ASSUME ViewInv, NEW T \in SUBSET Located
  PROVE  IsFiniteSet(T) /\ \A t \in T : t \in Slots /\ QuantityAt[t] \in Int
<1>1. IsFiniteSet(T)
  BY IndexFinite, FS_Subset DEF ViewInv, BookInv
<1>2. \A t \in T : t \in Slots /\ pool[t] \in OrderNode
  BY NodeFacts DEF ViewInv, BookInv
<1>3. QED
  BY <1>1, <1>2 DEF QuantityAt, OrderNode

(* What is behind an order is what is behind the one it points to.         *)
LEMMA BehindNext ==
  ASSUME ViewInv, NEW s \in Located
  PROVE  /\ pool[s].next = kInvalid => Behind(s) = {s}
         /\ pool[s].next # kInvalid =>
              /\ pool[s].next \in Located
              /\ arrival[s] < arrival[pool[s].next]
              /\ Behind(s) = Behind(pool[s].next) \cup {s}
              /\ s \notin Behind(pool[s].next)
<1> DEFINE n == pool[s].next
<1>1. TypeOK /\ SlotsAccounted /\ LevelsThreaded /\ ArrivalsDistinct
  BY DEF ViewInv, BookInv
<1>2. \A t \in Located : arrival[t] \in Nat
  BY <1>1, NodeFacts
<1>3. s \in Behind(s)
  BY <1>2 DEF Behind, LevelOf, OnLevel
<1>4. ASSUME NEW t \in Behind(s), t # s PROVE arrival[s] < arrival[t]
  BY <1>1, <1>2, <1>4 DEF ArrivalsDistinct, Behind, LevelOf
<1>5. ASSUME NEW t \in Behind(s), t # s
      PROVE  n # kInvalid /\ arrival[n] <= arrival[t]
  BY <1>4, <1>5, NextComesNext DEF Behind
<1>6. CASE n = kInvalid
  BY <1>3, <1>5, <1>6
<1>7. CASE n # kInvalid
  <2>1. Ahead(s, n)
    BY <1>1, <1>7, NodeFacts
  <2>2. /\ n \in Located /\ arrival[s] < arrival[n]
        /\ pool[n].side = pool[s].side /\ pool[n].price = pool[s].price
    BY <2>1 DEF Ahead, OnLevel
  <2>3. LevelOf(n) = LevelOf(s)
    BY <2>2 DEF LevelOf
  <2> HIDE DEF n
  <2>4. s \notin Behind(n)
    BY <1>2, <2>2 DEF Behind
  <2>5. ASSUME NEW t \in Behind(n) PROVE t \in Behind(s)
    BY <1>2, <2>2, <2>3 DEF Behind, LevelOf
  <2>6. ASSUME NEW t \in Behind(s), t # s PROVE t \in Behind(n)
    BY <1>2, <1>5, <2>2, <2>3, <2>6 DEF Behind, LevelOf
  <2>7. Behind(s) = Behind(n) \cup {s}
    BY <1>3, <2>5, <2>6
  <2>8. QED
    BY <1>7, <2>2, <2>4, <2>7 DEF n
<1>8. QED
  BY <1>6, <1>7

(* What Walked chooses: a function that adds up along the slots.           *)
IsWalk(f) ==
  f = [i \in Index |-> IF i = kInvalid THEN 0
                       ELSE pool[i].quantity + f[pool[i].next]]

LEMMA WalkedIsChosen ==
  ASSUME NEW s
  PROVE  Walked(s) = (CHOOSE f : IsWalk(f))[s]
BY DEF Walked, IsWalk

LEMMA WalkExists ==
  ASSUME ViewInv
  PROVE  \E f : IsWalk(f)
<1> DEFINE f == [i \in Index |->
                   IF i = kInvalid THEN 0
                   ELSE IF i \in Located THEN SumFunctionOnSet(QuantityAt, Behind(i))
                   ELSE pool[i].quantity]
<1>1. TypeOK /\ SlotsAccounted /\ Located \subseteq Slots /\ kInvalid \notin Slots
  BY LocatedFacts, PoolFacts DEF ViewInv, BookInv, kInvalid
<1>2. f[kInvalid] = 0
  BY DEF Index
<1>3. ASSUME NEW i \in Slots
      PROVE  f[i] = pool[i].quantity + f[pool[i].next]
  <2>1. i # kInvalid /\ i \in Index /\ pool[i].quantity \in Int
    BY <1>1, PoolFacts DEF Index, OrderNode
  <2>2. CASE i \in Located
    <3>1. /\ f[i] = SumFunctionOnSet(QuantityAt, Behind(i))
          /\ QuantityAt[i] = pool[i].quantity
      BY <2>1, <2>2 DEF QuantityAt
    <3>2. CASE pool[i].next = kInvalid
      <4>1. Behind(i) = {i}
        BY <2>2, <3>2, BehindNext
      <4>2. SumFunctionOnSet(QuantityAt, {i})
              = QuantityAt[i] + SumFunctionOnSet(QuantityAt, {i} \ {i})
        BY <2>1, <3>1, FS_Singleton, SumWithout
      <4>3. SumFunctionOnSet(QuantityAt, {i} \ {i}) = 0
        BY SumOfNone
      <4> HIDE DEF f
      <4>4. QED
        BY <1>2, <2>1, <3>1, <3>2, <4>1, <4>2, <4>3
    <3>3. CASE pool[i].next # kInvalid
      <4> DEFINE n == pool[i].next
      <4>1. /\ n \in Located /\ Behind(i) = Behind(n) \cup {i}
            /\ i \notin Behind(n)
        BY <2>2, <3>3, BehindNext
      <4>2. f[n] = SumFunctionOnSet(QuantityAt, Behind(n))
        BY <1>1, <4>1 DEF Index
      <4>3. Behind(n) \in SUBSET Located /\ Behind(i) \in SUBSET Located
        BY DEF Behind, LevelOf
      <4>4. /\ IsFiniteSet(Behind(n))
            /\ \A t \in Behind(n) \cup {i} : QuantityAt[t] \in Int
        BY <4>1, <4>3, LevelFinite
      <4> HIDE DEF f, n
      <4>5. f[i] = f[n] + pool[i].quantity
        <5>1. SumFunctionOnSet(QuantityAt, Behind(n) \cup {i})
                = SumFunctionOnSet(QuantityAt, Behind(n)) + QuantityAt[i]
          BY <4>1, <4>4, SumWith
        <5>2. QED
          BY <3>1, <4>1, <4>2, <5>1
      <4>6. f[n] \in Int
        BY <4>2, <4>4, SumType
      <4>7. f[i] = pool[i].quantity + f[n]
        BY <2>1, <4>5, <4>6
      <4>8. QED
        BY <4>7 DEF n
    <3>4. QED
      BY <3>2, <3>3
  <2>3. CASE i \notin Located
    <3>1. f[i] = pool[i].quantity
      BY <2>1, <2>3
    <3>2. pool[i].next = kInvalid
      BY <2>3 DEF ViewInv, FreeUnthreaded
    <3> HIDE DEF f
    <3>3. QED
      BY <1>2, <2>1, <3>1, <3>2
  <2>4. QED
    BY <2>2, <2>3
<1>4. f = [i \in Index |-> f[i]]
  OBVIOUS
<1> HIDE DEF f
<1>5. IsWalk(f)
  BY <1>2, <1>3, <1>4 DEF IsWalk, Index
<1>6. QED
  BY <1>5

(* The quantity met on a walk is that of the order it starts at and of all *)
(* those behind it.                                                        *)
LEMMA WalkedIs ==
  ASSUME ViewInv, NEW s \in Located
  PROVE  Walked(s) = SumFunctionOnSet(QuantityAt, Behind(s))
<1> DEFINE f == CHOOSE g : IsWalk(g)
           Total(i) == SumFunctionOnSet(QuantityAt, Behind(i))
           C == {i \in Located : f[i] # Total(i)}
           A == {clock - arrival[i] : i \in C}
<1>1. IsWalk(f)
  BY WalkExists
<1> HIDE DEF f
<1>2. TypeOK /\ SlotsAccounted /\ LevelsThreaded
  BY DEF ViewInv, BookInv
<1>3. \A i \in Located : /\ i \in Slots /\ i # kInvalid /\ i \in Index
                         /\ arrival[i] \in Nat /\ arrival[i] < clock
                         /\ pool[i].quantity \in Int
                         /\ QuantityAt[i] = pool[i].quantity
  BY <1>2, NodeFacts DEF Index, OrderNode, QuantityAt
<1>4. clock \in Nat
  BY <1>2 DEF TypeOK
<1>5. f[kInvalid] = 0 /\ \A i \in Located : f[i] = pool[i].quantity + f[pool[i].next]
  <2>1. kInvalid \in Index
    BY DEF Index
  <2>2. f = [i \in Index |-> IF i = kInvalid THEN 0
                             ELSE pool[i].quantity + f[pool[i].next]]
    BY <1>1 DEF IsWalk
  <2>3. QED
    BY <1>3, <2>1, <2>2
<1>6. ASSUME C # {} PROVE FALSE
  <2>1. A \subseteq Nat /\ A # {}
    BY <1>3, <1>4, <1>6
  <2>2. PICK m \in A : \A n \in A : m <= n
    BY <2>1, LeastNatural
  <2>3. PICK i \in C : m = clock - arrival[i]
    BY <2>2
  <2>4. i \in Located /\ f[i] # Total(i)
    BY <2>3
  <2>5. CASE pool[i].next = kInvalid
    <3>1. Behind(i) = {i}
      BY <2>4, <2>5, BehindNext
    <3>2. SumFunctionOnSet(QuantityAt, {i})
            = QuantityAt[i] + SumFunctionOnSet(QuantityAt, {i} \ {i})
      BY <1>3, <2>4, FS_Singleton, SumWithout
    <3>3. SumFunctionOnSet(QuantityAt, {i} \ {i}) = 0
      BY SumOfNone
    <3>4. f[i] = pool[i].quantity + 0
      BY <1>5, <2>4, <2>5
    <3>5. Total(i) = f[i]
      BY <1>3, <2>4, <3>1, <3>2, <3>3, <3>4
    <3>6. QED
      BY <2>4, <3>5
  <2>6. CASE pool[i].next # kInvalid
    <3> DEFINE n == pool[i].next
    <3>1. /\ n \in Located /\ Behind(i) = Behind(n) \cup {i}
          /\ i \notin Behind(n) /\ arrival[i] < arrival[n]
      BY <2>4, <2>6, BehindNext
    <3> HIDE DEF n
    <3>2. n \notin C
      <4>1. SUFFICES ASSUME n \in C PROVE FALSE
        OBVIOUS
      <4>2. clock - arrival[n] \in A
        BY <4>1
      <4>3. clock - arrival[i] <= clock - arrival[n]
        BY <2>2, <2>3, <4>2
      <4>4. QED
        BY <1>3, <1>4, <2>4, <3>1, <4>3
    <3>3. f[n] = Total(n)
      BY <3>1, <3>2
    <3>4. Behind(n) \in SUBSET Located
      BY DEF Behind, LevelOf
    <3>5. /\ IsFiniteSet(Behind(n))
          /\ \A t \in Behind(n) \cup {i} : QuantityAt[t] \in Int
      BY <1>3, <2>4, <3>4, LevelFinite
    <3>6. Total(i) = Total(n) + QuantityAt[i] /\ Total(n) \in Int
      <4>1. SumFunctionOnSet(QuantityAt, Behind(n) \cup {i})
              = SumFunctionOnSet(QuantityAt, Behind(n)) + QuantityAt[i]
        BY <3>1, <3>5, SumWith
      <4>2. SumFunctionOnSet(QuantityAt, Behind(n)) \in Int
        BY <3>5, SumType
      <4>3. QED
        BY <3>1, <4>1, <4>2
    <3>7. f[i] = pool[i].quantity + f[n]
      BY <1>5, <2>4 DEF n
    <3> HIDE DEF Total
    <3>8. QED
      BY <1>3, <2>4, <3>3, <3>6, <3>7
  <2>7. QED
    BY <2>5, <2>6
<1>7. f[s] = Total(s)
  BY <1>6
<1>8. QED
  BY <1>7, WalkedIsChosen DEF f
----------------------------------------------------------------------------
(* What a snapshot shows of one side.                                      *)

(* The ids at rest on a side, and those at one of its prices.              *)
RestingOn(side) == {id \in DOMAIN order_location : Slot(id).side = side}
RestingAt(side, p) == {id \in RestingOn(side) : Slot(id).price = p}

(* Between two calls a map of levels has the prices at which orders rest.  *)
LEMMA PricesAtRest ==
  ASSUME BookInv, pc = "idle", NEW side \in Side
  PROVE  /\ DOMAIN levels[side] = {Slot(id).price : id \in RestingOn(side)}
         /\ IsFiniteSet(DOMAIN levels[side])
         /\ DOMAIN levels[side] \in SUBSET Int
         /\ IsFiniteSet(RestingOn(side))
<1> DEFINE prices == {Slot(id).price : id \in RestingOn(side)}
           g == [id \in RestingOn(side) |-> Slot(id).price]
<1>1. TypeOK /\ SlotsAccounted /\ LevelsThreaded /\ NothingExhausted
  BY DEF BookInv
<1>2. ASSUME NEW id \in RestingOn(side)
      PROVE  Slot(id).price \in DOMAIN levels[side]
  <2>1. order_location[id] \in Located /\ Slot(id).side = side
    BY <1>1, <1>2, LocatedFacts DEF RestingOn
  <2>2. QED
    BY <1>1, <2>1, NodeFacts DEF Slot
<1>3. ASSUME NEW p \in DOMAIN levels[side] PROVE p \in prices
  <2> DEFINE L == {s \in Slots : OnLevel(s, side, p)}
  <2>1. levels[side][p].count # 0
    BY <1>1, <1>3 DEF NothingExhausted
  <2>2. levels[side][p].count = Cardinality(L)
    BY <1>1, <1>3, LevelFacts
  <2>3. L # {}
    BY <2>1, <2>2, FS_EmptySet
  <2>4. PICK s \in Slots : OnLevel(s, side, p)
    BY <2>3
  <2>5. /\ pool[s].id \in DOMAIN order_location
        /\ order_location[pool[s].id] = s
        /\ pool[s].side = side /\ pool[s].price = p
    BY <1>1, <2>4, LocatedFacts DEF OnLevel
  <2>6. QED
    BY <2>5 DEF RestingOn, Slot
<1>4. DOMAIN levels[side] = prices
  BY <1>2, <1>3
<1>5. IsFiniteSet(RestingOn(side))
  BY <1>1, IndexFinite, FS_Subset DEF RestingOn
<1>6. g \in Surjection(RestingOn(side), prices)
  BY DEF Surjection
<1>7. IsFiniteSet(prices)
  BY <1>5, <1>6, FS_Surjection
<1>8. DOMAIN levels[side] \in SUBSET Int
  BY <1>1, PricesAssumption DEF TypeOK
<1>9. QED
  BY <1>4, <1>5, <1>7, <1>8

(* The walk from the head of a level meets all that rests there.           *)
LEMMA LevelWalked ==
  ASSUME ViewInv, pc = "idle", NEW side \in Side, NEW p \in DOMAIN levels[side],
         NEW quantities,
         \A id \in RestingOn(side) : quantities[id] = Slot(id).quantity
  PROVE  Walked(levels[side][p].head)
           = SumFunctionOnSet(quantities, RestingAt(side, p))
<1> DEFINE h == levels[side][p].head
           S == RestingAt(side, p)
           found == {order_location[id] : id \in S}
<1>1. /\ BookInv /\ TypeOK /\ SlotsAccounted /\ LevelsThreaded
  BY DEF ViewInv, BookInv
<1>2. \A id \in S : /\ id \in DOMAIN order_location
                    /\ order_location[id] \in Located
                    /\ OnLevel(order_location[id], side, p)
                    /\ pool[order_location[id]].id = id
  BY <1>1, LocatedFacts DEF RestingAt, RestingOn, Slot, OnLevel
<1>3. PICK s \in Located : OnLevel(s, side, p)
  <2>1. PICK id \in RestingOn(side) : Slot(id).price = p
    BY <1>1, PricesAtRest
  <2>2. QED
    BY <1>2, <2>1 DEF RestingAt
<1>4. OnLevel(h, side, p)
  BY <1>1, <1>3, HeadIsOldest
<1>5. h \in Located /\ pool[h].side = side /\ pool[h].price = p
  BY <1>4 DEF OnLevel
<1>6. \A t \in Located : OnLevel(t, side, p) => arrival[h] <= arrival[t]
  BY <1>1, HeadIsOldest
<1> HIDE DEF h
<1>7. Behind(h) = {t \in Located : OnLevel(t, side, p)}
  <2>1. LevelOf(h) = {t \in Located : OnLevel(t, side, p)}
    BY <1>5 DEF LevelOf
  <2>2. \A t \in Located : arrival[t] \in Nat
    BY <1>1, NodeFacts
  <2>3. \A t \in LevelOf(h) : arrival[t] >= arrival[h]
    BY <1>5, <1>6, <2>1, <2>2
  <2>4. QED
    BY <2>1, <2>3 DEF Behind
<1>8. Behind(h) = found
  <2>1. ASSUME NEW t \in Located, OnLevel(t, side, p) PROVE t \in found
    <3>1. pool[t].id \in DOMAIN order_location /\ order_location[pool[t].id] = t
      BY <1>1, LocatedFacts
    <3>2. pool[t].id \in S
      BY <2>1, <3>1 DEF RestingAt, RestingOn, Slot, OnLevel
    <3>3. QED
      BY <3>1, <3>2
  <2>2. \A t \in found : t \in Located /\ OnLevel(t, side, p)
    BY <1>2
  <2>3. QED
    BY <1>7, <2>1, <2>2
<1>9. \A id \in S : /\ QuantityAt[order_location[id]] \in Int
                    /\ quantities[id] = QuantityAt[order_location[id]]
  <2>1. \A id \in S : order_location[id] \in Slots /\ id \in RestingOn(side)
    BY <1>1, <1>2, LocatedFacts DEF RestingAt
  <2>2. \A t \in Located : QuantityAt[t] \in Int
    BY LevelFinite
  <2>3. QED
    BY <1>2, <2>1, <2>2 DEF QuantityAt, Slot
<1>10. IsFiniteSet(S)
  BY <1>1, PricesAtRest, FS_Subset DEF RestingAt
<1>11. \A i, j \in S : order_location[i] = order_location[j] => i = j
  BY <1>2
<1> HIDE DEF S
<1>12. SumFunctionOnSet(quantities, S) = SumFunctionOnSet(QuantityAt, found)
  <2> DEFINE slot == [id \in S |-> order_location[id]]
  <2>1. slot \in Bijection(S, found)
    <3>1. slot \in [S -> found] /\ DOMAIN slot = S
      OBVIOUS
    <3>2. slot \in Surjection(S, found)
      BY <3>1 DEF Surjection
    <3>3. slot \in Injection(S, found)
      BY <1>11, <3>1 DEF Injection, IsInjective
    <3>4. QED
      BY <3>2, <3>3 DEF Bijection
  <2>2. \A id \in S : /\ QuantityAt[slot[id]] \in Int
                     /\ quantities[id] = QuantityAt[slot[id]]
    BY <1>9
  <2> HIDE DEF found, slot
  <2>3. QED
    BY <1>10, <2>1, <2>2, SumRenamed
<1>13. Walked(h) = SumFunctionOnSet(QuantityAt, Behind(h))
  BY <1>5, WalkedIs
<1>14. QED
  BY <1>8, <1>12, <1>13 DEF h, S

(* The shape of a snapshot, which needs no walk.                           *)
LEMMA SnapshotShape ==
  ASSUME BookInv, pc = "idle", NEW side \in Side, NEW d \in Nat
  PROVE  LET n == Cardinality(DOMAIN levels[side])
             shown == IF d <= n THEN d ELSE n
         IN  /\ n \in Nat
             /\ Min({d, n}) = shown
             /\ Len(SideSnapshot(side, d)) = shown
             /\ DOMAIN SideSnapshot(side, d) = 1 .. shown
<1> DEFINE prices == InMapOrder(side, DOMAIN levels[side])
           n == Cardinality(DOMAIN levels[side])
           shown == IF d <= n THEN d ELSE n
           rows == SideSnapshot(side, d)
           row(i) == [price |-> prices[i],
                      quantity |-> Walked(levels[side][prices[i]].head)]
<1>1. n \in Nat /\ Len(prices) = n
  BY PricesAtRest, InMapOrderIs
<1>2. Min({d, n}) = shown
  BY <1>1, OfTwo
<1>3. rows = [i \in 1 .. Min({d, Len(prices)}) |-> row(i)]
  BY DEF SideSnapshot
<1>4. shown \in Nat
  BY <1>1
<1>5. rows = [i \in 1 .. shown |-> row(i)]
  BY <1>1, <1>2, <1>3
<1>6. DOMAIN rows = 1 .. shown
  BY <1>5
<1>7. Len(rows) = shown
  <2>1. rows \in [1 .. shown -> {row(i) : i \in 1 .. shown}]
    BY <1>5
  <2>2. QED
    BY <1>4, <2>1, FunctionIsSeq
<1>8. QED
  BY <1>1, <1>2, <1>6, <1>7

(* A row of it has the price of its place in the map and what the walk finds. *)
LEMMA RowShape ==
  ASSUME BookInv, pc = "idle", NEW side \in Side, NEW d \in Nat,
         NEW i \in DOMAIN SideSnapshot(side, d)
  PROVE  LET prices == InMapOrder(side, DOMAIN levels[side])
             row == SideSnapshot(side, d)[i]
         IN  /\ i \in 1 .. Cardinality(DOMAIN levels[side])
             /\ row.price = prices[i]
             /\ row.quantity = Walked(levels[side][prices[i]].head)
<1> DEFINE prices == InMapOrder(side, DOMAIN levels[side])
           n == Cardinality(DOMAIN levels[side])
           row == SideSnapshot(side, d)[i]
           quantity == Walked(levels[side][prices[i]].head)
<1>1. i \in 1 .. n
  <2>1. n \in Nat /\ i \in 1 .. (IF d <= n THEN d ELSE n)
    BY SnapshotShape
  <2> HIDE DEF n
  <2>2. QED
    BY <2>1
<1>2. row = [price |-> prices[i], quantity |-> quantity]
  BY DEF SideSnapshot
<1> HIDE DEF row, prices, quantity
<1>3. row.price = prices[i] /\ row.quantity = quantity
  BY <1>2
<1>4. QED
  BY <1>1, <1>3 DEF row, prices, quantity

(* A side of a snapshot shows what rests on that side.                     *)
LEMMA SideExact ==
  ASSUME ViewInv, pc = "idle", NEW side \in Side, NEW d \in Nat
  PROVE  ViewOf(side, SideSnapshot(side, d), d)
<1> DEFINE rows == SideSnapshot(side, d)
           book == DOMAIN levels[side]
           prices == InMapOrder(side, book)
           n == Cardinality(book)
           quantities == [id \in RestingOn(side) |-> Slot(id).quantity]
<1>1. BookInv
  BY DEF ViewInv
<1>2. /\ book = {Slot(id).price : id \in RestingOn(side)}
      /\ IsFiniteSet(book) /\ book \in SUBSET Int
  BY <1>1, PricesAtRest
<1>3. /\ Len(rows) = Min({d, n})
      /\ \A i \in DOMAIN rows :
           /\ i \in 1 .. n
           /\ rows[i].price = prices[i]
           /\ rows[i].quantity = Walked(levels[side][prices[i]].head)
  BY <1>1, SnapshotShape, RowShape
<1>4. /\ prices \in [1 .. n -> book]
      /\ \A i \in 1 .. n :
           Cardinality(AheadOfPrice(side, book, prices[i])) = i - 1
  <2>1. prices = InMapOrder(side, book) /\ n = Cardinality(book)
    OBVIOUS
  <2>2. IsFiniteSet(book) /\ book \in SUBSET Int
    BY <1>2
  <2> HIDE DEF prices, book, n
  <2>3. QED
    BY <2>1, <2>2, InMapOrderIs
<1> HIDE DEF rows, book, n, prices
<1>5. ASSUME NEW i \in DOMAIN rows
      PROVE  /\ rows[i].price \in book
             /\ rows[i].quantity =
                  SumFunctionOnSet(quantities, RestingAt(side, rows[i].price))
             /\ Cardinality(AheadOfPrice(side, book, rows[i].price)) = i - 1
  <2>1. /\ prices[i] \in book /\ rows[i].price = prices[i]
        /\ rows[i].quantity = Walked(levels[side][prices[i]].head)
        /\ Cardinality(AheadOfPrice(side, book, prices[i])) = i - 1
    BY <1>3, <1>4, <1>5
  <2>2. Walked(levels[side][prices[i]].head)
          = SumFunctionOnSet(quantities, RestingAt(side, prices[i]))
    BY <2>1, LevelWalked DEF book
  <2>3. QED
    BY <2>1, <2>2
<1>6. QED
  BY <1>2, <1>3, <1>5 DEF ViewOf, RestingOn, RestingAt, AheadOfPrice, rows, n

(* The first row of a snapshot has the first price of the map.             *)
LEMMA FirstRowIsBegin ==
  ASSUME BookInv, pc = "idle", NEW side \in Side
  PROVE  {p \in Prices : IsBegin(side, p)}
           = {row.price : row \in Range(SideSnapshot(side, 1))}
<1>0. PICK d \in Nat : d = 1
  OBVIOUS
<1> DEFINE rows == SideSnapshot(side, d)
           book == DOMAIN levels[side]
           prices == InMapOrder(side, book)
           n == Cardinality(book)
           first == {row.price : row \in Range(rows)}
           begin == {p \in Prices : IsBegin(side, p)}
<1>1. book \in SUBSET Int /\ IsFiniteSet(book) /\ book \subseteq Prices
  BY PricesAtRest DEF BookInv, TypeOK
<1> DEFINE shown == IF d <= n THEN d ELSE n
<1>2. /\ n \in Nat
      /\ DOMAIN rows = 1 .. shown
      /\ \A i \in 1 .. shown : rows[i].price = prices[i]
  <2>2. n \in Nat
    BY SnapshotShape
  <2>3. DOMAIN rows = 1 .. shown
    BY SnapshotShape
  <2>4. \A i \in DOMAIN rows :
           /\ i \in 1 .. n
           /\ rows[i].price = prices[i]
           /\ rows[i].quantity = Walked(levels[side][prices[i]].head)
    BY RowShape
  <2>5. QED
    BY <2>2, <2>3, <2>4
<1>3. /\ prices \in [1 .. n -> book]
      /\ InOrder(side, prices)
      /\ \A p \in book : \E i \in 1 .. n : prices[i] = p
  <2>1. prices = InMapOrder(side, book) /\ n = Cardinality(book)
    OBVIOUS
  <2>2. IsFiniteSet(book) /\ book \in SUBSET Int
    BY <1>1
  <2> HIDE DEF prices, book, n
  <2>3. QED
    BY <2>1, <2>2, InMapOrderIs
<1>4. first = {rows[i].price : i \in DOMAIN rows}
  BY DEF Range
<1> HIDE DEF rows, prices, n, first
<1>5. CASE n = 0
  <2>1. book = {} /\ DOMAIN rows = {}
    BY <1>0, <1>2, <1>3, <1>5
  <2>2. first = {} /\ begin = {}
    BY <1>4, <2>1 DEF IsBegin
  <2>3. QED
    BY <1>0, <2>2 DEF first, rows
<1>6. CASE n # 0
  <2>1. DOMAIN rows = {1} /\ 1 \in 1 .. n
    BY <1>0, <1>2, <1>6
  <2>2. first = {prices[1]}
    <3>1. rows[1].price = prices[1]
      BY <1>0, <1>2, <1>6
    <3>2. first = {rows[i].price : i \in {1}}
      BY <1>4, <2>1
    <3>3. QED
      BY <3>1, <3>2
  <2>3. prices[1] \in book
    BY <1>3, <2>1
  <2>4. \A p \in book \ {prices[1]} : Better(side, prices[1], p)
    <3>1. ASSUME NEW p \in book \ {prices[1]} PROVE Better(side, prices[1], p)
      <4>1. PICK i \in 1 .. n : prices[i] = p
        BY <1>3
      <4>2. i # 1 /\ DOMAIN prices = 1 .. n
        BY <1>3, <4>1
      <4>3. 1 < i
        BY <1>2, <4>2
      <4>4. QED
        BY <1>3, <2>1, <4>1, <4>2, <4>3 DEF InOrder
    <3>2. QED
      BY <3>1
  <2>5. IsBegin(side, prices[1])
    BY <2>3, <2>4 DEF IsBegin
  <2>6. ASSUME NEW p, IsBegin(side, p) PROVE p = prices[1]
    <3>1. SUFFICES ASSUME p # prices[1] PROVE FALSE
      OBVIOUS
    <3>2. p \in book /\ p \in Int /\ prices[1] \in Int
      BY <1>1, <2>3, <2>6 DEF IsBegin
    <3>3. Better(side, p, prices[1]) /\ Better(side, prices[1], p)
      BY <2>3, <2>4, <2>6, <3>1, <3>2 DEF IsBegin
    <3>4. QED
      BY <3>2, <3>3 DEF Better
  <2>7. begin = {prices[1]}
    BY <1>1, <2>3, <2>5, <2>6
  <2>8. QED
    BY <1>0, <2>2, <2>7 DEF first, rows
<1>7. QED
  BY <1>5, <1>6

----------------------------------------------------------------------------
(* Between two calls a snapshot of any depth shows, side by side, the first *)
(* prices of the book in order and under each the sum of the quantities that *)
(* rest there; the best prices are those of its first rows and order_count *)
(* is the number of orders linked into lists.                              *)
THEOREM SnapshotsAreExact == Spec => []SnapshotExact
<1>1. ViewInv => SnapshotExact
  <2>1. SUFFICES ASSUME ViewInv, pc = "idle" PROVE
          /\ \A depth \in 0 .. Cardinality(Prices) + 1 :
               /\ ViewOf("Buy", snapshot(depth).bids, depth)
               /\ ViewOf("Sell", snapshot(depth).asks, depth)
          /\ best_bid = {row.price : row \in Range(snapshot(1).bids)}
          /\ best_ask = {row.price : row \in Range(snapshot(1).asks)}
          /\ order_count = Cardinality(Located)
    BY DEF SnapshotExact
  <2>2. BookInv /\ TypeOK /\ SlotsAccounted
    BY <2>1 DEF ViewInv, BookInv
  <2>3. "Buy" \in Side /\ "Sell" \in Side
    BY DEF Side
  <2>4. \A d : /\ snapshot(d).bids = SideSnapshot("Buy", d)
               /\ snapshot(d).asks = SideSnapshot("Sell", d)
    BY DEF snapshot
  <2>5. \A d \in 0 .. Cardinality(Prices) + 1 : d \in Nat
    OBVIOUS
  <2>6. \A d \in 0 .. Cardinality(Prices) + 1 :
          /\ ViewOf("Buy", snapshot(d).bids, d)
          /\ ViewOf("Sell", snapshot(d).asks, d)
    BY <2>1, <2>3, <2>4, <2>5, SideExact
  <2>7. /\ best_bid = {row.price : row \in Range(snapshot(1).bids)}
        /\ best_ask = {row.price : row \in Range(snapshot(1).asks)}
    BY <2>1, <2>2, <2>3, <2>4, FirstRowIsBegin DEF best_bid, best_ask
  <2>8. order_count = Cardinality(Located)
    BY <2>2, IndexFinite DEF order_count
  <2>9. QED
    BY <2>6, <2>7, <2>8
<1>2. QED
  BY <1>1, ViewInvInit, ViewInvNext, PTL DEF Spec
=============================================================================
