---------------------------- MODULE LedgerProofs ----------------------------
(***************************************************************************)
(* Theorems about OrderBookLedger and CsvReplay, for all ids, prices,      *)
(* quantities and call sequences: what went into a book, came out of it    *)
(* and rests in it adds up, to its callers and in the summary of a replay. *)
(***************************************************************************)
EXTENDS OrderBookLedger, CsvReplay, OrderBookProofs

----------------------------------------------------------------------------
(* Between two calls nothing of the last one is left, so that a call starts*)
(* the sums anew.                                                          *)

LocalsGone == pc = "idle" => remaining = 0 /\ trades = <<>>

FlowInv == BookInv /\ LocalsGone

LEMMA FlowInit == Init => FlowInv
BY InvInit DEF Init, FlowInv, LocalsGone

LEMMA FlowNext == FlowInv /\ [Next]_vars => FlowInv'
<1> SUFFICES ASSUME FlowInv, [Next]_vars PROVE LocalsGone'
  BY InvNext DEF FlowInv
<1>1. CASE UNCHANGED callVars
  BY <1>1 DEF FlowInv, LocalsGone, callVars
<1>2. CASE pc' # "idle"
  BY <1>2 DEF LocalsGone
<1>3. CASE ReturnFilled \/ RestRemainder
  BY <1>3 DEF LocalsGone, ReturnFilled, RestRemainder
<1>4. MatchLevel \/ FillPart \/ FillWhole \/ EndLevel => pc' # "idle"
  BY DEF MatchLevel, FillPart, FillWhole, EndLevel
<1>5. ASSUME NEW o \in Order, AddOrder(o) \/ RejectOrder(o)
      PROVE  pc' # "idle" \/ UNCHANGED callVars
  BY <1>5 DEF AddOrder, RejectOrder, vars
<1>6. ASSUME NEW id \in Ids, NEW quantity \in Quantities,
             \/ CancelOrder(id) \/ CancelMissing(id)
             \/ ReduceOrder(id, quantity) \/ ReduceToNothing(id, quantity)
             \/ ReduceRefused(id, quantity)
      PROVE  UNCHANGED callVars
  BY <1>6 DEF CancelOrder, CancelMissing, ReduceOrder, ReduceToNothing,
     ReduceRefused, RemoveOrder, vars
<1>7. ASSUME NEW id \in Ids, CancelOrder(id) \/ CancelMissing(id)
      PROVE  UNCHANGED callVars
  BY <1>7 DEF CancelOrder, CancelMissing, RemoveOrder, vars
<1>8. UNCHANGED vars => UNCHANGED callVars
  BY DEF vars
<1>9. QED
  BY <1>1, <1>2, <1>3, <1>4, <1>5, <1>6, <1>7, <1>8 DEF Next, CallStep

(* The types of the sums.                                                  *)
LEMMA FlowTypes ==
  ASSUME FlowInv
  PROVE  /\ RestingQuantity \in Int /\ remaining \in Int
         /\ trades \in Seq(Trade) /\ TradedIn(trades) \in Int
         /\ TypeOK /\ SlotsAccounted
BY RestingIsSum, TradedInType DEF FlowInv, BookInv, TypeOK

----------------------------------------------------------------------------
(* Where quantity goes, by step.                                           *)

(* It comes from the caller ...                                            *)
LEMMA AddOrderFlow ==
  ASSUME FlowInv, NEW o \in Order, AddOrder(o)
  PROVE  /\ RestingQuantity' + remaining'
              = RestingQuantity + remaining + o.quantity
         /\ TradedIn(trades') = TradedIn(trades)
<1>1. RestingQuantity' = RestingQuantity
  BY SameResting DEF AddOrder, bookVars
<1>2. o.quantity \in Int
  BY QuantitiesAssumption DEF Order
<1>3. /\ remaining = 0 /\ remaining' = o.quantity
      /\ trades = <<>> /\ trades' = <<>>
  BY DEF FlowInv, LocalsGone, AddOrder
<1>4. QED
  BY <1>1, <1>2, <1>3, FlowTypes

(* ... a trade takes as much from the incoming order as from a resting one,*)
LEMMA FillFlow ==
  ASSUME FlowInv, FillPart \/ FillWhole
  PROVE  LET quantity == Last(trades').quantity
         IN  /\ quantity \in Int
             /\ RestingQuantity' = RestingQuantity - quantity
             /\ remaining' = remaining - quantity
             /\ TradedIn(trades') = TradedIn(trades) + quantity
<1>1. /\ pc = "fill" /\ current # kInvalid /\ BookInv
      /\ pool[current] \in OrderNode /\ order \in Order
  BY CursorTypes DEF FillPart, FillWhole, FlowInv, BookInv
<1>2. ASSUME NEW quantity \in Int,
             trades' = Append(trades, TradeWith(pool[current], quantity))
      PROVE  /\ Last(trades').quantity = quantity
             /\ TradedIn(trades') = TradedIn(trades) + quantity
  <2> DEFINE trade == TradeWith(pool[current], quantity)
  <2>1. trade \in Trade /\ trade.quantity = quantity
    BY <1>1 DEF TradeWith, Trade, OrderNode, Order
  <2> HIDE DEF trade
  <2>2. trades' = Append(trades, trade)
    BY <1>2 DEF trade
  <2>3. Last(trades') = trade
    BY <2>1, <2>2, FlowTypes, AppendProperties DEF Last
  <2>4. QED
    BY <2>1, <2>2, <2>3, FlowTypes, TradedInOneMore
<1>3. CASE FillPart
  <2>1. /\ trades' = Append(trades, TradeWith(pool[current], remaining))
        /\ remaining' = 0
    BY <1>3 DEF FillPart
  <2>2. /\ Last(trades').quantity = remaining
        /\ TradedIn(trades') = TradedIn(trades) + remaining
    BY <1>2, <2>1, FlowTypes
  <2>3. RestingQuantity' = RestingQuantity - remaining
    BY <1>1, <1>3, FillPartResting
  <2>4. QED
    BY <2>1, <2>2, <2>3, FlowTypes
<1>4. CASE FillWhole
  <2> DEFINE quantity == pool[current].quantity
  <2>1. /\ trades' = Append(trades, TradeWith(pool[current], quantity))
        /\ remaining' = remaining - quantity
        /\ quantity \in Int
    BY <1>1, <1>4 DEF FillWhole, OrderNode
  <2>2. /\ Last(trades').quantity = quantity
        /\ TradedIn(trades') = TradedIn(trades) + quantity
    BY <1>2, <2>1
  <2>3. RestingQuantity' = RestingQuantity - quantity
    BY <1>1, <1>4, FillWholeResting
  <2>4. QED
    BY <2>1, <2>2, <2>3
<1>5. QED
  BY <1>3, <1>4

(* ... what is left of the incoming order comes to rest,                   *)
LEMMA RestFlow ==
  ASSUME FlowInv, RestRemainder
  PROVE  /\ RestingQuantity' + remaining' = RestingQuantity + remaining
         /\ remaining' = 0 /\ trades' = <<>>
<1>1. RestingQuantity' = RestingQuantity + remaining
  BY RestingArrived DEF FlowInv
<1>2. remaining' = 0 /\ trades' = <<>>
  BY DEF RestRemainder
<1>3. QED
  BY <1>1, <1>2, FlowTypes

(* ... and the caller may take it out again.                               *)
LEMMA CancelFlow ==
  ASSUME FlowInv, NEW id \in Ids, CancelOrder(id)
  PROVE  /\ Slot(id).quantity \in Int
         /\ RestingQuantity' = RestingQuantity - Slot(id).quantity
         /\ remaining' = remaining /\ trades' = trades
<1>1. id \in DOMAIN order_location /\ RemoveOrder(id)
  BY DEF CancelOrder, CanCancel
<1>2. Slot(id).quantity \in Int
  BY <1>1, FlowTypes, LocatedFacts DEF Slot, OrderNode
<1>3. RestingQuantity' = RestingQuantity - Slot(id).quantity
  BY RemoveOrderResting DEF FlowInv, CancelOrder
<1>4. QED
  BY <1>1, <1>2, <1>3 DEF RemoveOrder, callVars

LEMMA ReduceFlow ==
  ASSUME FlowInv, NEW id \in Ids, NEW quantity \in Quantities,
         ReduceOrder(id, quantity) \/ ReduceToNothing(id, quantity)
  PROVE  /\ quantity \in Int
         /\ RestingQuantity' = RestingQuantity - quantity
         /\ remaining' = remaining /\ trades' = trades
<1>1. quantity \in Int
  BY QuantitiesAssumption
<1>2. CASE ReduceOrder(id, quantity)
  <2>1. RestingQuantity' = RestingQuantity - quantity
    BY <1>2, ReduceOrderResting DEF FlowInv
  <2>2. QED
    BY <1>1, <1>2, <2>1 DEF ReduceOrder, callVars
<1>3. CASE ReduceToNothing(id, quantity)
  <2>1. /\ pc = "idle" /\ CanCancel(id) /\ RemoveOrder(id)
        /\ ReduceResult(id, quantity) = "Removed"
    BY <1>3 DEF ReduceToNothing
  <2>2. quantity = Slot(id).quantity
    BY <1>1, <2>1 DEF ReduceResult
  <2>3. RestingQuantity' = RestingQuantity - Slot(id).quantity
    BY <2>1, RemoveOrderResting DEF FlowInv
  <2>4. QED
    BY <1>1, <2>1, <2>2, <2>3 DEF RemoveOrder, callVars
<1>4. QED
  BY <1>2, <1>3

(* The other steps of a call move nothing.                                 *)
LEMMA NoFlow ==
  ASSUME FlowInv, MatchLevel \/ EndLevel \/ ReturnFilled \/ UNCHANGED vars
  PROVE  /\ RestingQuantity' = RestingQuantity
         /\ remaining' = remaining
         /\ ReturnFilled \/ trades' = trades
<1>1. order_location' = order_location /\ pool' = pool
  BY DEF MatchLevel, EndLevel, ReturnFilled, vars, bookVars
<1>2. QED
  BY <1>1, SameResting DEF MatchLevel, EndLevel, ReturnFilled, vars, callVars

----------------------------------------------------------------------------
(* The ledger.                                                             *)

LEMMA LedgerIsBook == [LedgerNext]_<<vars, ledger>> => [Next]_vars
BY DEF LedgerNext, Accepting, Trading, Resting, Withdrawing, Other, Next,
       CallStep

QuantityInv ==
  /\ FlowInv
  /\ accepted \in Int /\ traded \in Int /\ withdrawn \in Int
  /\ QuantityConserved

LEMMA AcceptingConserves ==
  ASSUME QuantityInv, Accepting
  PROVE  /\ accepted' \in Int /\ traded' \in Int /\ withdrawn' \in Int
         /\ QuantityConserved'
<1>1. PICK o \in Order : AddOrder(o) /\ accepted' = accepted + o.quantity
  BY DEF Accepting
<1>2. /\ RestingQuantity' + remaining'
            = RestingQuantity + remaining + o.quantity
      /\ RestingQuantity' \in Int /\ remaining' \in Int
  BY <1>1, AddOrderFlow, SameResting, FlowTypes, QuantitiesAssumption
     DEF QuantityInv, AddOrder, bookVars, Order
<1>3. o.quantity \in Int /\ traded' = traded /\ withdrawn' = withdrawn
  BY QuantitiesAssumption DEF Order, Accepting
<1>4. /\ accepted \in Int /\ traded \in Int /\ withdrawn \in Int
      /\ accepted = 2 * traded + withdrawn + RestingQuantity + remaining
      /\ RestingQuantity \in Int /\ remaining \in Int
  BY FlowTypes DEF QuantityInv, QuantityConserved
<1>5. accepted' = 2 * traded + withdrawn + RestingQuantity' + remaining'
  BY <1>1, <1>2, <1>3, <1>4
<1>6. QED
  BY <1>1, <1>3, <1>4, <1>5 DEF QuantityConserved

LEMMA TradingConserves ==
  ASSUME QuantityInv, Trading
  PROVE  /\ accepted' \in Int /\ traded' \in Int /\ withdrawn' \in Int
         /\ QuantityConserved'
<1> DEFINE quantity == Last(trades').quantity
<1>1. /\ quantity \in Int
      /\ RestingQuantity' = RestingQuantity - quantity
      /\ remaining' = remaining - quantity
  BY FillFlow DEF QuantityInv, Trading
<1>2. /\ traded' = traded + quantity
      /\ accepted' = accepted /\ withdrawn' = withdrawn
  BY DEF Trading
<1> HIDE DEF quantity
<1>3. /\ accepted \in Int /\ traded \in Int /\ withdrawn \in Int
      /\ accepted = 2 * traded + withdrawn + RestingQuantity + remaining
      /\ RestingQuantity \in Int /\ remaining \in Int
  BY FlowTypes DEF QuantityInv, QuantityConserved
<1>4. accepted' = 2 * traded' + withdrawn' + RestingQuantity' + remaining'
  BY <1>1, <1>2, <1>3
<1>5. QED
  BY <1>1, <1>2, <1>3, <1>4 DEF QuantityConserved

LEMMA RestingConserves ==
  ASSUME QuantityInv, Resting
  PROVE  /\ accepted' \in Int /\ traded' \in Int /\ withdrawn' \in Int
         /\ QuantityConserved'
<1>1. /\ RestingQuantity' = RestingQuantity + remaining
      /\ remaining' = 0
  BY RestingArrived DEF QuantityInv, FlowInv, Resting, RestRemainder
<1>2. /\ traded' = traded /\ accepted' = accepted /\ withdrawn' = withdrawn
  BY DEF Resting
<1>3. QED
  BY <1>1, <1>2, FlowTypes DEF QuantityInv, QuantityConserved

LEMMA WithdrawingConserves ==
  ASSUME QuantityInv, Withdrawing
  PROVE  /\ accepted' \in Int /\ traded' \in Int /\ withdrawn' \in Int
         /\ QuantityConserved'
<1>1. PICK quantity \in Int :
        /\ withdrawn' = withdrawn + quantity
        /\ RestingQuantity' = RestingQuantity - quantity
        /\ remaining' = remaining
  BY CancelFlow, ReduceFlow DEF QuantityInv, Withdrawing
<1>2. traded' = traded /\ accepted' = accepted
  BY DEF Withdrawing
<1>3. QED
  BY <1>1, <1>2, FlowTypes DEF QuantityInv, QuantityConserved

LEMMA OtherConserves ==
  ASSUME QuantityInv, Other \/ UNCHANGED <<vars, ledger>>
  PROVE  /\ accepted' \in Int /\ traded' \in Int /\ withdrawn' \in Int
         /\ QuantityConserved'
<1>1. RestingQuantity' = RestingQuantity /\ remaining' = remaining
  BY NoFlow DEF QuantityInv, Other, RejectOrder, CancelMissing, ReduceRefused
<1>2. /\ traded' = traded /\ accepted' = accepted /\ withdrawn' = withdrawn
  BY DEF Other, ledger
<1>3. QED
  BY <1>1, <1>2 DEF QuantityInv, QuantityConserved

LEMMA QuantityNext == QuantityInv /\ [LedgerNext]_<<vars, ledger>> => QuantityInv'
<1> SUFFICES ASSUME QuantityInv, [LedgerNext]_<<vars, ledger>>
             PROVE  QuantityInv'
  OBVIOUS
<1>1. FlowInv'
  BY LedgerIsBook, FlowNext DEF QuantityInv
<1>2. QED
  BY <1>1, AcceptingConserves, TradingConserves, RestingConserves,
     WithdrawingConserves, OtherConserves DEF LedgerNext, QuantityInv

LEMMA NothingRests == Init => RestingQuantity = 0
<1> SUFFICES ASSUME Init PROVE RestingQuantity = 0
  OBVIOUS
<1> DEFINE f == [id \in DOMAIN order_location |-> Slot(id).quantity]
<1>1. DOMAIN f = {}
  BY DEF Init, EmptyMap
<1>2. SumFunctionOnSet(f, {}) = 0
  BY SumOfNone
<1>3. QED
  BY <1>1, <1>2 DEF RestingQuantity, SumFunction

(* Whatever the calls, all quantity that was ever accepted has traded, was *)
(* withdrawn, rests in the book or is being matched.                       *)
THEOREM NoQuantityLost == LedgerSpec => []QuantityConserved
<1>1. LedgerInit => QuantityInv
  BY FlowInit, NothingRests
     DEF LedgerInit, Init, QuantityInv, QuantityConserved
<1>2. QuantityInv => QuantityConserved
  BY DEF QuantityInv
<1>3. QED
  BY <1>1, <1>2, QuantityNext, PTL DEF LedgerSpec

----------------------------------------------------------------------------
(* The pool.                                                               *)

LEMMA LargerOfTwo ==
  ASSUME NEW a \in Int, NEW b \in Int
  PROVE  Max({a, b}) = IF a <= b THEN b ELSE a
<1> DEFINE most == IF a <= b THEN b ELSE a
<1>1. most \in {a, b} /\ \A y \in {a, b} : most >= y
  OBVIOUS
<1>2. \A x \in {a, b} : (\A y \in {a, b} : x >= y) => x = most
  OBVIOUS
<1> HIDE DEF most
<1>3. Max({a, b}) = most
  BY <1>1, <1>2 DEF Max
<1>4. QED
  BY <1>3 DEF most

LEMMA UpToCount ==
  ASSUME NEW n \in Nat
  PROVE  IsFiniteSet(1 .. n) /\ Cardinality(1 .. n) = n
<1>1. /\ IsFiniteSet(1 .. n)
      /\ Cardinality(1 .. n) = IF 1 > n THEN 0 ELSE n - 1 + 1
  BY FS_Interval
<1>2. n = IF 1 > n THEN 0 ELSE n - 1 + 1
  OBVIOUS
<1>3. QED
  BY <1>1, <1>2

LEMMA SlotCount ==
  ASSUME TypeOK
  PROVE  IsFiniteSet(Slots) /\ Cardinality(Slots) = Len(pool)
<1>1. Len(pool) \in Nat
  BY PoolFacts
<1>2. IsFiniteSet(1 .. Len(pool)) /\ Cardinality(1 .. Len(pool)) = Len(pool)
  BY <1>1, UpToCount
<1>3. QED
  BY <1>2 DEF Slots

LEMMA SlotCountNext ==
  ASSUME TypeOK'
  PROVE  Len(pool') = Cardinality(Slots')
<1>1. Len(pool') \in Nat
  BY LenProperties DEF TypeOK
<1>2. Cardinality(1 .. Len(pool')) = Len(pool')
  BY <1>1, UpToCount
<1>3. QED
  BY <1>2 DEF Slots

(* peak is a history variable, and PoolIsHighWaterMark its definition.     *)
PoolInv == BookInv /\ PoolIsHighWaterMark

(* A new slot is made only when every other one is in use.                 *)
LEMMA RestingKeepsMark ==
  ASSUME PoolInv, Resting
  PROVE  PoolIsHighWaterMark'
<1> DEFINE i == AllocatedSlot
           n == Cardinality(DOMAIN order_location)
<1>1. BookInv /\ TypeOK /\ SlotsAccounted /\ TypeOK' /\ RestRemainder
  BY InvNext DEF PoolInv, BookInv, Resting, Next, CallStep
<1>2. /\ order.id \notin DOMAIN order_location
      /\ DOMAIN order_location' = DOMAIN order_location \cup {order.id}
      /\ IsFiniteSet(DOMAIN order_location)
      /\ IsFiniteSet(Located) /\ Cardinality(Located) = n /\ n \in Nat
  BY <1>1, RestingArrived, IndexFinite, FS_CardinalityType
<1>3. Cardinality(DOMAIN order_location') = n + 1
  BY <1>2, FS_AddElement
<1>4. /\ i \notin Located /\ Slots' = Slots \cup {i} /\ Located \subseteq Slots
      /\ IsFiniteSet(Slots) /\ Cardinality(Slots) = Len(pool)
      /\ Len(pool) \in Nat /\ Len(pool') = Cardinality(Slots')
  BY <1>1, <1>2, RestAccounted, LocatedFacts, SlotCount, SlotCountNext, PoolFacts
<1>5. CASE free_slots = <<>>
  <2>1. Located = Slots
    <3>1. Range(free_slots) = {}
      BY <1>5, EmptySeq, LenProperties DEF Range
    <3>2. QED
      BY <1>1, <1>4, <3>1 DEF SlotsAccounted
  <2>2. i \notin Slots
    BY <1>4, <2>1
  <2>3. Len(pool') = Len(pool) + 1
    BY <1>4, <2>2, FS_AddElement
  <2>4. n = Len(pool)
    BY <1>2, <1>4, <2>1
  <2>5. peak = n /\ peak' = Max({peak, n + 1})
    BY <1>3, <2>4 DEF Resting, PoolInv, PoolIsHighWaterMark
  <2>6. Max({n, n + 1}) = n + 1
    BY <1>2, LargerOfTwo
  <2>7. QED
    BY <2>3, <2>4, <2>5, <2>6 DEF PoolIsHighWaterMark
<1>6. CASE free_slots # <<>>
  <2>1. i \in Slots
    BY <1>1, <1>6, AllocatedSlotType
  <2>2. Slots' = Slots /\ Len(pool') = Len(pool)
    BY <1>4, <2>1
  <2>3. n + 1 <= Len(pool)
    <3>1. IsFiniteSet(Slots \ {i}) /\ Cardinality(Slots \ {i}) = Len(pool) - 1
      BY <1>4, <2>1, FS_RemoveElement
    <3>2. Located \subseteq Slots \ {i}
      BY <1>4
    <3>3. QED
      BY <1>2, <3>1, <3>2, FS_Subset
  <2>4. peak = Len(pool) /\ peak' = Max({peak, n + 1})
    BY <1>3 DEF Resting, PoolInv, PoolIsHighWaterMark
  <2>5. Max({Len(pool), n + 1}) = Len(pool)
    BY <1>2, <1>4, <2>3, LargerOfTwo
  <2>6. QED
    BY <2>2, <2>4, <2>5 DEF PoolIsHighWaterMark
<1>7. QED
  BY <1>5, <1>6

LEMMA SlotsStay ==
  ASSUME BookInv, [Next]_vars, ~RestRemainder
  PROVE  Slots' = Slots
<1>1. TypeOK /\ SlotsAccounted
  BY DEF BookInv
<1>2. CASE FillPart
  BY <1>1, <1>2, FillPartSameLists DEF SameLists
<1>3. CASE FillWhole
  BY <1>3, FillWholeUnlinks DEF Unlinks
<1>4. ASSUME NEW id \in Ids, CanCancel(id), RemoveOrder(id)
      PROVE  Slots' = Slots
  BY <1>4, RemoveOrderUnlinks DEF Unlinks
<1>5. ASSUME NEW id \in Ids, NEW quantity \in Quantities,
             ReduceOrder(id, quantity)
      PROVE  Slots' = Slots
  BY <1>1, <1>5, ReduceOrderSameLists DEF SameLists
<1>6. CASE pool' = pool
  BY <1>6 DEF Slots
<1>7. ASSUME NEW o \in Order, AddOrder(o) \/ RejectOrder(o)
      PROVE  pool' = pool
  BY <1>7 DEF AddOrder, RejectOrder, vars, bookVars
<1>8. MatchLevel \/ EndLevel \/ ReturnFilled \/ UNCHANGED vars => pool' = pool
  BY DEF MatchLevel, EndLevel, ReturnFilled, vars, bookVars
<1>9. QED
  BY <1>2, <1>3, <1>4, <1>5, <1>6, <1>7, <1>8
     DEF Next, CallStep, CancelOrder, CancelMissing, ReduceToNothing,
         ReduceRefused

LEMMA PoolNext == PoolInv /\ [LedgerNext]_<<vars, ledger>> => PoolInv'
<1> SUFFICES ASSUME PoolInv, [LedgerNext]_<<vars, ledger>>
             PROVE  PoolIsHighWaterMark'
  BY LedgerIsBook, InvNext DEF PoolInv
<1>1. CASE Resting
  BY <1>1, RestingKeepsMark
<1>2. CASE RestRemainder
  BY <1>2, <1>1 DEF LedgerNext, Accepting, Trading, Withdrawing, Other,
     RestRemainder, AddOrder, FillPart, FillWhole, MatchLevel, EndLevel,
     ReturnFilled, CancelOrder, ReduceOrder, ReduceToNothing, RejectOrder,
     CancelMissing, ReduceRefused, vars, callVars
<1>3. CASE ~Resting /\ ~RestRemainder
  <2>1. [Next]_vars /\ BookInv
    BY LedgerIsBook DEF PoolInv
  <2>2. Slots' = Slots /\ TypeOK /\ TypeOK'
    BY <1>3, <2>1, SlotsStay, InvNext DEF BookInv
  <2>3. Len(pool') = Len(pool)
    BY <2>2, SlotCount, SlotCountNext
  <2>4. peak' = peak
    BY <1>3 DEF LedgerNext, Accepting, Trading, Withdrawing, Other, ledger
  <2>5. QED
    BY <2>3, <2>4 DEF PoolInv, PoolIsHighWaterMark
<1>4. QED
  BY <1>1, <1>2, <1>3

(* The pool is as long as the book was ever full, whatever the calls.      *)
THEOREM PoolNeverOutgrows == LedgerSpec => []PoolIsHighWaterMark
<1>1. LedgerInit => PoolInv
  BY InvInit, EmptySeq, LenProperties
     DEF LedgerInit, Init, PoolInv, PoolIsHighWaterMark
<1>2. PoolInv => PoolIsHighWaterMark
  BY DEF PoolInv
<1>3. QED
  BY <1>1, <1>2, PoolNext, PTL DEF LedgerSpec

----------------------------------------------------------------------------
(* The summary of replay_market_data.                                      *)

LEMMA ReplayIsBook == [ReplayNext]_<<vars, replayVars>> => [Next]_vars
<1>1. ASSUME NEW o \in Order, Add(o) \/ Cancel(o)
      PROVE  Next
  BY <1>1 DEF Add, Cancel, Next, Order
<1>2. AddMatches \/ AddReturns => Next
  BY DEF AddMatches, AddReturns, Next, CallStep
<1>3. QED
  BY <1>1, <1>2 DEF ReplayNext, Throw, Return

Counters == {"events_processed", "add_events", "cancel_events",
             "successful_cancels", "trades_generated", "total_traded_quantity"}

TotalsInv ==
  /\ FlowInv
  /\ submitted \in Int /\ cancelled \in Int
  /\ summary \in [Counters -> Int]
  /\ TotalsAgree

LEMMA EmptySummaryType ==
  /\ EmptySummary \in [Counters -> Int]
  /\ EmptySummary.events_processed = 0 /\ EmptySummary.add_events = 0
  /\ EmptySummary.cancel_events = 0
  /\ EmptySummary.total_traded_quantity = 0
BY DEF EmptySummary, Counters

(* What the summary gains when add_order returns.                          *)
LEMMA AddedGains ==
  ASSUME TotalsInv
  PROVE  /\ Added \in [Counters -> Int]
         /\ Added.events_processed = summary.events_processed
         /\ Added.add_events = summary.add_events + 1
         /\ Added.cancel_events = summary.cancel_events
         /\ Added.total_traded_quantity
              = summary.total_traded_quantity + TradedIn(trades)
<1>1. TradedIn(trades) \in Int /\ Len(trades) \in Int
  BY FlowTypes, LenProperties DEF TotalsInv
<1>2. summary \in [Counters -> Int]
  BY DEF TotalsInv
<1> DEFINE made == TradedIn(trades)
           n == Len(trades)
<1>3. Added = [summary EXCEPT !.add_events = @ + 1,
                              !.trades_generated = @ + n,
                              !.total_traded_quantity = @ + made]
  BY DEF Added
<1>4. made \in Int /\ n \in Int
  BY <1>1
<1> DEFINE t == [summary EXCEPT !.add_events = @ + 1]
           u == [t EXCEPT !.trades_generated = @ + n]
<1> HIDE DEF made, n
<1>5. Added = [u EXCEPT !.total_traded_quantity = @ + made]
  BY <1>3
<1>6. /\ t \in [Counters -> Int]
      /\ t.add_events = summary.add_events + 1
      /\ \A c \in Counters : c # "add_events" => t[c] = summary[c]
  BY <1>2 DEF Counters
<1> HIDE DEF t
<1>7. /\ u \in [Counters -> Int]
      /\ \A c \in Counters : c # "trades_generated" => u[c] = t[c]
  BY <1>4, <1>6 DEF Counters
<1> HIDE DEF u
<1>8. /\ Added \in [Counters -> Int]
      /\ Added.events_processed = summary.events_processed
      /\ Added.add_events = summary.add_events + 1
      /\ Added.cancel_events = summary.cancel_events
      /\ Added.total_traded_quantity = summary.total_traded_quantity + made
  BY <1>4, <1>5, <1>6, <1>7 DEF Counters
<1>9. QED
  BY <1>8 DEF made

(* A line is counted, and the totals stay.                                 *)
LEMMA LineCounted ==
  ASSUME NEW t \in [Counters -> Int]
  PROVE  LET u == [t EXCEPT !.events_processed = @ + 1]
         IN  /\ u \in [Counters -> Int]
             /\ u.events_processed = t.events_processed + 1
             /\ u.add_events = t.add_events
             /\ u.cancel_events = t.cancel_events
             /\ u.total_traded_quantity = t.total_traded_quantity
BY DEF Counters

(* A step puts gain into the book, takes left out of it and trades made;   *)
(* and it counts so many lines, submissions and cancellations.             *)
Total == summary.total_traded_quantity + TradedIn(trades)
Running == IF pc = "idle" THEN 0 ELSE 1

Moves(gain, left, made) ==
  /\ submitted' = submitted + gain
  /\ cancelled' = cancelled + left
  /\ RestingQuantity' \in Int
  /\ RestingQuantity' + remaining'
       = RestingQuantity + remaining + gain - left - 2 * made
  /\ Total' = Total + made

Counts(lines, adds, cancels) ==
  /\ summary' \in [Counters -> Int]
  /\ summary'.events_processed = summary.events_processed + lines
  /\ summary'.add_events = summary.add_events + adds
  /\ summary'.cancel_events = summary.cancel_events + cancels
  /\ lines + Running = adds + cancels + Running'

LEMMA TotalsKept ==
  ASSUME TotalsInv, FlowInv',
         NEW gain \in Int, NEW left \in Int, NEW made \in Int,
         Moves(gain, left, made),
         NEW lines \in Int, NEW adds \in Int, NEW cancels \in Int,
         Counts(lines, adds, cancels),
         status' = "thrown" <=> status = "thrown"
  PROVE  TotalsInv'
<1>1. /\ RestingQuantity \in Int /\ remaining \in Int /\ Total \in Int
      /\ submitted \in Int /\ cancelled \in Int
  BY FlowTypes DEF TotalsInv, Counters, Total
<1>2. /\ summary.events_processed \in Int /\ summary.add_events \in Int
      /\ summary.cancel_events \in Int
      /\ Running \in Int /\ Running' \in Int
  BY DEF TotalsInv, Counters, Running
<1>3. RestingQuantity' \in Int /\ remaining' \in Int
  BY DEF FlowInv, BookInv, TypeOK, Moves
<1>4. submitted' \in Int /\ cancelled' \in Int
  BY <1>1 DEF Moves
<1>5. ASSUME status # "thrown"
      PROVE  submitted' = 2 * Total' + cancelled' + RestingQuantity' + remaining'
  <2>1. submitted = 2 * Total + cancelled + RestingQuantity + remaining
    BY <1>5 DEF TotalsInv, TotalsAgree, Total
  <2>2. /\ submitted' = submitted + gain /\ cancelled' = cancelled + left
        /\ Total' = Total + made
        /\ RestingQuantity' + remaining'
             = RestingQuantity + remaining + gain - left - 2 * made
    BY DEF Moves
  <2>3. Total' \in Int /\ cancelled' \in Int /\ 2 * made \in Int
        /\ 2 * Total' = 2 * Total + 2 * made
    BY <1>1, <2>2
  <2>4. (2 * Total' + cancelled') + (RestingQuantity' + remaining')
          = (2 * Total + 2 * made + cancelled + left)
              + (RestingQuantity + remaining + gain - left - 2 * made)
    BY <1>1, <2>2, <2>3
  <2>5. (2 * Total + 2 * made + cancelled + left)
          + (RestingQuantity + remaining + gain - left - 2 * made)
            = submitted'
    BY <1>1, <2>1, <2>2
  <2>6. (2 * Total' + cancelled') + (RestingQuantity' + remaining')
          = 2 * Total' + cancelled' + RestingQuantity' + remaining'
    BY <1>3, <2>3
  <2>7. QED
    BY <2>4, <2>5, <2>6
<1>6. ASSUME status # "thrown"
      PROVE  summary'.events_processed
               = summary'.add_events + summary'.cancel_events + Running'
  <2>1. summary.events_processed
          = summary.add_events + summary.cancel_events + Running
    BY <1>6 DEF TotalsInv, TotalsAgree, Running
  <2>2. /\ summary'.events_processed = summary.events_processed + lines
        /\ summary'.add_events = summary.add_events + adds
        /\ summary'.cancel_events = summary.cancel_events + cancels
        /\ lines + Running = adds + cancels + Running'
    BY DEF Counts
  <2>3. summary'.events_processed =
          (summary.add_events + summary.cancel_events) + (lines + Running)
    BY <1>2, <2>1, <2>2
  <2>4. summary'.add_events + summary'.cancel_events + Running' =
          (summary.add_events + summary.cancel_events)
            + (adds + cancels + Running')
    BY <1>2, <2>2
  <2>5. QED
    BY <2>2, <2>3, <2>4
<1>7. TotalsAgree'
  BY <1>5, <1>6 DEF TotalsAgree, Total, Running
<1>8. QED
  BY <1>4, <1>7 DEF TotalsInv, Counts

LEMMA SubmitTotals ==
  ASSUME TotalsInv, FlowInv', NEW o \in Order, Add(o), AddOrder(o)
  PROVE  TotalsInv'
<1>1. FlowInv /\ summary \in [Counters -> Int] /\ o.quantity \in Int
  BY QuantitiesAssumption DEF TotalsInv, Order
<1>2. /\ pc = "idle" /\ pc' = "match" /\ o.quantity > 0
      /\ o.id \notin DOMAIN order_location
      /\ RestingQuantity' = RestingQuantity
  BY SameResting DEF AddOrder, bookVars
<1>3. /\ summary' = [summary EXCEPT !.events_processed = @ + 1]
      /\ submitted' = submitted + o.quantity
      /\ status' = status /\ cancelled' = cancelled
  <2>1. ~RejectOrder(o)
    BY <1>1, <1>2 DEF RejectOrder
  <2>2. QED
    BY <2>1 DEF Add
<1>4. Moves(o.quantity, 0, 0)
  <2>1. /\ RestingQuantity' + remaining'
             = RestingQuantity + remaining + o.quantity
        /\ TradedIn(trades') = TradedIn(trades)
    BY <1>1, AddOrderFlow
  <2>2. Total' = Total
    BY <1>1, <1>3, <2>1, LineCounted DEF Total
  <2>3. RestingQuantity' \in Int /\ Total \in Int
    BY <1>1, <1>2, FlowTypes DEF Total, Counters
  <2>4. /\ RestingQuantity' + remaining'
             = RestingQuantity + remaining + o.quantity - 0 - 2 * 0
        /\ Total' = Total + 0 /\ cancelled' = cancelled + 0
    BY <1>1, <1>3, <2>1, <2>2, <2>3, FlowTypes DEF TotalsInv
  <2>5. QED
    BY <1>3, <2>3, <2>4 DEF Moves
<1>5. Counts(1, 0, 0)
  BY <1>1, <1>2, <1>3, LineCounted DEF Counts, Running, Counters
<1>6. o.quantity \in Int /\ status' = status
  BY <1>1, <1>3
<1>7. QED
  BY <1>4, <1>5, <1>6, TotalsKept

LEMMA RejectTotals ==
  ASSUME TotalsInv, FlowInv', NEW o \in Order, Add(o), RejectOrder(o)
  PROVE  TotalsInv'
<1>1. FlowInv /\ summary \in [Counters -> Int] /\ o.quantity \in Int
  BY QuantitiesAssumption DEF TotalsInv, Order
<1>2. pc = "idle" /\ UNCHANGED vars
  BY DEF RejectOrder
<1>3. /\ summary' = [Added EXCEPT !.events_processed = @ + 1]
      /\ submitted' = submitted
      /\ status' = status /\ cancelled' = cancelled
  <2>1. ~AddOrder(o)
    BY <1>1 DEF AddOrder, RejectOrder
  <2>2. QED
    BY <2>1 DEF Add
<1>4. TradedIn(trades) = 0 /\ trades' = trades
  BY <1>1, <1>2, TradedInNone DEF FlowInv, LocalsGone, vars, callVars
<1>5. /\ summary' \in [Counters -> Int]
      /\ summary'.events_processed = summary.events_processed + 1
      /\ summary'.add_events = summary.add_events + 1
      /\ summary'.cancel_events = summary.cancel_events
      /\ summary'.total_traded_quantity = summary.total_traded_quantity
  BY <1>1, <1>3, <1>4, AddedGains, LineCounted DEF Counters
<1>6. Moves(0, 0, 0)
  <2>1. RestingQuantity' = RestingQuantity /\ remaining' = remaining
    BY <1>1, <1>2, NoFlow
  <2>2. Total' = Total
    BY <1>4, <1>5 DEF Total
  <2>3. QED
    BY <1>1, <1>3, <2>1, <2>2, FlowTypes DEF Moves, TotalsInv, Total, Counters
<1>7. Counts(1, 1, 0)
  BY <1>1, <1>2, <1>5 DEF Counts, Running, Counters, vars, callVars
<1>8. status' = status
  BY <1>3
<1>9. QED
  BY <1>6, <1>7, <1>8, TotalsKept

LEMMA MatchTotals ==
  ASSUME TotalsInv, FlowInv', AddMatches
  PROVE  TotalsInv'
<1>1. /\ FlowInv /\ UNCHANGED <<status, summary, submitted, cancelled>>
      /\ pc # "idle" /\ pc' # "idle"
  BY DEF TotalsInv, AddMatches, replayVars, history, MatchLevel, FillPart,
         FillWhole, EndLevel
<1>2. PICK made \in Int :
        /\ RestingQuantity' \in Int
        /\ RestingQuantity' + remaining'
             = RestingQuantity + remaining - 2 * made
        /\ TradedIn(trades') = TradedIn(trades) + made
  <2>1. CASE FillPart \/ FillWhole
    <3> DEFINE made == Last(trades').quantity
    <3>1. /\ made \in Int
          /\ RestingQuantity' = RestingQuantity - made
          /\ remaining' = remaining - made
          /\ TradedIn(trades') = TradedIn(trades) + made
      BY <1>1, <2>1, FillFlow
    <3> HIDE DEF made
    <3>2. /\ RestingQuantity' \in Int
          /\ RestingQuantity' + remaining'
               = RestingQuantity + remaining - 2 * made
      BY <1>1, <3>1, FlowTypes
    <3>3. QED
      BY <3>1, <3>2
  <2>2. CASE MatchLevel \/ EndLevel
    <3>1. /\ RestingQuantity' = RestingQuantity /\ remaining' = remaining
          /\ trades' = trades
      BY <1>1, <2>2, NoFlow DEF MatchLevel, EndLevel
    <3>2. /\ RestingQuantity' + remaining'
               = RestingQuantity + remaining - 2 * 0
          /\ TradedIn(trades') = TradedIn(trades) + 0
      BY <1>1, <3>1, FlowTypes
    <3>3. QED
      BY <1>1, <3>1, <3>2, FlowTypes
  <2>3. QED
    BY <2>1, <2>2 DEF AddMatches
<1>3. Moves(0, 0, made)
  <2>1. Total' = Total + made
    BY <1>1, <1>2, FlowTypes DEF Total, TotalsInv, Counters
  <2>2. QED
    BY <1>1, <1>2, <2>1, FlowTypes DEF Moves, TotalsInv
<1>4. Counts(0, 0, 0)
  BY <1>1 DEF Counts, Running, TotalsInv, Counters
<1>5. QED
  BY <1>1, <1>3, <1>4, TotalsKept

LEMMA ReturnTotals ==
  ASSUME TotalsInv, FlowInv', AddReturns
  PROVE  TotalsInv'
<1>1. /\ FlowInv /\ summary' = Added
      /\ UNCHANGED <<status, submitted, cancelled>>
      /\ pc # "idle" /\ pc' = "idle" /\ trades' = <<>>
  BY DEF TotalsInv, AddReturns, history, ReturnFilled, RestRemainder
<1>2. /\ RestingQuantity' \in Int
      /\ RestingQuantity' + remaining' = RestingQuantity + remaining
  <2>1. CASE ReturnFilled
    BY <1>1, <2>1, NoFlow, FlowTypes
  <2>2. CASE RestRemainder
    <3>1. RestingQuantity' = RestingQuantity + remaining
      BY <1>1, <2>2, RestingArrived DEF FlowInv
    <3>2. QED
      BY <1>1, <2>2, <3>1, FlowTypes, RestFlow
  <2>3. QED
    BY <2>1, <2>2 DEF AddReturns
<1>3. Moves(0, 0, 0)
  <2>1. TradedIn(trades') = 0
    BY <1>1, TradedInNone
  <2>2. Total' = Total + 0
    BY <1>1, <2>1, AddedGains, FlowTypes DEF Total, TotalsInv, Counters
  <2>3. QED
    BY <1>1, <1>2, <2>2, FlowTypes DEF Moves, TotalsInv
<1>4. Counts(0, 1, 0)
  BY <1>1, AddedGains DEF Counts, Running, TotalsInv, Counters
<1>5. QED
  BY <1>1, <1>3, <1>4, TotalsKept

LEMMA CancelTotals ==
  ASSUME TotalsInv, FlowInv', NEW o \in Order, Cancel(o)
  PROVE  TotalsInv'
<1>1. /\ FlowInv /\ summary \in [Counters -> Int] /\ o.id \in Ids
      /\ submitted \in Int /\ cancelled \in Int
      /\ pc = "idle" /\ status' = status /\ submitted' = submitted
  BY DEF TotalsInv, Cancel, ReadsRow, Order
<1>2. PICK left \in Int :
        /\ cancelled' = cancelled + left
        /\ RestingQuantity' = RestingQuantity - left
        /\ UNCHANGED <<remaining, trades, pc>>
  <2>1. CASE /\ CancelOrder(o.id)
             /\ cancelled' = cancelled + Slot(o.id).quantity
    <3>1. pc' = pc
      BY <2>1 DEF CancelOrder, RemoveOrder, callVars
    <3>2. QED
      BY <1>1, <2>1, <3>1, CancelFlow
  <2>2. CASE CancelMissing(o.id) /\ cancelled' = cancelled
    <3>1. UNCHANGED vars
      BY <2>2 DEF CancelMissing
    <3>2. /\ RestingQuantity' = RestingQuantity
          /\ UNCHANGED <<remaining, trades, pc>>
      BY <1>1, <3>1, NoFlow DEF vars, callVars
    <3>3. RestingQuantity' = RestingQuantity - 0 /\ cancelled' = cancelled + 0
      BY <1>1, <2>2, <3>2, FlowTypes
    <3>4. QED
      BY <3>2, <3>3
  <2>3. QED
    BY <2>1, <2>2 DEF Cancel
<1>3. /\ summary' \in [Counters -> Int]
      /\ summary'.events_processed = summary.events_processed + 1
      /\ summary'.add_events = summary.add_events
      /\ summary'.cancel_events = summary.cancel_events + 1
      /\ summary'.total_traded_quantity = summary.total_traded_quantity
  <2> DEFINE t == [summary EXCEPT !.events_processed = @ + 1]
             u == [t EXCEPT !.cancel_events = @ + 1]
  <2>1. /\ t \in [Counters -> Int]
        /\ t.events_processed = summary.events_processed + 1
        /\ t.add_events = summary.add_events
        /\ t.cancel_events = summary.cancel_events
        /\ t.total_traded_quantity = summary.total_traded_quantity
    BY <1>1, LineCounted
  <2>2. summary' \in {u, [u EXCEPT !.successful_cancels = @ + 1]}
    BY DEF Cancel
  <2> HIDE DEF t
  <2>3. /\ u \in [Counters -> Int]
        /\ u.events_processed = t.events_processed
        /\ u.add_events = t.add_events
        /\ u.cancel_events = t.cancel_events + 1
        /\ u.total_traded_quantity = t.total_traded_quantity
    BY <2>1 DEF Counters
  <2> HIDE DEF u
  <2>4. QED
    BY <2>1, <2>2, <2>3 DEF Counters
<1>4. Moves(0, left, 0)
  <2>1. /\ RestingQuantity' \in Int
        /\ RestingQuantity' + remaining'
             = RestingQuantity + remaining + 0 - left - 2 * 0
    BY <1>1, <1>2, FlowTypes
  <2>2. Total' = Total + 0 /\ submitted' = submitted + 0
    <3>1. Total' = Total
      BY <1>2, <1>3 DEF Total
    <3>2. Total \in Int
      BY <1>1, FlowTypes DEF Total, Counters
    <3>3. QED
      BY <1>1, <3>1, <3>2
  <2>3. QED
    BY <1>2, <2>1, <2>2 DEF Moves
<1>5. Counts(1, 0, 1)
  BY <1>1, <1>2, <1>3 DEF Counts, Running, Counters
<1>6. QED
  BY <1>1, <1>4, <1>5, TotalsKept

(* An exception loses the summary; the end of the file changes nothing.    *)
LEMMA StopTotals ==
  ASSUME TotalsInv, FlowInv',
         Throw \/ Return \/ UNCHANGED <<vars, replayVars>>
  PROVE  TotalsInv'
<1>1. CASE Throw
  BY <1>1, EmptySummaryType DEF Throw, TotalsInv, TotalsAgree, history
<1>2. CASE Return \/ UNCHANGED <<vars, replayVars>>
  <2>1. /\ UNCHANGED vars
        /\ summary' = summary /\ submitted' = submitted
        /\ cancelled' = cancelled
        /\ status' # "thrown" => status # "thrown"
    <3>1. CASE Return
      BY <3>1 DEF Return, history
    <3>2. CASE UNCHANGED <<vars, replayVars>>
      BY <3>2 DEF replayVars, history
    <3>3. QED
      BY <1>2, <3>1, <3>2
  <2>2. RestingQuantity' = RestingQuantity /\ remaining' = remaining
    BY <2>1, NoFlow DEF TotalsInv
  <2>3. pc' = pc /\ trades' = trades
    BY <2>1 DEF vars, callVars
  <2>4. QED
    BY <2>1, <2>2, <2>3 DEF TotalsInv, TotalsAgree
<1>3. QED
  BY <1>1, <1>2

LEMMA TotalsNext ==
  TotalsInv /\ [ReplayNext]_<<vars, replayVars>> => TotalsInv'
<1> SUFFICES ASSUME TotalsInv, [ReplayNext]_<<vars, replayVars>>
             PROVE  TotalsInv'
  OBVIOUS
<1>1. FlowInv'
  BY ReplayIsBook, FlowNext DEF TotalsInv
<1>2. ASSUME NEW o \in Order, Add(o)
      PROVE  AddOrder(o) \/ RejectOrder(o)
  BY <1>2 DEF Add
<1>3. QED
  BY <1>1, <1>2, SubmitTotals, RejectTotals, CancelTotals, MatchTotals,
     ReturnTotals, StopTotals DEF ReplayNext

(* The totals of the summary are those of the book, for every file.        *)
THEOREM SummaryTotalsAgree == ReplaySpec => []TotalsAgree
<1>1. ASSUME ReplayInit PROVE TotalsInv
  <2>1. /\ Init /\ FlowInv /\ submitted = 0 /\ cancelled = 0
        /\ summary = EmptySummary /\ RestingQuantity = 0
    BY <1>1, FlowInit, NothingRests DEF ReplayInit
  <2>2. remaining = 0 /\ trades = <<>> /\ pc = "idle"
    BY <2>1 DEF Init
  <2>3. TradedIn(trades) = 0
    BY <2>2, TradedInNone
  <2>4. /\ submitted = 2 * (summary.total_traded_quantity + TradedIn(trades))
                         + cancelled + RestingQuantity + remaining
        /\ summary.events_processed
             = summary.add_events + summary.cancel_events
                 + IF pc = "idle" THEN 0 ELSE 1
    BY <2>1, <2>2, <2>3, EmptySummaryType
  <2>5. QED
    BY <2>1, <2>4, EmptySummaryType DEF TotalsInv, TotalsAgree
<1>2. TotalsInv => TotalsAgree
  BY DEF TotalsInv
<1>3. QED
  BY <1>1, <1>2, TotalsNext, PTL DEF ReplaySpec
=============================================================================
