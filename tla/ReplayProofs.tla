--------------------------- MODULE ReplayProofs ----------------------------
(***************************************************************************)
(* Theorems about LobsterReplay, for all messages, prices and quantities:  *)
(* a replay keeps the invariants of the book, its summary accounts for the *)
(* rows it has read and bounds the orders the book holds, and successes    *)
(* are counted for what they are.                                          *)
(***************************************************************************)
EXTENDS LobsterReplay, OrderBookProofs

Counters ==
  {"events_processed", "new_orders", "partial_cancels", "deletions",
   "executions", "successful_execution_reductions", "hidden_executions",
   "cross_trades", "auxiliary", "successful_cancels", "executed_quantity"}

Summary == [Counters -> Int]

(* What is counted can only be compared when the book is finite.           *)
ReplayInv ==
  /\ summary \in Summary
  /\ IsFiniteSet(DOMAIN order_location)
  /\ SummaryAccounted

----------------------------------------------------------------------------
(* Orders in the book.                                                     *)

LEMMA EraseDomain ==
  ASSUME NEW map, NEW key
  PROVE  DOMAIN Erase(map, key) \subseteq DOMAIN map
BY DEF Erase, Restrict

LEMMA InsertDomain ==
  ASSUME NEW map, NEW key, NEW value
  PROVE  DOMAIN Insert(map, key, value) = DOMAIN map \cup {key}
BY DEF Insert

(* Only the end of a submission puts an order into the book.               *)
LEMMA NoOrderAdded ==
  ASSUME IsFiniteSet(DOMAIN order_location),
         DOMAIN order_location' \subseteq DOMAIN order_location
  PROVE  /\ IsFiniteSet(DOMAIN order_location')
         /\ order_count \in Nat
         /\ order_count' \in Nat
         /\ order_count' <= order_count
BY FS_Subset, FS_CardinalityType DEF order_count

LEMMA OneOrderAdded ==
  ASSUME IsFiniteSet(DOMAIN order_location), RestRemainder
  PROVE  /\ IsFiniteSet(DOMAIN order_location')
         /\ order_count \in Nat
         /\ order_count' \in Nat
         /\ order_count' <= order_count + 1
<1>1. DOMAIN order_location' = DOMAIN order_location \cup {order.id}
  BY InsertDomain DEF RestRemainder
<1>2. QED
  <2>1. IsFiniteSet(DOMAIN order_location')
    BY <1>1, FS_AddElement
  <2>2. Cardinality(DOMAIN order_location') =
          IF order.id \in DOMAIN order_location
          THEN Cardinality(DOMAIN order_location)
          ELSE Cardinality(DOMAIN order_location) + 1
    BY <1>1, FS_AddElement
  <2>3. Cardinality(DOMAIN order_location) \in Nat
    BY FS_CardinalityType
  <2>4. QED
    BY <2>1, <2>2, <2>3 DEF order_count

LEMMA ReduceAddsNone ==
  ASSUME NEW id, NEW quantity, reduce_order(id, quantity)
  PROVE  /\ DOMAIN order_location' \subseteq DOMAIN order_location
         /\ pc = "idle" /\ pc' = "idle"
<1>1. CASE ReduceOrder(id, quantity)
  BY <1>1 DEF ReduceOrder, callVars
<1>2. CASE ReduceToNothing(id, quantity)
  BY <1>2, EraseDomain DEF ReduceToNothing, RemoveOrder, callVars
<1>3. CASE ReduceRefused(id, quantity)
  BY <1>3 DEF ReduceRefused, vars, bookVars, callVars
<1>4. QED
  BY <1>1, <1>2, <1>3 DEF reduce_order

LEMMA CancelAddsNone ==
  ASSUME NEW id, CancelOrder(id) \/ CancelMissing(id)
  PROVE  /\ DOMAIN order_location' \subseteq DOMAIN order_location
         /\ pc = "idle" /\ pc' = "idle"
<1>1. CASE CancelOrder(id)
  BY <1>1, EraseDomain DEF CancelOrder, RemoveOrder, callVars
<1>2. CASE CancelMissing(id)
  BY <1>2 DEF CancelMissing, vars, bookVars, callVars
<1>3. QED
  BY <1>1, <1>2

LEMMA MatchingAddsNone ==
  ASSUME NewOrderMatches
  PROVE  /\ DOMAIN order_location' \subseteq DOMAIN order_location
         /\ pc # "idle" /\ pc' # "idle"
<1>1. CASE MatchLevel
  BY <1>1 DEF MatchLevel, bookVars
<1>2. CASE FillPart
  BY <1>2 DEF FillPart
<1>3. CASE FillWhole
  BY <1>3, EraseDomain DEF FillWhole
<1>4. CASE EndLevel
  BY <1>4 DEF EndLevel
<1>5. QED
  BY <1>1, <1>2, <1>3, <1>4 DEF NewOrderMatches

----------------------------------------------------------------------------
(* The summary.                                                            *)

LEMMA EmptyAccounted ==
  /\ EmptySummary \in Summary
  /\ EmptySummary.events_processed = 0
  /\ EmptySummary.new_orders = 0
  /\ EmptySummary.partial_cancels = 0
  /\ EmptySummary.deletions = 0
  /\ EmptySummary.executions = 0
  /\ EmptySummary.successful_execution_reductions = 0
  /\ EmptySummary.hidden_executions = 0
  /\ EmptySummary.cross_trades = 0
  /\ EmptySummary.auxiliary = 0
  /\ EmptySummary.successful_cancels = 0
BY DEF EmptySummary, Summary, Counters

(* Every change of the summary is a chain of gains.                        *)
Gain(s, counter, n) == [s EXCEPT ![counter] = @ + n]

LEMMA Members ==
  ASSUME NEW s \in Summary
  PROVE  /\ s.events_processed \in Int
         /\ s.new_orders \in Int
         /\ s.partial_cancels \in Int
         /\ s.deletions \in Int
         /\ s.executions \in Int
         /\ s.successful_execution_reductions \in Int
         /\ s.hidden_executions \in Int
         /\ s.cross_trades \in Int
         /\ s.auxiliary \in Int
         /\ s.successful_cancels \in Int
BY DEF Summary, Counters

Gained(s, t, c, n) ==
  LET gained(d) == IF d = c THEN n ELSE 0
  IN  /\ t.events_processed = s.events_processed + gained("events_processed")
      /\ t.new_orders = s.new_orders + gained("new_orders")
      /\ t.partial_cancels = s.partial_cancels + gained("partial_cancels")
      /\ t.deletions = s.deletions + gained("deletions")
      /\ t.executions = s.executions + gained("executions")
      /\ t.successful_execution_reductions =
           s.successful_execution_reductions
             + gained("successful_execution_reductions")
      /\ t.hidden_executions = s.hidden_executions + gained("hidden_executions")
      /\ t.cross_trades = s.cross_trades + gained("cross_trades")
      /\ t.auxiliary = s.auxiliary + gained("auxiliary")
      /\ t.successful_cancels = s.successful_cancels + gained("successful_cancels")

LEMMA GainMembers ==
  ASSUME NEW s \in Summary, NEW c \in Counters, NEW n \in Int
  PROVE  Gain(s, c, n) \in Summary /\ Gained(s, Gain(s, c, n), c, n)
<1> DEFINE t == Gain(s, c, n)
<1>1. /\ t \in Summary
      /\ \A d \in Counters : t[d] = s[d] + IF d = c THEN n ELSE 0
  BY DEF Gain, Summary
<1>2. QED
  BY <1>1, Members DEF Counters, Gained

(* The seven types of a message, each of which has its counter.            *)
Types == {"new_orders", "partial_cancels", "deletions", "executions",
          "hidden_executions", "cross_trades", "auxiliary"}

(* What Event makes of the summary.                                        *)
LEMMA EventMembers ==
  ASSUME summary \in Summary, NEW c \in Types
  PROVE  \E first \in Summary :
           /\ Gained(summary, first, "events_processed", 1)
           /\ Event(c) \in Summary
           /\ Gained(first, Event(c), c, 1)
<1> DEFINE first == Gain(summary, "events_processed", 1)
<1>1. /\ c \in Counters \ {"events_processed"}
      /\ "events_processed" \in Counters
  BY DEF Types, Counters
<1>2. Event(c) = Gain(first, c, 1)
  BY <1>1 DEF Event, Gain
<1>3. first \in Summary /\ Gained(summary, first, "events_processed", 1)
  BY <1>1, GainMembers
<1> HIDE DEF first
<1>4. QED
  BY <1>1, <1>2, <1>3, GainMembers

LEMMA NewOrderInv ==
  ASSUME ReplayInv, NEW message \in Messages, NewOrder(message)
  PROVE  ReplayInv'
<1> DEFINE o == [id |-> message.order_id, price |-> message.price,
                 side |-> lobster_direction_to_side(message.direction),
                 quantity |-> message.size]
<1>1. order_location' = order_location /\ pc = "idle" /\ status' = status
  BY DEF NewOrder, AddOrder, RejectOrder, ReadsRow, vars, bookVars
<1>2. order_count' = order_count /\ order_count \in Nat
  BY <1>1, FS_CardinalityType DEF ReplayInv, order_count
<1>3. CASE /\ AddOrder(o)
           /\ summary' = [summary EXCEPT !.events_processed = @ + 1]
  <2>1. pc' # "idle"
    BY <1>3 DEF AddOrder
  <2>2. summary' = Gain(summary, "events_processed", 1)
    BY <1>3 DEF Gain
  <2>3. summary' \in Summary /\ Gained(summary, summary', "events_processed", 1)
    BY <2>2, GainMembers DEF ReplayInv, Counters
  <2>4. QED
    BY <1>1, <1>2, <2>1, <2>3, Members
    DEF ReplayInv, SummaryAccounted, Gained
<1>4. CASE RejectOrder(o) /\ summary' = Event("new_orders")
  <2>1. pc' = "idle"
    BY <1>1, <1>4 DEF RejectOrder, vars, callVars
  <2>2. PICK first \in Summary :
          /\ Gained(summary, first, "events_processed", 1)
          /\ summary' \in Summary
          /\ Gained(first, summary', "new_orders", 1)
    BY <1>4, EventMembers DEF ReplayInv, Types
  <2>3. /\ summary'.new_orders = summary.new_orders + 1
        /\ summary.new_orders \in Int
    BY <2>2, Members DEF ReplayInv, Gained
  <2>4. status' # "thrown" => order_count' <= summary'.new_orders
    BY <1>1, <1>2, <2>3 DEF ReplayInv, SummaryAccounted
  <2>5. /\ first.successful_cancels <= first.partial_cancels + first.deletions
        /\ first.successful_execution_reductions <= first.executions
        /\ first.events_processed =
             first.new_orders + first.partial_cancels + first.deletions
             + first.executions + first.hidden_executions
             + first.cross_trades + first.auxiliary + 1
    BY <1>1, <2>2, Members DEF ReplayInv, SummaryAccounted, Gained
  <2>6. QED
    BY <1>1, <2>1, <2>2, <2>4, <2>5, Members
    DEF ReplayInv, SummaryAccounted, Gained
<1>5. QED
  BY <1>3, <1>4 DEF NewOrder

LEMMA NewOrderMatchesInv ==
  ASSUME ReplayInv, NewOrderMatches
  PROVE  ReplayInv'
<1>1. summary' = summary /\ status' = status
  BY DEF NewOrderMatches, replayVars
<1>2. QED
  BY <1>1, MatchingAddsNone, NoOrderAdded, Members
  DEF ReplayInv, SummaryAccounted

LEMMA NewOrderReturnsInv ==
  ASSUME ReplayInv, NewOrderReturns
  PROVE  ReplayInv'
<1>1. pc # "idle" /\ pc' = "idle" /\ status' = status
  BY DEF NewOrderReturns, ReturnFilled, RestRemainder
<1>2. /\ IsFiniteSet(DOMAIN order_location')
      /\ order_count \in Nat
      /\ order_count' \in Nat
      /\ order_count' <= order_count + 1
  <2>1. CASE ReturnFilled
    BY <2>1, NoOrderAdded DEF ReturnFilled, bookVars, ReplayInv
  <2>2. CASE RestRemainder
    BY <2>2, OneOrderAdded DEF ReplayInv
  <2>3. QED
    BY <2>1, <2>2 DEF NewOrderReturns
<1>3. summary' = Gain(summary, "new_orders", 1)
  BY DEF NewOrderReturns, Gain
<1>4. summary' \in Summary /\ Gained(summary, summary', "new_orders", 1)
  BY <1>3, GainMembers DEF ReplayInv, Counters
<1>5. /\ summary'.new_orders = summary.new_orders + 1
      /\ summary.new_orders \in Int
  BY <1>4, Members DEF ReplayInv, Gained
<1>6. status' # "thrown" => order_count' <= summary'.new_orders
  BY <1>1, <1>2, <1>5 DEF ReplayInv, SummaryAccounted
<1>7. /\ summary'.events_processed = summary.events_processed
      /\ summary'.partial_cancels = summary.partial_cancels
      /\ summary'.deletions = summary.deletions
      /\ summary'.executions = summary.executions
      /\ summary'.successful_execution_reductions =
           summary.successful_execution_reductions
      /\ summary'.hidden_executions = summary.hidden_executions
      /\ summary'.cross_trades = summary.cross_trades
      /\ summary'.auxiliary = summary.auxiliary
      /\ summary'.successful_cancels = summary.successful_cancels
  BY <1>4, Members DEF ReplayInv, Gained
<1>8. summary'.events_processed =
        summary'.new_orders + summary'.partial_cancels + summary'.deletions
        + summary'.executions + summary'.hidden_executions
        + summary'.cross_trades + summary'.auxiliary
  BY <1>1, <1>5, <1>7, Members DEF ReplayInv, SummaryAccounted
<1>9. QED
  BY <1>1, <1>2, <1>4, <1>6, <1>7, <1>8, Members DEF ReplayInv, SummaryAccounted

LEMMA PartialCancelInv ==
  ASSUME ReplayInv, NEW message \in Messages, PartialCancel(message)
  PROVE  ReplayInv'
<1>1. /\ DOMAIN order_location' \subseteq DOMAIN order_location
      /\ pc = "idle" /\ pc' = "idle" /\ status' = status
  BY ReduceAddsNone DEF PartialCancel, CountPartialCancel
<1>2. PICK n \in {0, 1} :
        summary' = Gain(Event("partial_cancels"), "successful_cancels", n)
  BY DEF PartialCancel, CountPartialCancel, Gain
<1>3. PICK first \in Summary :
        /\ Gained(summary, first, "events_processed", 1)
        /\ Event("partial_cancels") \in Summary
        /\ Gained(first, Event("partial_cancels"), "partial_cancels", 1)
  BY EventMembers DEF ReplayInv, Types
<1>4. /\ summary' \in Summary
      /\ Gained(Event("partial_cancels"), summary', "successful_cancels", n)
  BY <1>2, <1>3, GainMembers DEF Counters
<1>5. QED
  BY <1>1, <1>3, <1>4, NoOrderAdded, Members
  DEF ReplayInv, SummaryAccounted, Gained

LEMMA DeletionInv ==
  ASSUME ReplayInv, NEW message \in Messages, Deletion(message)
  PROVE  ReplayInv'
<1>1. /\ DOMAIN order_location' \subseteq DOMAIN order_location
      /\ pc = "idle" /\ pc' = "idle" /\ status' = status
  BY CancelAddsNone DEF Deletion
<1>2. \/ summary' = Event("deletions")
      \/ summary' = Gain(Event("deletions"), "successful_cancels", 1)
  BY DEF Deletion, Gain
<1>3. PICK first \in Summary :
        /\ Gained(summary, first, "events_processed", 1)
        /\ Event("deletions") \in Summary
        /\ Gained(first, Event("deletions"), "deletions", 1)
  BY EventMembers DEF ReplayInv, Types
<1>4. CASE summary' = Event("deletions")
  BY <1>1, <1>3, <1>4, NoOrderAdded, Members
  DEF ReplayInv, SummaryAccounted, Gained
<1>5. CASE summary' = Gain(Event("deletions"), "successful_cancels", 1)
  <2>1. /\ summary' \in Summary
        /\ Gained(Event("deletions"), summary', "successful_cancels", 1)
    BY <1>3, <1>5, GainMembers DEF Counters
  <2>2. QED
    BY <1>1, <1>3, <2>1, NoOrderAdded, Members
    DEF ReplayInv, SummaryAccounted, Gained
<1>6. QED
  BY <1>2, <1>4, <1>5

LEMMA ExecutionInv ==
  ASSUME ReplayInv, NEW message \in Messages, Execution(message)
  PROVE  ReplayInv'
<1> DEFINE sized == Gain(Event("executions"), "executed_quantity", message.size)
<1>1. /\ DOMAIN order_location' \subseteq DOMAIN order_location
      /\ pc = "idle" /\ pc' = "idle" /\ status' = status
  BY ReduceAddsNone DEF Execution, CountExecution
<1>2. PICK n \in {0, 1} :
        summary' = Gain(sized, "successful_execution_reductions", n)
  BY DEF Execution, CountExecution, Gain
<1>3. message.size \in Int
  BY MessagesAssumption, QuantitiesAssumption
<1>4. PICK first \in Summary :
        /\ Gained(summary, first, "events_processed", 1)
        /\ Event("executions") \in Summary
        /\ Gained(first, Event("executions"), "executions", 1)
  BY EventMembers DEF ReplayInv, Types
<1>5. /\ sized \in Summary
      /\ Gained(Event("executions"), sized, "executed_quantity", message.size)
  BY <1>3, <1>4, GainMembers DEF Counters
<1> HIDE DEF sized
<1>6. /\ summary' \in Summary
      /\ Gained(sized, summary', "successful_execution_reductions", n)
  BY <1>2, <1>5, GainMembers DEF Counters
<1>7. QED
  BY <1>1, <1>4, <1>5, <1>6, NoOrderAdded, Members
  DEF ReplayInv, SummaryAccounted, Gained

LEMMA SkippedInv ==
  ASSUME ReplayInv, NEW message \in Messages, Skipped(message)
  PROVE  ReplayInv'
<1>1. /\ order_location' = order_location
      /\ pc = "idle" /\ pc' = "idle" /\ status' = status
  BY DEF Skipped, ReadsRow, vars, bookVars, callVars
<1>2. PICK counter \in {"hidden_executions", "cross_trades", "auxiliary"} :
        summary' = Event(counter)
  BY DEF Skipped
<1>3. PICK first \in Summary :
        /\ Gained(summary, first, "events_processed", 1)
        /\ summary' \in Summary
        /\ Gained(first, summary', counter, 1)
  BY <1>2, EventMembers DEF ReplayInv, Types
<1>4. QED
  BY <1>1, <1>3, NoOrderAdded, Members DEF ReplayInv, SummaryAccounted, Gained

LEMMA StopInv ==
  ASSUME ReplayInv, Throw \/ Return
  PROVE  ReplayInv'
<1>1. /\ order_location' = order_location
      /\ pc = "idle" /\ pc' = "idle"
  BY DEF Throw, Return, ReadsRow, vars, bookVars, callVars
<1>2. CASE Throw
  BY <1>1, <1>2, EmptyAccounted DEF Throw, ReplayInv, SummaryAccounted
<1>3. CASE Return
  BY <1>1, <1>3, NoOrderAdded, Members
  DEF Return, ReplayInv, SummaryAccounted
<1>4. QED
  BY <1>2, <1>3

LEMMA ReplayInvNext ==
  ASSUME ReplayInv, [ReplayNext]_<<vars, replayVars>>
  PROVE  ReplayInv'
<1>1. ASSUME NEW message \in Messages, Apply(message)
      PROVE  ReplayInv'
  BY <1>1, NewOrderInv, PartialCancelInv, DeletionInv, ExecutionInv, SkippedInv
  DEF Apply
<1>2. CASE UNCHANGED <<vars, replayVars>>
  BY <1>2
  DEF vars, bookVars, callVars, replayVars, ReplayInv, SummaryAccounted,
      order_count
<1>3. QED
  BY <1>1, <1>2, NewOrderMatchesInv, NewOrderReturnsInv, StopInv
  DEF ReplayNext

LEMMA ReplayAccounts == ReplaySpec => []ReplayInv
<1>1. ReplayInit => ReplayInv
  <2> SUFFICES ASSUME ReplayInit PROVE ReplayInv
    OBVIOUS
  <2>1. DOMAIN order_location = {}
    BY DEF ReplayInit, Init, EmptyMap
  <2>2. IsFiniteSet(DOMAIN order_location) /\ order_count = 0
    BY <2>1, FS_EmptySet DEF order_count
  <2>3. QED
    BY <2>2, EmptyAccounted DEF ReplayInit, Init, ReplayInv, SummaryAccounted
<1>2. ReplayInv /\ [ReplayNext]_<<vars, replayVars>> => ReplayInv'
  BY ReplayInvNext
<1>3. QED
  BY <1>1, <1>2, PTL DEF ReplaySpec

(* Whatever the messages are, every row is counted once under its type, no *)
(* more successes are counted than attempts, and the book holds no more    *)
(* orders than submissions were counted.                                   *)
THEOREM SummaryAdds == ReplaySpec => []SummaryAccounted
<1>1. ReplayInv => SummaryAccounted
  BY DEF ReplayInv
<1>2. QED
  BY <1>1, ReplayAccounts, PTL

----------------------------------------------------------------------------
(* A replay uses the book through its operations only.                     *)

LEMMA ReduceIsCall ==
  ASSUME NEW id \in Ids, NEW quantity \in Quantities, reduce_order(id, quantity)
  PROVE  Next
BY DEF reduce_order, Next

LEMMA CancelIsCall ==
  ASSUME NEW id \in Ids, CancelOrder(id) \/ CancelMissing(id)
  PROVE  Next
BY DEF Next

LEMMA ApplyIsCall ==
  ASSUME NEW message \in Messages, Apply(message)
  PROVE  [Next]_vars
<1>1. /\ message.order_id \in Ids
      /\ message.size \in Quantities
      /\ message.price \in Prices
  BY MessagesAssumption
<1>2. CASE NewOrder(message)
  <2> DEFINE o == [id |-> message.order_id, price |-> message.price,
                   side |-> lobster_direction_to_side(message.direction),
                   quantity |-> message.size]
  <2>1. o \in Order
    BY <1>1 DEF Order, Side, lobster_direction_to_side
  <2>2. AddOrder(o) \/ RejectOrder(o)
    BY <1>2 DEF NewOrder
  <2>3. QED
    BY <2>1, <2>2 DEF Next
<1>3. CASE PartialCancel(message)
  BY <1>1, <1>3, ReduceIsCall DEF PartialCancel
<1>4. CASE Deletion(message)
  BY <1>1, <1>4, CancelIsCall DEF Deletion
<1>5. CASE Execution(message)
  BY <1>1, <1>5, ReduceIsCall DEF Execution
<1>6. CASE Skipped(message)
  BY <1>6 DEF Skipped
<1>7. QED
  BY <1>2, <1>3, <1>4, <1>5, <1>6 DEF Apply

LEMMA ReplayIsCall ==
  ASSUME ReplayNext PROVE [Next]_vars
<1>1. NewOrderMatches \/ NewOrderReturns => Next
  BY DEF NewOrderMatches, NewOrderReturns, Next, CallStep
<1>2. Throw \/ Return => UNCHANGED vars
  BY DEF Throw, Return
<1>3. QED
  BY <1>1, <1>2, ApplyIsCall DEF ReplayNext

(* replay_lobster_data leaves a sound book, at the end of the file and in  *)
(* the middle of it, whatever messages the file holds and wherever it ends *)
(* with an exception.                                                      *)
THEOREM ReplayKeepsBookSound == ReplaySpec => []BookInv
<1>1. ReplayInit => BookInv
  BY InvInit DEF ReplayInit
<1>2. BookInv /\ [ReplayNext]_<<vars, replayVars>> => BookInv'
  BY InvNext, ReplayIsCall
<1>3. QED
  BY <1>1, <1>2, PTL DEF ReplaySpec

----------------------------------------------------------------------------
(* Successes.                                                              *)

SuccessMeans ==
  LET successes == summary.successful_cancels
                     + summary.successful_execution_reductions
  IN  /\ successes' = successes => UNCHANGED bookVars
      /\ successes' > successes => RestingQuantity' < RestingQuantity
      /\ summary'.successful_execution_reductions
           > summary.successful_execution_reductions =>
         RestingQuantity - RestingQuantity' =
           summary'.executed_quantity - summary.executed_quantity

Watched == {"successful_cancels", "successful_execution_reductions",
            "executed_quantity"}

LEMMA GainWatched ==
  ASSUME NEW s \in Summary, NEW c \in Counters, NEW n \in Int
  PROVE  /\ Gain(s, c, n)[c] = s[c] + n
         /\ \A d \in Watched : /\ s[d] \in Int
                               /\ d # c => Gain(s, c, n)[d] = s[d]
BY DEF Gain, Summary, Watched, Counters

LEMMA EventWatched ==
  ASSUME summary \in Summary, NEW c \in Types
  PROVE  /\ Event(c) \in Summary
         /\ \A d \in Watched : Event(c)[d] = summary[d] /\ summary[d] \in Int
<1> DEFINE first == Gain(summary, "events_processed", 1)
<1>1. /\ c \in Counters \ {"events_processed"} /\ c \notin Watched
      /\ "events_processed" \in Counters \ Watched
  BY DEF Types, Counters, Watched
<1>2. Event(c) = Gain(first, c, 1)
  BY <1>1 DEF Event, Gain
<1>3. \A d \in Watched : first[d] = summary[d] /\ summary[d] \in Int
  BY <1>1, GainWatched
<1>4. first \in Summary
  BY <1>1, GainMembers
<1> HIDE DEF first
<1>5. Gain(first, c, 1) \in Summary
  BY <1>1, <1>4, GainMembers
<1>6. \A d \in Watched : Gain(first, c, 1)[d] = first[d]
  BY <1>1, <1>4, GainWatched
<1>7. QED
  BY <1>2, <1>3, <1>5, <1>6

(* No success: the book stays as it is.                                    *)
LEMMA NoSuccess ==
  ASSUME \A d \in Watched : summary[d] \in Int,
         \A d \in Watched \ {"executed_quantity"} : summary'[d] = summary[d],
         UNCHANGED bookVars
  PROVE  SuccessMeans
<1>1. /\ summary'.successful_cancels = summary.successful_cancels
      /\ summary'.successful_execution_reductions
           = summary.successful_execution_reductions
      /\ summary.successful_cancels \in Int
      /\ summary.successful_execution_reductions \in Int
  BY DEF Watched
<1>2. QED
  BY <1>1 DEF SuccessMeans

(* A reduction that succeeds takes its size out of the book, and another   *)
(* leaves the book alone.                                                  *)
LEMMA ReduceMeans ==
  ASSUME BookInv, NEW message \in Messages,
         reduce_order(message.order_id, message.size)
  PROVE  /\ message.size \in Int /\ RestingQuantity \in Int
         /\ Reduces(message) => /\ message.size > 0
                                /\ RestingQuantity'
                                     = RestingQuantity - message.size
         /\ ~Reduces(message) => UNCHANGED bookVars
<1> DEFINE id == message.order_id
           n == message.size
<1>1. /\ id \in Ids /\ n \in Quantities /\ n \in Int
      /\ TypeOK /\ SlotsAccounted /\ RestingQuantity \in Int
  BY MessagesAssumption, QuantitiesAssumption, RestingIsSum DEF BookInv
<1>2. CASE ReduceOrder(id, n)
  <2>1. Reduces(message) /\ n > 0
    BY <1>1, <1>2 DEF ReduceOrder, Reduces, ReduceResult
  <2>2. QED
    BY <1>1, <1>2, <2>1, ReduceOrderResting
<1>3. CASE ReduceToNothing(id, n)
  <2>1. /\ Reduces(message) /\ n > 0 /\ n = Slot(id).quantity
        /\ pc = "idle" /\ CanCancel(id) /\ RemoveOrder(id)
    BY <1>1, <1>3 DEF ReduceToNothing, Reduces, ReduceResult
  <2>2. RestingQuantity' = RestingQuantity - Slot(id).quantity
    BY <1>1, <2>1, RemoveOrderResting
  <2>3. QED
    BY <1>1, <2>1, <2>2
<1>4. CASE ReduceRefused(id, n)
  <2>1. UNCHANGED bookVars
    BY <1>4 DEF ReduceRefused, vars
  <2>2. ~Reduces(message)
    <3>1. ASSUME ReduceResult(id, n) = "Removed" PROVE CanCancel(id)
      <4>1. id \in DOMAIN order_location
        BY <1>1, <3>1 DEF ReduceResult
      <4>2. order_location[id] \in Located
        BY <1>1, <4>1, LocatedFacts
      <4>3. QED
        BY <4>1, <4>2 DEF BookInv, LevelsThreaded, CanCancel, Slot
    <3>2. QED
      BY <1>4, <3>1 DEF ReduceRefused, Reduces
  <2>3. QED
    BY <1>1, <2>1, <2>2
<1>5. QED
  BY <1>2, <1>3, <1>4 DEF reduce_order

LEMMA PartialCancelMeans ==
  ASSUME BookInv, ReplayInv, NEW message \in Messages, PartialCancel(message)
  PROVE  SuccessMeans
<1> DEFINE n == IF Reduces(message) THEN 1 ELSE 0
           counted == Event("partial_cancels")
<1>1. /\ counted \in Summary
      /\ \A d \in Watched : counted[d] = summary[d] /\ summary[d] \in Int
  BY EventWatched DEF ReplayInv, Types
<1>2. summary' = Gain(counted, "successful_cancels", n)
  BY DEF PartialCancel, CountPartialCancel, Gain
<1>3. n \in Int /\ (n = 0 <=> ~Reduces(message)) /\ n \in {0, 1}
  OBVIOUS
<1> HIDE DEF n, counted
<1>4. /\ summary'.successful_cancels = summary.successful_cancels + n
      /\ \A d \in Watched : d # "successful_cancels" => summary'[d] = summary[d]
  <2>1. "successful_cancels" \in Counters \cap Watched
    BY DEF Counters, Watched
  <2>2. QED
    BY <1>1, <1>2, <1>3, <2>1, GainWatched
<1>5. reduce_order(message.order_id, message.size)
  BY DEF PartialCancel
<1>6. CASE ~Reduces(message)
  <2>1. UNCHANGED bookVars
    BY <1>5, <1>6, ReduceMeans
  <2>2. QED
    BY <1>1, <1>3, <1>4, <1>6, <2>1, NoSuccess DEF Watched
<1>7. CASE Reduces(message)
  <2>1. RestingQuantity' < RestingQuantity
    BY <1>5, <1>7, ReduceMeans
  <2>2. /\ summary'.successful_cancels = summary.successful_cancels + 1
        /\ summary'.successful_execution_reductions
             = summary.successful_execution_reductions
        /\ summary.successful_cancels \in Int
        /\ summary.successful_execution_reductions \in Int
    BY <1>1, <1>3, <1>4, <1>7 DEF Watched
  <2>3. QED
    BY <2>1, <2>2 DEF SuccessMeans
<1>8. QED
  BY <1>6, <1>7

LEMMA DeletionMeans ==
  ASSUME BookInv, ReplayInv, NEW message \in Messages, Deletion(message)
  PROVE  SuccessMeans
<1> DEFINE id == message.order_id
           counted == Event("deletions")
<1>1. /\ counted \in Summary
      /\ \A d \in Watched : counted[d] = summary[d] /\ summary[d] \in Int
  BY EventWatched DEF ReplayInv, Types
<1>2. id \in Ids
  BY MessagesAssumption
<1>3. CASE CancelMissing(id) /\ summary' = counted
  <2>1. UNCHANGED bookVars
    BY <1>3 DEF CancelMissing, vars
  <2>2. \A d \in Watched : summary'[d] = summary[d]
    BY <1>1, <1>3
  <2>3. QED
    BY <1>1, <2>1, <2>2, NoSuccess
<1>4. CASE /\ CancelOrder(id)
           /\ summary' = Gain(counted, "successful_cancels", 1)
  <2>1. /\ "successful_cancels" \in Counters \cap Watched
        /\ "successful_execution_reductions" \in Watched
    BY DEF Counters, Watched
  <2> HIDE DEF counted
  <2>2. /\ summary'.successful_cancels = summary.successful_cancels + 1
        /\ summary'.successful_execution_reductions
             = summary.successful_execution_reductions
        /\ summary.successful_cancels \in Int
        /\ summary.successful_execution_reductions \in Int
    BY <1>1, <1>4, <2>1, GainWatched
  <2>3. /\ pc = "idle" /\ CanCancel(id) /\ RemoveOrder(id)
        /\ TypeOK /\ SlotsAccounted
    BY <1>4 DEF CancelOrder, BookInv
  <2>4. RestingQuantity' = RestingQuantity - Slot(id).quantity
    BY <1>2, <2>3, RemoveOrderResting
  <2>5. Slot(id).quantity \in Int /\ Slot(id).quantity > 0
    BY <2>3, LocatedFacts
       DEF CanCancel, BookInv, NothingExhausted, Slot, OrderNode
  <2>6. RestingQuantity' < RestingQuantity
    BY <2>3, <2>4, <2>5, RestingIsSum
  <2>7. QED
    BY <2>2, <2>6 DEF SuccessMeans
<1>5. QED
  BY <1>3, <1>4 DEF Deletion, Gain

LEMMA ExecutionMeans ==
  ASSUME BookInv, ReplayInv, NEW message \in Messages, Execution(message)
  PROVE  SuccessMeans
<1> DEFINE n == IF Reduces(message) THEN 1 ELSE 0
           counted == Event("executions")
           sized == Gain(counted, "executed_quantity", message.size)
<1>1. /\ counted \in Summary
      /\ \A d \in Watched : counted[d] = summary[d] /\ summary[d] \in Int
  BY EventWatched DEF ReplayInv, Types
<1>2. summary' = Gain(sized, "successful_execution_reductions", n)
  BY DEF Execution, CountExecution, Gain
<1>3. /\ n \in Int /\ (n = 0 <=> ~Reduces(message)) /\ n \in {0, 1}
      /\ message.size \in Int /\ RestingQuantity \in Int
      /\ reduce_order(message.order_id, message.size)
  BY ReduceMeans DEF Execution
<1>4. /\ "executed_quantity" \in Counters \cap Watched
      /\ "successful_execution_reductions" \in Counters \cap Watched
      /\ "successful_cancels" \in Watched
  BY DEF Counters, Watched
<1> HIDE DEF n, counted
<1>5. /\ sized \in Summary
      /\ sized.executed_quantity = summary.executed_quantity + message.size
      /\ \A d \in Watched : d # "executed_quantity" => sized[d] = summary[d]
  <2>1. sized \in Summary
    BY <1>1, <1>3, <1>4, GainMembers
  <2>2. QED
    BY <1>1, <1>3, <1>4, <2>1, GainWatched
<1> HIDE DEF sized
<1>6. /\ summary'.successful_execution_reductions
           = sized.successful_execution_reductions + n
      /\ summary'.executed_quantity = sized.executed_quantity
      /\ summary'.successful_cancels = sized.successful_cancels
  BY <1>2, <1>3, <1>4, <1>5, GainWatched
<1>7. /\ summary'.successful_execution_reductions
           = summary.successful_execution_reductions + n
      /\ summary'.executed_quantity = summary.executed_quantity + message.size
      /\ summary'.successful_cancels = summary.successful_cancels
      /\ summary.successful_execution_reductions \in Int
      /\ summary.executed_quantity \in Int
      /\ summary.successful_cancels \in Int
  BY <1>1, <1>4, <1>5, <1>6
<1>8. CASE ~Reduces(message)
  <2>1. UNCHANGED bookVars
    BY <1>3, <1>8, ReduceMeans
  <2>2. QED
    BY <1>1, <1>3, <1>7, <1>8, <2>1, NoSuccess DEF Watched
<1>9. CASE Reduces(message)
  <2>1. /\ message.size > 0
        /\ RestingQuantity' = RestingQuantity - message.size
    BY <1>3, <1>9, ReduceMeans
  <2>2. /\ RestingQuantity' < RestingQuantity
        /\ RestingQuantity - RestingQuantity' =
             summary'.executed_quantity - summary.executed_quantity
    BY <1>3, <1>7, <2>1
  <2>3. QED
    BY <1>3, <1>7, <1>9, <2>2 DEF SuccessMeans
<1>10. QED
  BY <1>8, <1>9

LEMMA StepMeans ==
  ASSUME BookInv, ReplayInv, [ReplayNext]_<<vars, replayVars>>,
         pc = "idle", pc' = "idle", status' # "thrown"
  PROVE  SuccessMeans
<1>1. \A d \in Watched : summary[d] \in Int
  BY DEF ReplayInv, Summary, Watched, Counters
<1>2. ASSUME NEW message \in Messages, NewOrder(message)
      PROVE  SuccessMeans
  <2> DEFINE o == [id |-> message.order_id, price |-> message.price,
                   side |-> lobster_direction_to_side(message.direction),
                   quantity |-> message.size]
  <2>1. ~AddOrder(o)
    BY DEF AddOrder
  <2>2. RejectOrder(o) /\ summary' = Event("new_orders")
    BY <1>2, <2>1 DEF NewOrder
  <2>3. \A d \in Watched : summary'[d] = summary[d]
    BY <2>2, EventWatched DEF ReplayInv, Types
  <2>4. UNCHANGED bookVars
    BY <2>2 DEF RejectOrder, vars
  <2>5. QED
    BY <1>1, <2>3, <2>4, NoSuccess
<1>3. ASSUME NEW message \in Messages, Skipped(message)
      PROVE  SuccessMeans
  <2>1. PICK c \in Types : summary' = Event(c)
    BY <1>3 DEF Skipped, Types
  <2>2. \A d \in Watched : summary'[d] = summary[d]
    BY <2>1, EventWatched DEF ReplayInv
  <2>3. UNCHANGED bookVars
    BY <1>3 DEF Skipped, vars
  <2>4. QED
    BY <1>1, <2>2, <2>3, NoSuccess
<1>4. CASE Return \/ UNCHANGED <<vars, replayVars>>
  <2>1. UNCHANGED bookVars /\ summary' = summary
    BY <1>4 DEF Return, vars, replayVars
  <2>2. QED
    BY <1>1, <2>1, NoSuccess
<1>5. ~NewOrderMatches /\ ~NewOrderReturns
  BY MatchingAddsNone DEF NewOrderReturns, ReturnFilled, RestRemainder
<1>6. ~Throw
  BY DEF Throw
<1>7. QED
  BY <1>2, <1>3, <1>4, <1>5, <1>6, PartialCancelMeans, DeletionMeans,
     ExecutionMeans DEF ReplayNext, Apply

(* Whatever the messages are, a success is counted exactly when the book   *)
(* loses quantity, and an execution that succeeds takes out what it says.  *)
THEOREM SuccessesAreReal == ReplaySpec => SuccessCounted
<1> DEFINE means == pc = "idle" /\ pc' = "idle" /\ status' # "thrown" =>
                      SuccessMeans
<1>1. BookInv /\ ReplayInv /\ [ReplayNext]_<<vars, replayVars>>
        => [means]_<<vars, replayVars>>
  BY StepMeans
<1>2. means <=> (pc = "idle" /\ pc' = "idle" /\ status' # "thrown" =>
       LET successes == summary.successful_cancels
                          + summary.successful_execution_reductions
       IN  /\ successes' = successes => UNCHANGED bookVars
           /\ successes' > successes => RestingQuantity' < RestingQuantity
           /\ summary'.successful_execution_reductions
                > summary.successful_execution_reductions =>
              RestingQuantity - RestingQuantity' =
                summary'.executed_quantity - summary.executed_quantity)
  BY DEF SuccessMeans
<1>3. QED
  BY <1>1, <1>2, ReplayKeepsBookSound, ReplayAccounts, PTL
     DEF ReplaySpec, SuccessCounted
=============================================================================
