--------------------------- MODULE LobsterReplay ---------------------------
(***************************************************************************)
(* replay_lobster_data: applies the messages of a LOBSTER message file to  *)
(* an order book, one row after the other, and counts what it did.         *)
(*                                                                         *)
(* The file is external: any sequence of Messages and of lines that do not *)
(* parse.  Empty lines are skipped by the code, and change nothing here.   *)
(* A submission is an add_order, and takes the steps of OrderBook; the     *)
(* next row is read when that call has returned.                           *)
(***************************************************************************)
EXTENDS OrderBook

CONSTANTS
  Messages,  \* messages the file may hold
  MaxRows    \* bound of the model: messages applied

ASSUME MaxRowsAssumption == MaxRows \in Nat
ASSUME MessagesAssumption ==
  Messages \subseteq [type : Int, order_id : Ids, size : Quantities,
                      price : Prices, direction : Int]

VARIABLES
  status,   \* "reading", "returned" or "thrown"
  summary   \* LobsterSummary

replayVars == <<status, summary>>

EmptySummary ==
  [events_processed |-> 0, new_orders |-> 0, partial_cancels |-> 0,
   deletions |-> 0, executions |-> 0, successful_execution_reductions |-> 0,
   hidden_executions |-> 0, cross_trades |-> 0, auxiliary |-> 0,
   successful_cancels |-> 0, executed_quantity |-> 0]

Event(counter) == [summary EXCEPT !.events_processed = @ + 1, ![counter] = @ + 1]

lobster_direction_to_side(direction) == IF direction = 1 THEN "Buy" ELSE "Sell"

ReadsRow ==
  /\ status = "reading"
  /\ pc = "idle"
  /\ summary.events_processed < MaxRows

reduce_order(id, quantity) ==
  ReduceOrder(id, quantity) \/ ReduceToNothing(id, quantity)
    \/ ReduceRefused(id, quantity)

Reduces(message) ==
  ReduceResult(message.order_id, message.size) \in {"Reduced", "Removed"}

----------------------------------------------------------------------------
(* apply_lobster_message, by type.                                         *)

(* Type 1: an order is submitted to the book, ...                          *)
NewOrder(message) ==
  LET o == [id |-> message.order_id, price |-> message.price,
            side |-> lobster_direction_to_side(message.direction),
            quantity |-> message.size]
  IN  /\ ReadsRow
      /\ message.type = 1
      /\ message.direction \in {1, -1}
      /\ \/ AddOrder(o) /\ summary' = [summary EXCEPT !.events_processed = @ + 1]
         \/ RejectOrder(o) /\ summary' = Event("new_orders")
      /\ UNCHANGED status

NewOrderMatches ==
  /\ MatchLevel \/ FillPart \/ FillWhole \/ EndLevel
  /\ UNCHANGED replayVars

(* Bug: an order that is filled at once is not counted.                    *)
NewOrderReturnsResting ==
  /\ \/ ReturnFilled /\ UNCHANGED summary
     \/ /\ RestRemainder
        /\ summary' = [summary EXCEPT !.new_orders = @ + 1]
  /\ UNCHANGED status

(* ... and counted when add_order returns, whose trades are not looked at. *)
NewOrderReturns ==
  /\ ReturnFilled \/ RestRemainder
  /\ summary' = [summary EXCEPT !.new_orders = @ + 1]
  /\ UNCHANGED status

(* Type 2.                                                                 *)
CountPartialCancel(message) ==
  /\ ReadsRow
  /\ message.type = 2
  /\ summary' = [Event("partial_cancels") EXCEPT
       !.successful_cancels = @ + IF Reduces(message) THEN 1 ELSE 0]
  /\ UNCHANGED status

(* Bug: the whole order is cancelled.                                      *)
PartialCancelWhole(message) ==
  /\ CountPartialCancel(message)
  /\ CancelOrder(message.order_id) \/ CancelMissing(message.order_id)

PartialCancel(message) ==
  /\ CountPartialCancel(message)
  /\ reduce_order(message.order_id, message.size)

(* Type 3: the whole order goes, whatever the size in the message.         *)
Deletion(message) ==
  /\ ReadsRow
  /\ message.type = 3
  /\ \/ /\ CancelOrder(message.order_id)
        /\ summary' = [Event("deletions") EXCEPT !.successful_cancels = @ + 1]
     \/ /\ CancelMissing(message.order_id)
        /\ summary' = Event("deletions")
  /\ UNCHANGED status

(* Type 4: executed_quantity counts what the message says, even when the   *)
(* order is not there.                                                     *)
CountExecution(message) ==
  /\ ReadsRow
  /\ message.type = 4
  /\ summary' = [Event("executions") EXCEPT
       !.executed_quantity = @ + message.size,
       !.successful_execution_reductions = @ + IF Reduces(message) THEN 1 ELSE 0]
  /\ UNCHANGED status

(* Bug: an execution is counted and its order is not reduced.              *)
ExecutionWithoutReduction(message) == CountExecution(message) /\ UNCHANGED vars

Execution(message) ==
  /\ CountExecution(message)
  /\ reduce_order(message.order_id, message.size)

(* Types 5, 6 and 7 are counted and leave the book alone.                  *)
Skipped(message) ==
  /\ ReadsRow
  /\ message.type \in 5 .. 7
  /\ summary' = Event(CASE message.type = 5 -> "hidden_executions"
                        [] message.type = 6 -> "cross_trades"
                        [] message.type = 7 -> "auxiliary")
  /\ UNCHANGED <<vars, status>>

(* An unknown type, a submission without a side and a line that does not   *)
(* parse end the replay with an exception: the book stays as the rows      *)
(* before made it, and the summary is lost.                                *)
Throw ==
  /\ ReadsRow
  /\ status' = "thrown"
  /\ summary' = EmptySummary
  /\ UNCHANGED vars

Return ==
  /\ status = "reading"
  /\ pc = "idle"
  /\ status' = "returned"
  /\ UNCHANGED <<vars, summary>>

----------------------------------------------------------------------------
(* The code takes a book in any state.  This one starts empty, as it does  *)
(* for every caller in the repository.                                     *)
ReplayInit ==
  /\ Init
  /\ status = "reading"
  /\ summary = EmptySummary

Apply(message) ==
  \/ NewOrder(message)
  \/ PartialCancel(message)
  \/ Deletion(message)
  \/ Execution(message)
  \/ Skipped(message)

ReplayNext ==
  \/ \E message \in Messages : Apply(message)
  \/ NewOrderMatches
  \/ NewOrderReturns
  \/ Throw
  \/ Return

ReplaySpec == ReplayInit /\ [][ReplayNext]_<<vars, replayVars>>

----------------------------------------------------------------------------
(* Properties.                                                             *)

(* Every row that was read is counted once under its type (a submission    *)
(* when its call has returned), and the book, which was empty before,      *)
(* never holds more orders than were submitted to it.                      *)
SummaryAccounted ==
  /\ summary.events_processed =
       summary.new_orders + summary.partial_cancels + summary.deletions
       + summary.executions + summary.hidden_executions
       + summary.cross_trades + summary.auxiliary
       + IF pc = "idle" THEN 0 ELSE 1
  /\ summary.successful_cancels <= summary.partial_cancels + summary.deletions
  /\ summary.successful_execution_reductions <= summary.executions
  /\ status # "thrown" => order_count <= summary.new_orders

(* Successes are counted for what they are: between two calls the book     *)
(* changes exactly when a success is counted, by losing quantity, and a    *)
(* successful execution takes out of it what executed_quantity gains.      *)
SuccessCounted ==
  [][pc = "idle" /\ pc' = "idle" /\ status' # "thrown" =>
       LET successes == summary.successful_cancels
                          + summary.successful_execution_reductions
       IN  /\ successes' = successes => UNCHANGED bookVars
           /\ successes' > successes => RestingQuantity' < RestingQuantity
           /\ summary'.successful_execution_reductions
                > summary.successful_execution_reductions =>
              RestingQuantity - RestingQuantity' =
                summary'.executed_quantity - summary.executed_quantity
    ]_<<vars, replayVars>>

(* As the README has it: "type 1 adds a visible resting order".            *)
NewOrderRests ==
  [][pc # "idle" /\ pc' = "idle" => order.id \in DOMAIN order_location'
    ]_<<vars, replayVars>>
=============================================================================
