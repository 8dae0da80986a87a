----------------------------- MODULE PairedFeed -----------------------------
(***************************************************************************)
(* The two validators on the pair of files they are made for.  An exchange *)
(* keeps a market of orders that do not cross; for everything that happens *)
(* in it the feed has a message and a row with the best levels after it.   *)
(* Orders may rest before the first row, whose submissions the feed does   *)
(* not have, and a pair of lines may be lost from both files.              *)
(*                                                                         *)
(* The exchange is external.  The replay validator follows the messages    *)
(* with its book.  The transition validator, which reads the same lines,   *)
(* keeps the row before; what it counts is left to TransitionValidation.   *)
(***************************************************************************)
EXTENDS ReplayValidation

CONSTANTS
  MaxEarlier,  \* bound of the model: orders that rest before the first row
  MaxGaps      \* bound of the model: rows before which something was lost

ASSUME BoundsAssumption == MaxEarlier \in Nat /\ MaxGaps \in Nat

VARIABLES
  market,         \* order id -> order; seen: its submission is in the feed
  gaps,           \* history: rows before which the feed lacks something
  previous,       \* of the transition validator: the row before
  classification  \* and what it says of the last row

exchangeVars == <<market, gaps>>
transitionVars == <<previous, classification>>
feedVars == <<exchangeVars, transitionVars>>
allVars == <<vars, replayVars, validationVars, feedVars>>

NoRow == <<>>

Listed == [side : Side, price : Prices, quantity : Quantities, seen : BOOLEAN]

----------------------------------------------------------------------------
(* The exchange.                                                           *)

NotCrossing(orders) ==
  \A i, j \in DOMAIN orders :
    orders[i].side # orders[j].side => ~Crosses(orders[i], orders[j].price)

ShownSide(side, orders) ==
  LET at(p) == {id \in DOMAIN orders : orders[id].side = side /\ orders[id].price = p}
      quantities == [id \in DOMAIN orders |-> orders[id].quantity]
      prices == InMapOrder(side, {p \in Prices : at(p) # {}})
  IN  [i \in 1 .. Min({depth, Len(prices)}) |->
         [price |-> prices[i],
          quantity |-> SumFunctionOnSet(quantities, at(prices[i]))]]

Row(orders) == [bids |-> ShownSide("Buy", orders), asks |-> ShownSide("Sell", orders)]

(* The market after a message, in which seen tells whether the feed has it.*)
Happened(message, seen) ==
  LET id == message.order_id
  IN  IF message.type = 1
      THEN Insert(market, id,
             [side     |-> lobster_direction_to_side(message.direction),
              price    |-> message.price,
              quantity |-> message.size,
              seen     |-> seen])
      ELSE IF message.type \notin 2 .. 4 THEN market
      ELSE IF message.size = market[id].quantity THEN Erase(market, id)
      ELSE [market EXCEPT ![id].quantity = @ - message.size]

(* A message about an order names its side and price; a partial cancel     *)
(* (type 2) leaves something of it, a deletion (3) nothing.  Whatever comes*)
(* or goes has a size.                                                     *)
About(message, o) ==
  /\ message.direction \in {1, -1}
  /\ lobster_direction_to_side(message.direction) = o.side
  /\ message.price = o.price
  /\ CASE message.type = 2 -> message.size < o.quantity
       [] message.type = 3 -> message.size = o.quantity
       [] message.type = 4 -> message.size <= o.quantity

CanHappen(message) ==
  CASE message.type = 1 -> /\ message.size > 0
                           /\ message.order_id \notin DOMAIN market
                           /\ NotCrossing(Happened(message, TRUE))
    [] message.type \in 2 .. 4 -> /\ message.size > 0
                                  /\ message.order_id \in DOMAIN market
                                  /\ About(message, market[message.order_id])
    [] message.type \in 5 .. 7 -> TRUE
    [] OTHER -> FALSE

----------------------------------------------------------------------------
(* validate_lobster_transitions: what it does with a line of each file.    *)

(* The first row has nothing before it and is taken as it is.              *)
ReadBaseline(message, row) ==
  /\ J!Meaningful(message)
  /\ previous = NoRow
  /\ previous' = row
  /\ UNCHANGED classification

Judged(message, row) ==
  /\ J!Meaningful(message)
  /\ previous # NoRow
  /\ classification' = J!Judge(message, previous, row).classification

(* Bug: a row that does not match its message is not a baseline either.    *)
CheckTransitionStale(message, row) ==
  /\ Judged(message, row)
  /\ previous' = IF classification' = "Mismatching" THEN previous ELSE row

CheckTransition(message, row) ==
  /\ Judged(message, row)
  /\ previous' = row

(* An illegible row ends it with an exception, as it ends the other one.   *)
TransitionStep(message, line) ==
  IF line = BadLine THEN UNCHANGED transitionVars
  ELSE ReadBaseline(message, line) \/ CheckTransition(message, line)

----------------------------------------------------------------------------
NextRow == validation.rows_compared + 1

(* The exchange writes a pair of lines, of which the row may be illegible, *)
(* and each validator, when it wants the next pair, reads it.              *)
FeedPair(message) ==
  /\ ReadsRow
  /\ pending = NoLine
  /\ CanHappen(message)
  /\ market' = Happened(message, TRUE)
  /\ UNCHANGED gaps
  /\ \E line \in {Row(market'), BadLine} :
       ReadPair(message, line) /\ TransitionStep(message, line)

(* Something happens that neither file tells of.                           *)
LosePair(message) ==
  /\ ReadsRow
  /\ pending = NoLine
  /\ message.type \in 1 .. 4
  /\ CanHappen(message)
  /\ market' = Happened(message, FALSE)
  /\ gaps' = gaps \cup {NextRow}
  /\ Cardinality(gaps') <= MaxGaps
  /\ NextRow \notin gaps
  /\ UNCHANGED <<vars, replayVars, validationVars, transitionVars>>

FeedInit ==
  /\ ValidationInit
  /\ \E earlier \in SUBSET Ids :
       /\ IsFiniteSet(earlier) /\ Cardinality(earlier) <= MaxEarlier
       /\ market \in {orders \in [earlier -> Listed] :
            /\ NotCrossing(orders)
            /\ \A id \in earlier : orders[id].quantity > 0 /\ ~orders[id].seen}
  /\ gaps = IF market = EmptyMap THEN {} ELSE {1}
  /\ previous = NoRow
  /\ classification = "none"

FeedNext ==
  \/ \E message \in Messages : FeedPair(message) \/ LosePair(message)
  \/ ValidationStep /\ UNCHANGED feedVars

FeedSpec == FeedInit /\ [][FeedNext]_allVars

----------------------------------------------------------------------------
(* Properties.                                                             *)

(* As long as the feed lacks nothing but what came before its first row,   *)
(* the book is the part of the market that the feed has told of, order for *)
(* order and with what is left of each: executions are applied once, not   *)
(* matched again, and a message about an earlier order does no harm.  It   *)
(* stays so when the replay ends with an exception, the message of an      *)
(* illegible row being applied.                                            *)
MirrorsExchange ==
  pc = "idle" /\ gaps \subseteq {1} /\ status \notin {"called", "refused"} =>
    /\ DOMAIN order_location = {id \in DOMAIN market : market[id].seen}
    /\ \A id \in DOMAIN order_location :
         /\ Slot(id).side = market[id].side
         /\ Slot(id).price = market[id].price
         /\ Slot(id).quantity = market[id].quantity

(* The replay validator raises no false alarm: a mismatch never comes      *)
(* before something was missing, and a feed that lacks nothing ends with   *)
(* exit status 0.                                                          *)
NoFalseAlarm ==
  /\ validation.first_mismatch # NoMismatch =>
       \E row \in gaps : row <= validation.first_mismatch.row
  /\ status = "returned" /\ gaps = {} => exit_status = 0

(* The transition validator accepts every row that comes right after the   *)
(* one before it, whatever rested before the feed began and whatever was   *)
(* lost earlier; and it recovers from a loss at once.                      *)
TransitionsAccepted ==
  [][pending' # pending /\ classification' = "Mismatching" =>
       pending' \in {NoLine, BadLine} \/ NextRow \in gaps]_allVars
=============================================================================
