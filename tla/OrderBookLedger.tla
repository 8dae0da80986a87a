-------------------------- MODULE OrderBookLedger --------------------------
(***************************************************************************)
(* The order book with a ledger kept beside it: history variables that add *)
(* up what callers put in, what trades and cancellations took out, and the *)
(* most orders that ever rested at once.  They observe the book and never  *)
(* guard a step of it.                                                     *)
(***************************************************************************)
EXTENDS OrderBook

VARIABLES
  accepted,   \* quantity of all accepted orders
  traded,     \* quantity of all trades
  withdrawn,  \* quantity cancelled or reduced away
  peak        \* the most resting orders at any time so far

ledger == <<accepted, traded, withdrawn, peak>>

----------------------------------------------------------------------------
LedgerInit ==
  /\ Init
  /\ accepted = 0 /\ traded = 0 /\ withdrawn = 0 /\ peak = 0

Accepting ==
  /\ \E o \in Order : AddOrder(o) /\ accepted' = accepted + o.quantity
  /\ UNCHANGED <<traded, withdrawn, peak>>

Trading ==
  /\ FillPart \/ FillWhole
  /\ traded' = traded + Last(trades').quantity
  /\ UNCHANGED <<accepted, withdrawn, peak>>

Resting ==
  /\ RestRemainder
  /\ peak' = Max({peak, Cardinality(DOMAIN order_location')})
  /\ UNCHANGED <<accepted, traded, withdrawn>>

Withdrawing ==
  /\ \/ \E id \in Ids : CancelOrder(id) /\ withdrawn' = withdrawn + Slot(id).quantity
     \/ \E id \in Ids, quantity \in Quantities :
          /\ ReduceOrder(id, quantity) \/ ReduceToNothing(id, quantity)
          /\ withdrawn' = withdrawn + quantity
  /\ UNCHANGED <<accepted, traded, peak>>

Other ==
  /\ \/ MatchLevel \/ EndLevel \/ ReturnFilled
     \/ \E o \in Order : RejectOrder(o)
     \/ \E id \in Ids : CancelMissing(id)
     \/ \E id \in Ids, quantity \in Quantities : ReduceRefused(id, quantity)
  /\ UNCHANGED ledger

LedgerNext == Accepting \/ Trading \/ Resting \/ Withdrawing \/ Other

LedgerSpec == LedgerInit /\ [][LedgerNext]_<<vars, ledger>>

----------------------------------------------------------------------------
(* No quantity appears or disappears: whatever was accepted has traded     *)
(* (each trade uses up as much of a resting order as of the incoming one), *)
(* was withdrawn, rests in the book or is still being matched.             *)
QuantityConserved ==
  accepted = 2 * traded + withdrawn + RestingQuantity + remaining

(* The pool never outgrows its use: released slots are used again before a *)
(* new one is made, so it is as long as the book was ever full.            *)
PoolIsHighWaterMark == Len(pool) = peak
=============================================================================
