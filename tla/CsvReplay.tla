----------------------------- MODULE CsvReplay -----------------------------
(***************************************************************************)
(* replay_market_data: submits the orders of a market-data file to a book, *)
(* cancels those it says are cancelled, and adds up what that did.         *)
(*                                                                         *)
(* The file is external: after its header, any sequence of ADD and CANCEL  *)
(* lines over Order and of lines that do not parse.  Empty lines change    *)
(* nothing.  The book takes its own steps; the next line is read when the  *)
(* call for the line before has returned.                                  *)
(***************************************************************************)
EXTENDS OrderBook

CONSTANT MaxRows   \* bound of the model: lines applied

ASSUME MaxRowsAssumption == MaxRows \in Nat

VARIABLES
  status,    \* "reading", "returned" or "thrown"
  summary,   \* ReplaySummary
  submitted, \* history: quantity of the orders the book accepted
  cancelled  \* history: quantity cancelled while it rested

history == <<submitted, cancelled>>
replayVars == <<status, summary, history>>

EmptySummary ==
  [events_processed |-> 0, add_events |-> 0, cancel_events |-> 0,
   successful_cancels |-> 0, trades_generated |-> 0,
   total_traded_quantity |-> 0]

(* What the summary gains when add_order returns.                          *)
Added == [summary EXCEPT !.add_events = @ + 1,
                         !.trades_generated = @ + Len(trades),
                         !.total_traded_quantity = @ + TradedIn(trades)]

ReadsRow ==
  /\ status = "reading"
  /\ pc = "idle"
  /\ summary.events_processed < MaxRows

----------------------------------------------------------------------------
(* ADD: the order is submitted, ...                                        *)
Add(o) ==
  /\ ReadsRow
  /\ \/ /\ AddOrder(o)
        /\ summary' = [summary EXCEPT !.events_processed = @ + 1]
        /\ submitted' = submitted + o.quantity
     \/ /\ RejectOrder(o)
        /\ summary' = [Added EXCEPT !.events_processed = @ + 1]
        /\ UNCHANGED submitted
  /\ UNCHANGED <<status, cancelled>>

AddMatches ==
  /\ MatchLevel \/ FillPart \/ FillWhole \/ EndLevel
  /\ UNCHANGED replayVars

(* Bug: trades count only when the order does not come to rest.            *)
AddReturnsFilled ==
  /\ \/ ReturnFilled /\ summary' = Added
     \/ RestRemainder /\ summary' = [summary EXCEPT !.add_events = @ + 1]
  /\ UNCHANGED <<status, history>>

(* ... and its trades are added up when add_order returns them.            *)
AddReturns ==
  /\ ReturnFilled \/ RestRemainder
  /\ summary' = Added
  /\ UNCHANGED <<status, history>>

(* CANCEL: only the id of the line's order is looked at.                   *)
Cancel(o) ==
  /\ ReadsRow
  /\ \/ /\ CancelOrder(o.id)
        /\ summary' = [summary EXCEPT !.events_processed = @ + 1,
                                      !.cancel_events = @ + 1,
                                      !.successful_cancels = @ + 1]
        /\ cancelled' = cancelled + Slot(o.id).quantity
     \/ /\ CancelMissing(o.id)
        /\ summary' = [summary EXCEPT !.events_processed = @ + 1,
                                      !.cancel_events = @ + 1]
        /\ UNCHANGED cancelled
  /\ UNCHANGED <<status, submitted>>

(* A line of another form ends the replay: the book stays as the lines     *)
(* before made it, and the summary is lost with the exception.             *)
Throw ==
  /\ ReadsRow
  /\ status' = "thrown"
  /\ summary' = EmptySummary
  /\ UNCHANGED <<vars, history>>

Return ==
  /\ status = "reading"
  /\ pc = "idle"
  /\ status' = "returned"
  /\ UNCHANGED <<vars, summary, history>>

----------------------------------------------------------------------------
(* The code takes a book in any state.  This one starts empty, as it does  *)
(* for every caller in the repository (main and the tests).              *)
ReplayInit ==
  /\ Init
  /\ status = "reading"
  /\ summary = EmptySummary
  /\ submitted = 0 /\ cancelled = 0

ReplayNext ==
  \/ \E o \in Order : Add(o) \/ Cancel(o)
  \/ AddMatches
  \/ AddReturns
  \/ Throw
  \/ Return

ReplaySpec == ReplayInit /\ [][ReplayNext]_<<vars, replayVars>>

----------------------------------------------------------------------------
(* Properties.                                                             *)

(* The totals of the summary are those of the book: what its orders came   *)
(* with is twice what it says was traded (and what the running call is     *)
(* about to report), what it cancelled, and what is left; and every line   *)
(* is counted once.  Of a book that was not empty before, what was in it   *)
(* would have to be added to what was submitted.                           *)
TotalsAgree ==
  status # "thrown" =>
    /\ submitted = 2 * (summary.total_traded_quantity + TradedIn(trades))
                    + cancelled + RestingQuantity + remaining
    /\ summary.events_processed =
         summary.add_events + summary.cancel_events
           + IF pc = "idle" THEN 0 ELSE 1
=============================================================================
