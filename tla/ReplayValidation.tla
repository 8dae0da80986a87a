------------------------- MODULE ReplayValidation --------------------------
(***************************************************************************)
(* validate_lobster_replay: replays a message file from an empty book and  *)
(* compares a snapshot of the book, after every message, with the row of   *)
(* the order-book file that goes with it.                                  *)
(*                                                                         *)
(* The message is applied before its row is parsed.  pending is the line   *)
(* of the order-book file in between: a row as LobsterBookRow returns it,  *)
(* or BadLine when the parser throws.                                      *)
(***************************************************************************)
EXTENDS LobsterReplay

CONSTANTS
  Depths,      \* depths a caller may ask for
  UsedOrders,  \* orders a caller may have added to the book before
  MaxUsed      \* bound of the model: how many of them came to rest

ASSUME DepthsAssumption == Depths \subseteq Nat
ASSUME UsedAssumption == UsedOrders \subseteq Order /\ MaxUsed \in Nat

VARIABLES
  depth,      \* the argument
  pending,    \* the order-book line that is to be parsed and compared
  validation  \* LobsterValidationSummary, but for its member replay: summary

validationVars == <<depth, pending, validation>>

J == INSTANCE TransitionJudgement

NoLine == <<>>                    \* pending, between two rows
BadLine == [illegible |-> TRUE]   \* a line that is no row

(* What a row shows, of whatever lengths and numbers its sides are.        *)
Shown == [price : Int, quantity : Int]
BookRow == [bids : Seq(Shown), asks : Seq(Shown)]

NoMismatch == <<>>

EmptyValidation ==
  [rows_compared |-> 0, matching_rows |-> 0, mismatching_rows |-> 0,
   missing_level_mismatches |-> 0, price_mismatches |-> 0,
   quantity_mismatches |-> 0, first_mismatch |-> NoMismatch]

----------------------------------------------------------------------------
(* The book the caller passes may have been used: there may be orders in   *)
(* it, or none any more and slots to use again.  The book that the program *)
(* lob_lobster_validate passes is a new one.                               *)
CallerUses ==
  /\ status = "called"
  /\ \/ CallStep
     \/ clock < MaxUsed /\ \E o \in UsedOrders : AddOrder(o)
     \/ \E id \in Ids : CancelOrder(id)
  /\ UNCHANGED <<replayVars, validationVars>>

(* Bug: any book is taken.                                                 *)
AcceptsAnyBook == depth > 0

Accepts == depth > 0 /\ order_count = 0

Start ==
  /\ status = "called"
  /\ pc = "idle"
  /\ status' = IF Accepts THEN "reading" ELSE "refused"
  /\ UNCHANGED <<vars, summary, validationVars>>

(* A line of each file is read, and the message is applied.                *)
ReadPair(message, line) ==
  /\ pending = NoLine
  /\ Apply(message)
  /\ pending' = line
  /\ UNCHANGED <<depth, validation>>

ApplySubmission ==
  /\ status = "reading"
  /\ NewOrderMatches \/ NewOrderReturns
  /\ UNCHANGED validationVars

(* The message does not parse, or one of the files has ended.              *)
ThrowOnMessage ==
  /\ pending = NoLine
  /\ Throw
  /\ validation' = EmptyValidation
  /\ UNCHANGED <<depth, pending>>

(* The row does not parse: its message stays applied.                      *)
ThrowOnRow ==
  /\ pending = BadLine
  /\ pc = "idle"
  /\ status' = "thrown"
  /\ summary' = EmptySummary
  /\ validation' = EmptyValidation
  /\ pending' = NoLine
  /\ UNCHANGED <<vars, depth>>

ReturnSummary ==
  /\ pending = NoLine
  /\ Return
  /\ UNCHANGED validationVars

----------------------------------------------------------------------------
(* compare_lobster_side counts and remembers as compare_transition_side.   *)

(* Bug: levels that only one of the two has are not looked at.             *)
compare_lobster_side_shared(side, expected, actual) ==
  LET shared == Min({Len(expected), Len(actual)})
  IN  J!Comparison(side, SubSeq(expected, 1, shared), SubSeq(actual, 1, shared))

compare_lobster_side(side, expected, actual) ==
  J!Comparison(side, expected, actual)

(* Bug: the second side goes before the first.                             *)
MismatchAtSecond(bids, asks) ==
  LET first == IF J!Agrees(asks) THEN bids ELSE asks
  IN  [row |-> validation.rows_compared + 1, side |-> first.side,
       level |-> first.first]

(* The first of two sides that differ.                                     *)
MismatchAt(bids, asks) ==
  LET first == IF J!Agrees(bids) THEN asks ELSE bids
  IN  [row |-> validation.rows_compared + 1, side |-> first.side,
       level |-> first.first]

RowAgrees(bids, asks) == J!Agrees(bids) /\ J!Agrees(asks)

first_mismatch(bids, asks) ==
  IF RowAgrees(bids, asks) \/ validation.first_mismatch # NoMismatch
  THEN validation.first_mismatch ELSE MismatchAt(bids, asks)

(* Bug: each side of a row that differs is counted as a row.               *)
RowsWrongBySide(bids, asks) == Cardinality({c \in {bids, asks} : ~J!Agrees(c)})

RowsWrong(bids, asks) == IF RowAgrees(bids, asks) THEN 0 ELSE 1

CompareRow ==
  LET actual == snapshot(depth)
      bids == compare_lobster_side("bids", pending.bids, actual.bids)
      asks == compare_lobster_side("asks", pending.asks, actual.asks)
  IN  /\ pending \notin {NoLine, BadLine}
      /\ pc = "idle"
      /\ validation' = [validation EXCEPT
           !.rows_compared = @ + 1,
           !.matching_rows = @ + IF RowAgrees(bids, asks) THEN 1 ELSE 0,
           !.mismatching_rows = @ + RowsWrong(bids, asks),
           !.missing_level_mismatches = @ + bids.missing + asks.missing,
           !.price_mismatches = @ + bids.prices + asks.prices,
           !.quantity_mismatches = @ + bids.quantities + asks.quantities,
           !.first_mismatch = first_mismatch(bids, asks)]
      /\ pending' = NoLine
      /\ UNCHANGED <<vars, replayVars, depth>>

----------------------------------------------------------------------------
ValidationInit ==
  /\ Init
  /\ status = "called"
  /\ summary = EmptySummary
  /\ depth \in Depths
  /\ pending = NoLine
  /\ validation = EmptyValidation

(* The steps that do not depend on what the files hold.                    *)
ValidationStep ==
  \/ CallerUses
  \/ Start
  \/ ApplySubmission
  \/ CompareRow
  \/ ThrowOnMessage
  \/ ThrowOnRow
  \/ ReturnSummary

(* The files are external: any messages, and any rows and illegible lines, *)
(* whether or not they have to do with each other.                         *)
ReadFiles ==
  \E message \in Messages, line \in BookRow \cup {BadLine} :
    ReadPair(message, line)

ValidationNext == ReadFiles \/ ValidationStep

ValidationSpec ==
  ValidationInit /\ [][ValidationNext]_<<vars, replayVars, validationVars>>

(* What lob_lobster_validate returns to its shell.                         *)
exit_status ==
  IF status # "returned" THEN 1
  ELSE IF validation.mismatching_rows = 0 THEN 0 ELSE 2

----------------------------------------------------------------------------
(* Properties.                                                             *)

(* A row is counted as matching exactly when it shows, level for level,    *)
(* the orders that rest in the book after its message: not one of them may *)
(* be missing, nor their sum be wrong, nor a level stand at another place. *)
VerdictExact ==
  [][validation'.rows_compared > validation.rows_compared =>
       (validation'.matching_rows > validation.matching_rows <=>
          /\ ViewOf("Buy", pending.bids, depth)
          /\ ViewOf("Sell", pending.asks, depth))
    ]_<<vars, replayVars, validationVars>>

(* The counters tell one story: every message that was applied had its row *)
(* compared, once (but for the last, while it waits for its row); and rows *)
(* that mismatch, levels that differ and a first mismatch come together.   *)
ValidationConsistent ==
  LET v == validation
      differences == v.missing_level_mismatches + v.price_mismatches
                       + v.quantity_mismatches
  IN  /\ summary.events_processed =
           v.rows_compared + IF pending = NoLine THEN 0 ELSE 1
      /\ v.rows_compared = v.matching_rows + v.mismatching_rows
      /\ v.mismatching_rows <= differences
      /\ v.first_mismatch = NoMismatch <=> differences = 0
      /\ v.first_mismatch = NoMismatch <=> v.mismatching_rows = 0

(* The mismatch that is reported is that of the first row that did not     *)
(* match, however many rows go wrong after it; and the first of that row:  *)
(* the place where the row is wrong, with everything before it right.      *)
FirstRowKept ==
  [][validation'.first_mismatch # validation.first_mismatch
       /\ status' # "thrown" =>
       LET first == validation'.first_mismatch
           actual == snapshot(depth)
       IN  /\ validation.mismatching_rows = 0
           /\ first.row = validation'.rows_compared
           /\ IF pending.bids # actual.bids
              THEN /\ first.side = "bids"
                   /\ J!FirstDifference(pending.bids, actual.bids, first.level)
              ELSE /\ first.side = "asks"
                   /\ J!FirstDifference(pending.asks, actual.asks, first.level)
    ]_<<vars, replayVars, validationVars>>
=============================================================================
