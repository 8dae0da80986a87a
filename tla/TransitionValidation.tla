------------------------ MODULE TransitionValidation ------------------------
(***************************************************************************)
(* validate_lobster_transitions: reads a message file and an order-book    *)
(* file side by side, and judges every row after the first one against the *)
(* row before it.  Lines that do not parse, and files of different         *)
(* lengths, end in an exception.  So does a depth of 0, before a line is   *)
(* read: DepthAssumption leaves that call out.                             *)
(***************************************************************************)
EXTENDS TransitionJudgement

CONSTANTS
  Rows,      \* rows the order-book file may hold
  Messages,  \* messages the message file may hold
  MaxRows    \* bound of the model: length of the files

ASSUME MaxRowsAssumption == MaxRows \in Nat
ASSUME RowsAssumption ==
  /\ Rows \subseteq [BookSide -> Seq(Level)]
  /\ \A row \in Rows, side \in BookSide : /\ IsLadder(side, row[side])
                                          /\ Len(row[side]) <= depth
ASSUME MessagesAssumption ==
  Messages \subseteq [type : Int, direction : Int, price : Int, size : Int]

VARIABLES
  status,          \* "reading", "returned" or "thrown"
  previous,        \* the row before, NoRow before the first
  s,               \* the summary
  m,               \* message of the last row that was judged
  classification,  \* and how it was judged
  row_before       \* history: the order-book file's row before that one

vars == <<status, previous, s, m, classification, row_before>>

NoRow == <<>>
NoMessage == <<>>

----------------------------------------------------------------------------
(* The summary.                                                            *)

NoMismatch == <<>>

EmptySummary ==
  [rows_read |-> 0, baseline_rows |-> 0, transitions_checked |-> 0,
   matching |-> 0, mismatching |-> 0, unsupported |-> 0, unverifiable |-> 0,
   opposite_side_changes |-> 0, missing_event_price_levels |-> 0,
   quantity_underflows |-> 0, tail_refill_transitions |-> 0,
   price_mismatches |-> 0, quantity_mismatches |-> 0,
   missing_level_mismatches |-> 0, first_mismatch |-> NoMismatch]

(* Bug: of the differences of a row, the last one is kept.                 *)
FirstOfReversed(comparisons) ==
  LET wrong == {i \in DOMAIN comparisons : ~Agrees(comparisons[i])}
      first == comparisons[Max(wrong)]
  IN  IF wrong = {} THEN NoMismatch
      ELSE [row |-> s.rows_read + 1, side |-> first.side, level |-> first.first]

FirstOf(comparisons) ==
  LET wrong == {i \in DOMAIN comparisons : ~Agrees(comparisons[i])}
      first == comparisons[Min(wrong)]
  IN  IF wrong = {} THEN NoMismatch
      ELSE [row |-> s.rows_read + 1, side |-> first.side, level |-> first.first]

(* Bug: each mismatch replaces the one before it.                          *)
CapturedLatest(comparisons) ==
  LET first == FirstOf(comparisons)
  IN  IF first = NoMismatch THEN s.first_mismatch ELSE first

(* capture_transition_mismatch: the first mismatch of all is the one that  *)
(* is kept.                                                                *)
Captured(comparisons) ==
  IF s.first_mismatch = NoMismatch THEN FirstOf(comparisons)
  ELSE s.first_mismatch

(* What a judgement adds to the counters of the summary.                   *)
Counted(j) ==
  LET total(Part(_)) ==
        SumFunction([i \in DOMAIN j.comparisons |-> Part(j.comparisons[i])])
      once(name) == IF name \in j.counted THEN 1 ELSE 0
      is(class) == IF j.classification = class THEN 1 ELSE 0
  IN  [s EXCEPT
        !.rows_read = @ + 1,
        !.transitions_checked = @ + 1,
        !.matching = @ + is("Matching"),
        !.mismatching = @ + is("Mismatching"),
        !.unsupported = @ + is("Unsupported"),
        !.unverifiable = @ + is("Unverifiable"),
        !.opposite_side_changes = @ + once("opposite_side_changes"),
        !.missing_event_price_levels = @ + once("missing_event_price_levels"),
        !.quantity_underflows = @ + once("quantity_underflows"),
        !.tail_refill_transitions = @ + once("tail_refill_transitions"),
        !.price_mismatches = @ + total(LAMBDA c : c.prices),
        !.quantity_mismatches = @ + total(LAMBDA c : c.quantities),
        !.missing_level_mismatches = @ + total(LAMBDA c : c.missing),
        !.first_mismatch = Captured(j.comparisons)]

----------------------------------------------------------------------------
Init ==
  /\ status = "reading"
  /\ previous = NoRow
  /\ s = EmptySummary
  /\ m = NoMessage
  /\ classification = "none"
  /\ row_before = NoRow

(* The first row has nothing before it and is taken as it is.              *)
ReadBaseline(current) ==
  /\ status = "reading"
  /\ s.rows_read < MaxRows
  /\ previous = NoRow
  /\ \E message \in Messages : Meaningful(message)
  /\ previous' = current
  /\ row_before' = current
  /\ s' = [s EXCEPT !.rows_read = 1, !.baseline_rows = 1]
  /\ UNCHANGED <<status, m, classification>>

Judged(message, current) ==
  LET j == Judge(message, previous, current)
  IN  /\ status = "reading"
      /\ s.rows_read < MaxRows
      /\ previous # NoRow
      /\ Meaningful(message)
      /\ s' = Counted(j)
      /\ m' = message
      /\ classification' = j.classification
      /\ row_before' = current
      /\ UNCHANGED status

(* Bug: a row that does not match its message is not a baseline either.    *)
CheckTransitionStale(message, current) ==
  /\ Judged(message, current)
  /\ previous' = IF classification' = "Mismatching" THEN previous ELSE current

CheckTransition(message, current) ==
  /\ Judged(message, current)
  /\ previous' = current

(* A line of either file does not parse, a message makes no sense, or one  *)
(* file ends before the other: the summary is lost with the exception.     *)
Throw ==
  /\ status = "reading"
  /\ status' = "thrown"
  /\ UNCHANGED <<previous, s, m, classification, row_before>>

Return ==
  /\ status = "reading"
  /\ status' = "returned"
  /\ UNCHANGED <<previous, s, m, classification, row_before>>

Next ==
  \/ \E current \in Rows :
       \/ ReadBaseline(current)
       \/ \E message \in Messages : CheckTransition(message, current)
  \/ Throw
  \/ Return

Spec == Init /\ [][Next]_vars

(* What lob_lobster_transition_validate returns to its shell.              *)
exit_status ==
  IF status # "returned" THEN 1 ELSE IF s.mismatching = 0 THEN 0 ELSE 2

----------------------------------------------------------------------------
(* Properties of the summary.                                              *)

(* The summary is what its reader takes it for: every transition has one   *)
(* classification, and "no mismatch" and "nothing differed" are the same,  *)
(* so that neither a mismatch without a reason nor a difference without a  *)
(* mismatch is ever reported, and an exit status of 0 means that there was *)
(* none.                                                                   *)
SummaryConsistent ==
  /\ s.rows_read = s.baseline_rows + s.transitions_checked
  /\ s.transitions_checked =
       s.matching + s.mismatching + s.unsupported + s.unverifiable
  /\ s.mismatching = 0 <=> s.first_mismatch = NoMismatch
  /\ s.mismatching = 0 =>
       s.opposite_side_changes + s.quantity_underflows + s.price_mismatches
         + s.quantity_mismatches + s.missing_level_mismatches = 0
  /\ s.mismatching <= s.opposite_side_changes + s.quantity_underflows
                       + s.price_mismatches + s.quantity_mismatches
                       + s.missing_level_mismatches + s.missing_event_price_levels
  /\ s.tail_refill_transitions <= s.unverifiable
  /\ exit_status = 0 <=> status = "returned" /\ s.first_mismatch = NoMismatch

(* What a message makes of the visible levels of its own side.             *)
Predicted(message, levels) ==
  LET at == PlaceOf(message.price, levels)
  IN  IF message.type = 1 THEN Submitted(message, levels)
      ELSE IF at = 0 THEN levels
      ELSE IF message.size < levels[at].quantity THEN Reduced(message, levels)
      ELSE RemoveAt(levels, at)

(* A reduction that the row before contradicts: of a level that is not     *)
(* there (place 0), or of more than its level has.                         *)
Contradicted(message, levels) ==
  LET at == PlaceOf(message.price, levels)
  IN  /\ message.type \in 2 .. 4
      /\ IF at = 0
         THEN ~is_potentially_off_depth(SideOf(message), message.price, levels)
         ELSE message.size > levels[at].quantity

(* The first place of a transition that is wrong.  A change of the side    *)
(* that the message is not about comes first, then a contradiction, then   *)
(* the first level that is not as the message has it.                      *)
FirstPlace(place, message, before, current) ==
  LET side == SideOf(message)
      other == OppositeOf(message)
      first == IF message.type = 5
               THEN IF before.bids # current.bids THEN "bids" ELSE "asks"
               ELSE IF before[other] # current[other] THEN other ELSE side
      expected == IF message.type = 5 \/ first = other THEN before[first]
                  ELSE Predicted(message, before[first])
  IN  /\ place.side = first
      /\ IF message.type # 5 /\ first = side /\ Contradicted(message, before[side])
         THEN place.level = PlaceOf(message.price, before[side])
         ELSE FirstDifference(expected, current[first], place.level)

(* first_mismatch is about the first transition that did not match, and    *)
(* about the first place of its row that is wrong, however many are; and   *)
(* no later one replaces it.                                               *)
FirstMismatchKept ==
  [][s'.first_mismatch # s.first_mismatch =>
       /\ s.mismatching = 0
       /\ s'.mismatching = 1
       /\ s'.first_mismatch.row = s'.rows_read
       /\ FirstPlace(s'.first_mismatch, m', row_before, row_before')]_vars
=============================================================================
