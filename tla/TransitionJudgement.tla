------------------------ MODULE TransitionJudgement ------------------------
(***************************************************************************)
(* How validate_lobster_transitions judges one transition: whether a       *)
(* message explains how the visible levels changed from one row of the     *)
(* order-book file to the next.                                            *)
(*                                                                         *)
(* A row is what LobsterBookRow returns: a ladder of at most depth levels  *)
(* per side.  A message has the fields that are looked at here.            *)
(*                                                                         *)
(* A definition introduced by "Bug:" is not part of the model: it is what  *)
(* the one after it would be if the code had that bug.                     *)
(***************************************************************************)
EXTENDS Integers, FiniteSets, SequencesExt

CONSTANT depth  \* visible levels per side

ASSUME DepthAssumption == depth \in Nat \ {0}

BookSide == {"bids", "asks"}
Better(side, p, q) == IF side = "bids" THEN p > q ELSE p < q

Level == [price : Nat \ {0}, quantity : Nat \ {0}]
IsLadder(side, levels) ==
  /\ levels \in Seq(Level)
  /\ \A i \in 2 .. Len(levels) :
       Better(side, levels[i - 1].price, levels[i].price)

NoLevel == -1

----------------------------------------------------------------------------
(* compare_transition_side: how many levels differ and in what, and the    *)
(* first place that does.  Remark is a capture_transition_mismatch of its  *)
(* own, at a given place.                                                  *)

Comparison(side, expected, actual) ==
  LET both == 1 .. Min({Len(expected), Len(actual)})
      missing == 1 .. Max({Len(expected), Len(actual)}) \ both
      prices == {i \in both : expected[i].price # actual[i].price}
      quantities == {i \in both : expected[i].quantity # actual[i].quantity}
      wrong == missing \cup prices \cup quantities
  IN  [side       |-> side,
       first      |-> IF wrong = {} THEN NoLevel ELSE Min(wrong),
       missing    |-> Cardinality(missing),
       prices     |-> Cardinality(prices),
       quantities |-> Cardinality(quantities)]

(* Bug: a mismatch of its own leaves no trace.                             *)
RemarkForgotten(side, i) == Comparison(side, <<>>, <<>>)

Remark(side, i) == [Comparison(side, <<>>, <<>>) EXCEPT !.first = i]

Agrees(comparison) == comparison.first = NoLevel

(* For properties: where two ladders differ, and the first such place.     *)
DiffersAt(expected, actual, i) ==
  /\ i \in DOMAIN expected \cup DOMAIN actual
  /\ i \in DOMAIN expected \cap DOMAIN actual => expected[i] # actual[i]

FirstDifference(expected, actual, i) ==
  /\ DiffersAt(expected, actual, i)
  /\ \A k \in 1 .. i - 1 : ~DiffersAt(expected, actual, k)

SideOf(message) == IF message.direction = 1 THEN "bids" ELSE "asks"
OppositeOf(message) == IF message.direction = 1 THEN "asks" ELSE "bids"

(* Place of a price in a ladder, 0 when it has none.                       *)
PlaceOf(price, levels) == SelectInSeq(levels, LAMBDA l : l.price = price)

(* Judgements: the classification, the comparisons that were made in their *)
(* order, and the counters to increment.                                   *)
Judgement(class, comparisons, counted) ==
  [classification |-> class, comparisons |-> comparisons, counted |-> counted]

MatchingIf(agreed) == IF agreed THEN "Matching" ELSE "Mismatching"

OppositeChange(comparison) ==
  IF Agrees(comparison) THEN {} ELSE {"opposite_side_changes"}

----------------------------------------------------------------------------
(* A submission adds to its level or opens one, and may push the last one  *)
(* out of sight.                                                           *)

AheadOf(side, price, levels) ==
  SelectInSeq(levels, LAMBDA l : Better(side, price, l.price))

Opened(message, levels) ==
  LET ahead == AheadOf(SideOf(message), message.price, levels)
      level == [price |-> message.price, quantity |-> message.size]
  IN  IF ahead = 0 THEN Append(levels, level) ELSE InsertAt(levels, ahead, level)

(* Bug: the level that was pushed out of sight is still expected.          *)
InSightUncut(levels) == levels

InSight(levels) == SubSeq(levels, 1, Min({depth, Len(levels)}))

Submitted(message, levels) ==
  LET at == PlaceOf(message.price, levels)
  IN  InSight(IF at = 0 THEN Opened(message, levels)
              ELSE [levels EXCEPT ![at].quantity = @ + message.size])

validate_submission_transition(message, before, current) ==
  LET side == SideOf(message)
      other == OppositeOf(message)
      across == Comparison(other, before[other], current[other])
      along == Comparison(side, Submitted(message, before[side]), current[side])
  IN  Judgement(MatchingIf(Agrees(across) /\ Agrees(along)),
                <<across, along>>, OppositeChange(across))

----------------------------------------------------------------------------
(* A reduction: partial cancel, deletion or visible execution.             *)

(* Bug: a row that is not full is taken to hide levels, too.               *)
OffDepthAlways(side, price, levels) ==
  levels # <<>> /\ Better(side, Last(levels).price, price)

is_potentially_off_depth(side, price, levels) ==
  /\ levels # <<>>
  /\ Len(levels) = depth
  /\ Better(side, Last(levels).price, price)

(* Its level is not visible.                                               *)
ReductionOutOfSight(message, across, prev, cur) ==
  LET side == SideOf(message)
      along == Comparison(side, prev, cur)
      counted == OppositeChange(across) \cup {"missing_event_price_levels"}
  IN  IF is_potentially_off_depth(side, message.price, prev)
      THEN Judgement(IF Agrees(across) /\ Agrees(along)
                     THEN "Unverifiable" ELSE "Mismatching",
                     <<across, along>>, counted)
      ELSE Judgement("Mismatching",
                     <<across, Remark(side, 0), along>>, counted)

(* Its level is visible, and goes.  A full row may show a level behind the *)
(* last one of the row before.                                             *)
LevelRemoved(message, across, prev, cur) ==
  LET side == SideOf(message)
      predicted == RemoveAt(prev, PlaceOf(message.price, prev))
      known == SubSeq(cur, 1, Min({Len(cur), Len(predicted)}))
      along == Comparison(side, predicted,
                          IF Len(prev) < depth THEN cur ELSE known)
      refilled == Len(prev) = depth /\ Len(cur) = Len(predicted) + 1
      expected_count == \/ Len(prev) < depth
                        \/ Len(cur) = Len(predicted)
                        \/ refilled
      consistent == expected_count /\ Agrees(along) /\ Agrees(across)
  IN  IF consistent /\ refilled
      THEN Judgement("Unverifiable", <<across, along>>,
                     OppositeChange(across) \cup {"tail_refill_transitions"})
      ELSE Judgement(MatchingIf(consistent), <<across, along>>,
                     OppositeChange(across))

(* Its level is visible, and stays.                                        *)
Reduced(message, levels) ==
  LET at == PlaceOf(message.price, levels)
  IN  [levels EXCEPT ![at].quantity = @ - message.size]

LevelReduced(message, across, prev, cur) ==
  LET along == Comparison(SideOf(message), Reduced(message, prev), cur)
  IN  Judgement(MatchingIf(Agrees(across) /\ Agrees(along)),
                <<across, along>>, OppositeChange(across))

(* Bug: a level may lose more than it has.                                 *)
ReductionInSightUnchecked(message, across, prev, cur) ==
  IF message.size < prev[PlaceOf(message.price, prev)].quantity
  THEN LevelReduced(message, across, prev, cur)
  ELSE LevelRemoved(message, across, prev, cur)

ReductionInSight(message, across, prev, cur) ==
  LET at == PlaceOf(message.price, prev)
  IN  IF message.size > prev[at].quantity
      THEN Judgement("Mismatching", <<across, Remark(SideOf(message), at)>>,
                     OppositeChange(across) \cup {"quantity_underflows"})
      ELSE IF message.size < prev[at].quantity
      THEN LevelReduced(message, across, prev, cur)
      ELSE LevelRemoved(message, across, prev, cur)

validate_reduction_transition(message, before, current) ==
  LET side == SideOf(message)
      other == OppositeOf(message)
      across == Comparison(other, before[other], current[other])
  IN  IF PlaceOf(message.price, before[side]) = 0
      THEN ReductionOutOfSight(message, across, before[side], current[side])
      ELSE ReductionInSight(message, across, before[side], current[side])

validate_hidden_transition(before, current) ==
  LET bids == Comparison("bids", before.bids, current.bids)
      asks == Comparison("asks", before.asks, current.asks)
  IN  Judgement(MatchingIf(Agrees(bids) /\ Agrees(asks)), <<bids, asks>>, {})

Judge(message, before, current) ==
  CASE message.type = 1      -> validate_submission_transition(message, before, current)
    [] message.type \in 2 .. 4 -> validate_reduction_transition(message, before, current)
    [] message.type = 5      -> validate_hidden_transition(before, current)
    [] OTHER                 -> Judgement("Unsupported", <<>>, {})

(* validate_transition_message_semantics.                                  *)
Meaningful(message) ==
  \/ message.type \in 1 .. 4 /\ message.direction \in {1, -1} /\ message.size > 0
  \/ message.type \in 5 .. 7
=============================================================================
