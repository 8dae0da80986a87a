-------------------------- MODULE TransitionProofs --------------------------
(***************************************************************************)
(* Theorems about TransitionValidation, for all rows, messages and depths: *)
(* the counters of the summary agree with each other and with the mismatch *)
(* it keeps, and that mismatch is the first one; and what each judgement   *)
(* says of the books behind the rows is true (TransitionMeaning).          *)
(***************************************************************************)
EXTENDS TransitionMeaning, SumProofs, SequenceTheorems

----------------------------------------------------------------------------
(* What a comparison finds.                                                *)

SameLevels(expected, actual) ==
  /\ Len(expected) = Len(actual)
  /\ \A i \in 1 .. Len(expected) : /\ expected[i].price = actual[i].price
                                   /\ expected[i].quantity = actual[i].quantity

IsComparison(c) ==
  /\ c.missing \in Nat /\ c.prices \in Nat /\ c.quantities \in Nat
  /\ c.first \in Int

LEMMA ComparisonFinds ==
  ASSUME NEW side, NEW expected, NEW actual,
         Len(expected) \in Nat, Len(actual) \in Nat
  PROVE  LET c == Comparison(side, expected, actual)
         IN  /\ IsComparison(c)
             /\ Agrees(c) <=> SameLevels(expected, actual)
             /\ Agrees(c) <=> c.missing = 0 /\ c.prices = 0 /\ c.quantities = 0
<1> DEFINE most == Max({Len(expected), Len(actual)})
           both == 1 .. Min({Len(expected), Len(actual)})
           missing == 1 .. most \ both
           prices == {i \in both : expected[i].price # actual[i].price}
           quantities == {i \in both : expected[i].quantity # actual[i].quantity}
           wrong == missing \cup prices \cup quantities
           c == Comparison(side, expected, actual)
<1>1. /\ c.first = IF wrong = {} THEN NoLevel ELSE Min(wrong)
      /\ c.missing = Cardinality(missing)
      /\ c.prices = Cardinality(prices)
      /\ c.quantities = Cardinality(quantities)
  BY DEF Comparison
<1>2. /\ most \in Nat
      /\ both \subseteq 1 .. most
      /\ missing = {} => Len(expected) = Len(actual)
      /\ Len(expected) = Len(actual) => missing = {} /\ both = 1 .. Len(expected)
  <2>1. /\ Min({Len(expected), Len(actual)}) =
             IF Len(expected) <= Len(actual) THEN Len(expected) ELSE Len(actual)
        /\ most = IF Len(expected) <= Len(actual) THEN Len(actual) ELSE Len(expected)
    BY OfTwo
  <2> HIDE DEF most
  <2>2. most \in Nat /\ both \subseteq 1 .. most
    BY <2>1
  <2>3. ASSUME Len(expected) # Len(actual) PROVE most \in missing
    BY <2>1, <2>3
  <2>4. QED
    BY <2>1, <2>2, <2>3
<1> HIDE DEF most, c
<1>3. /\ missing \in SUBSET (1 .. most)
      /\ prices \in SUBSET (1 .. most)
      /\ quantities \in SUBSET (1 .. most)
  BY <1>2
<1> HIDE DEF missing, prices, quantities
<1>4. wrong # {} => Min(wrong) \in 1 .. most
  <2>1. wrong \subseteq 1 .. most
    BY <1>3
  <2>2. wrong \subseteq Nat
    BY <2>1, <1>2
  <2> HIDE DEF wrong
  <2>3. QED
    BY <2>1, <2>2, MinIsIn
<1>5. Agrees(c) <=> wrong = {}
  BY <1>1, <1>2, <1>4 DEF Agrees, NoLevel
<1>6. IsComparison(c)
  <2>1. c.first \in Int
    BY <1>1, <1>2, <1>4 DEF NoLevel
  <2>2. QED
    BY <1>1, <1>2, <1>3, <2>1, PartOfInterval DEF IsComparison
<1>7. wrong = {} <=> c.missing = 0 /\ c.prices = 0 /\ c.quantities = 0
  BY <1>1, <1>2, <1>3, PartOfInterval
<1>8. wrong = {} <=> SameLevels(expected, actual)
  BY <1>2 DEF SameLevels, prices, quantities
<1>9. QED
  BY <1>5, <1>6, <1>7, <1>8 DEF c

(* A remark is a mismatch that no level is counted for.                    *)
LEMMA RemarkIs ==
  ASSUME NEW side, NEW i \in Nat
  PROVE  LET c == Remark(side, i)
         IN  IsComparison(c) /\ ~Agrees(c)
<1> DEFINE e == Comparison(side, <<>>, <<>>)
<1>1. IsComparison(e)
  BY ComparisonFinds
<1>2. /\ Remark(side, i).first = i
      /\ Remark(side, i).missing = e.missing
      /\ Remark(side, i).prices = e.prices
      /\ Remark(side, i).quantities = e.quantities
  BY DEF Remark, Comparison
<1> HIDE DEF e
<1>3. QED
  BY <1>1, <1>2 DEF IsComparison, Agrees, NoLevel

----------------------------------------------------------------------------
(* Rows and the ladders the judgements make of them.                       *)

AnyLevel == [price : Int, quantity : Int]

Message == [type : Int, direction : Int, price : Int, size : Int]

LEMMA SidesOfMessage ==
  ASSUME NEW message
  PROVE  /\ SideOf(message) \in BookSide /\ OppositeOf(message) \in BookSide
         /\ OppositeOf(message) # SideOf(message)
         /\ BookSide = {SideOf(message), OppositeOf(message)}
BY DEF SideOf, OppositeOf, BookSide

LEMMA SideOfRow ==
  ASSUME NEW row \in Rows, NEW side \in BookSide
  PROVE  /\ IsLadder(side, row[side])
         /\ row[side] \in Seq(AnyLevel)
         /\ Len(row[side]) \in Nat
         /\ Len(row[side]) <= depth
<1>1. IsLadder(side, row[side]) /\ Len(row[side]) <= depth
  BY RowsAssumption
<1>2. row[side] \in Seq(Level) /\ Level \subseteq AnyLevel
  BY <1>1 DEF IsLadder, Level, AnyLevel
<1>3. row[side] \in Seq(AnyLevel)
  BY <1>2, SeqMonotonic
<1>4. QED
  BY <1>1, <1>3, LenProperties

(* The first place where a test succeeds, and 0 when there is none.        *)
LEMMA PlaceIs ==
  ASSUME NEW levels \in Seq(AnyLevel), NEW price
  PROVE  LET at == PlaceOf(price, levels)
         IN  \/ /\ at = 0
                /\ \A i \in 1 .. Len(levels) : levels[i].price # price
             \/ /\ at \in 1 .. Len(levels)
                /\ levels[at].price = price
                /\ \A i \in 1 .. Len(levels) : levels[i].price = price => at <= i
<1> DEFINE I == {i \in 1 .. Len(levels) : levels[i].price = price}
<1>1. PlaceOf(price, levels) = IF I # {} THEN Min(I) ELSE 0
  BY DEF PlaceOf, SelectInSeq
<1>2. I # {} => Min(I) \in I /\ \A i \in I : Min(I) <= i
  <2>1. I \subseteq Nat
    BY LenProperties
  <2> HIDE DEF I
  <2>2. QED
    BY <2>1, MinIsIn
<1>3. QED
  BY <1>1, <1>2

LEMMA AheadIs ==
  ASSUME NEW levels \in Seq(AnyLevel), NEW side, NEW price
  PROVE  LET ahead == AheadOf(side, price, levels)
         IN  \/ /\ ahead = 0
                /\ \A i \in 1 .. Len(levels) : ~Better(side, price, levels[i].price)
             \/ /\ ahead \in 1 .. Len(levels)
                /\ Better(side, price, levels[ahead].price)
                /\ \A i \in 1 .. Len(levels) :
                     Better(side, price, levels[i].price) => ahead <= i
<1> DEFINE I == {i \in 1 .. Len(levels) : Better(side, price, levels[i].price)}
           ahead == AheadOf(side, price, levels)
<1>1. ahead = IF I # {} THEN Min(I) ELSE 0
  BY DEF AheadOf, SelectInSeq
<1>2. I # {} => Min(I) \in I /\ \A i \in I : Min(I) <= i
  <2>1. I \subseteq Nat
    BY LenProperties
  <2> HIDE DEF I
  <2>2. QED
    BY <2>1, MinIsIn
<1> HIDE DEF ahead
<1>3. \/ ahead = 0 /\ I = {}
      \/ ahead \in I /\ \A i \in I : ahead <= i
  BY <1>1, <1>2
<1>4. QED
  BY <1>3 DEF ahead

(* Inserting a level shifts those behind it.                               *)
LEMMA Inserted ==
  ASSUME NEW levels \in Seq(AnyLevel), NEW i \in 1 .. Len(levels) + 1,
         NEW level \in AnyLevel
  PROVE  /\ InsertAt(levels, i, level) \in Seq(AnyLevel)
         /\ Len(InsertAt(levels, i, level)) = Len(levels) + 1
         /\ \A k \in 1 .. Len(levels) + 1 :
              InsertAt(levels, i, level)[k] =
                IF k < i THEN levels[k]
                ELSE IF k = i THEN level ELSE levels[k - 1]
<1> DEFINE front == SubSeq(levels, 1, i - 1)
           back == SubSeq(levels, i, Len(levels))
<1>1. /\ front \in Seq(AnyLevel) /\ Len(front) = i - 1
      /\ \A k \in 1 .. i - 1 : front[k] = levels[k]
  BY SubSeqProperties, LenProperties
<1>2. /\ back \in Seq(AnyLevel) /\ Len(back) = Len(levels) - i + 1
      /\ \A k \in 1 .. Len(levels) - i + 1 : back[k] = levels[k + i - 1]
  BY SubSeqProperties, LenProperties
<1> DEFINE head == front \o <<level>>
<1> HIDE DEF front, back
<1>3. /\ head \in Seq(AnyLevel) /\ Len(head) = i
      /\ \A k \in 1 .. i - 1 : head[k] = levels[k]
      /\ head[i] = level
  <2>1. <<level>> \in Seq(AnyLevel) /\ Len(<<level>>) = 1 /\ <<level>>[1] = level
    OBVIOUS
  <2>2. /\ head \in Seq(AnyLevel) /\ Len(head) = i
        /\ \A k \in 1 .. i : head[k] = IF k <= i - 1 THEN front[k] ELSE <<level>>[k - (i - 1)]
    BY <1>1, <2>1, ConcatProperties
  <2> HIDE DEF head
  <2>3. head[i] = <<level>>[1]
    BY <2>2, LenProperties
  <2>4. QED
    BY <1>1, <2>1, <2>2, <2>3
<1> HIDE DEF head
<1>4. InsertAt(levels, i, level) = head \o back
  BY DEF InsertAt, head, front, back
<1>5. /\ head \o back \in Seq(AnyLevel)
      /\ Len(head \o back) = Len(levels) + 1
      /\ \A k \in 1 .. Len(levels) + 1 :
           (head \o back)[k] = IF k <= i THEN head[k] ELSE back[k - i]
  BY <1>2, <1>3, ConcatProperties, LenProperties
<1>6. \A k \in i + 1 .. Len(levels) + 1 : back[k - i] = levels[k - 1]
  BY <1>2, LenProperties
<1>7. QED
  BY <1>3, <1>4, <1>5, <1>6, LenProperties

(* Removing a level does the reverse.                                      *)
LEMMA Removed ==
  ASSUME NEW levels \in Seq(AnyLevel), NEW i \in 1 .. Len(levels)
  PROVE  /\ RemoveAt(levels, i) \in Seq(AnyLevel)
         /\ Len(RemoveAt(levels, i)) = Len(levels) - 1
         /\ \A k \in 1 .. Len(levels) - 1 :
              RemoveAt(levels, i)[k] = IF k < i THEN levels[k] ELSE levels[k + 1]
<1> DEFINE front == SubSeq(levels, 1, i - 1)
           back == SubSeq(levels, i + 1, Len(levels))
<1>1. /\ front \in Seq(AnyLevel) /\ Len(front) = i - 1
      /\ \A k \in 1 .. i - 1 : front[k] = levels[k]
  BY SubSeqProperties, LenProperties
<1>2. /\ back \in Seq(AnyLevel) /\ Len(back) = Len(levels) - i
      /\ \A k \in 1 .. Len(levels) - i : back[k] = levels[k + i]
  BY SubSeqProperties, LenProperties
<1> HIDE DEF front, back
<1>3. RemoveAt(levels, i) = front \o back
  BY DEF RemoveAt, front, back
<1>4. /\ front \o back \in Seq(AnyLevel)
      /\ Len(front \o back) = Len(levels) - 1
      /\ \A k \in 1 .. Len(levels) - 1 :
           (front \o back)[k] = IF k <= i - 1 THEN front[k] ELSE back[k - (i - 1)]
  BY <1>1, <1>2, ConcatProperties, LenProperties
<1>5. \A k \in i .. Len(levels) - 1 : back[k - (i - 1)] = levels[k + 1]
  BY <1>2, LenProperties
<1>6. QED
  BY <1>1, <1>3, <1>4, <1>5, LenProperties

----------------------------------------------------------------------------
(* What every judgement is like.                                           *)

Classes == {"Matching", "Mismatching", "Unsupported", "Unverifiable"}

Blank(c) == c.missing = 0 /\ c.prices = 0 /\ c.quantities = 0

(* An agreement counts nothing.                                            *)
Truthful(c) == IsComparison(c) /\ (Agrees(c) => Blank(c))

(* A mismatch has a comparison that shows it and something that is counted *)
(* for it, and nothing else has either.                                    *)
SoundJudgement(j) ==
  /\ j.classification \in Classes
  /\ \E n \in Nat : DOMAIN j.comparisons = 1 .. n
  /\ \A i \in DOMAIN j.comparisons : Truthful(j.comparisons[i])
  /\ j.classification # "Mismatching" =>
       /\ \A i \in DOMAIN j.comparisons : Agrees(j.comparisons[i])
       /\ "opposite_side_changes" \notin j.counted
       /\ "quantity_underflows" \notin j.counted
  /\ j.classification = "Mismatching" =>
       /\ \E i \in DOMAIN j.comparisons : ~Agrees(j.comparisons[i])
       /\ \/ \E i \in DOMAIN j.comparisons : ~Blank(j.comparisons[i])
          \/ "quantity_underflows" \in j.counted
          \/ "missing_event_price_levels" \in j.counted
  /\ "tail_refill_transitions" \in j.counted => j.classification = "Unverifiable"

(* A comparison of levels agrees when it counts nothing, too.              *)
OfLevels(c) == IsComparison(c) /\ (Agrees(c) <=> Blank(c))

LEMMA ComparisonOfLevels ==
  ASSUME NEW side, NEW expected, NEW actual,
         Len(expected) \in Nat, Len(actual) \in Nat
  PROVE  OfLevels(Comparison(side, expected, actual))
BY ComparisonFinds DEF OfLevels, Blank

(* Most judgements make two comparisons and follow from them.              *)
LEMMA JudgedByTwo ==
  ASSUME NEW a, NEW b, OfLevels(a), OfLevels(b), NEW class \in Classes,
         NEW counted,
         class = "Mismatching" <=> ~(Agrees(a) /\ Agrees(b)),
         "opposite_side_changes" \in counted => ~Agrees(a),
         "quantity_underflows" \notin counted,
         "tail_refill_transitions" \in counted => class = "Unverifiable"
  PROVE  SoundJudgement(Judgement(class, <<a, b>>, counted))
<1> DEFINE j == Judgement(class, <<a, b>>, counted)
<1>1. /\ j.classification = class
      /\ j.comparisons = <<a, b>>
      /\ j.counted = counted
  BY DEF Judgement
<1> HIDE DEF j
<1>2. /\ DOMAIN j.comparisons = 1 .. 2
      /\ j.comparisons[1] = a /\ j.comparisons[2] = b
  BY <1>1
<1>3. 1 \in 1 .. 2 /\ 2 \in 1 .. 2 /\ \A i \in 1 .. 2 : i = 1 \/ i = 2
  OBVIOUS
<1>4. \A i \in DOMAIN j.comparisons : Truthful(j.comparisons[i])
  BY <1>2, <1>3 DEF Truthful, OfLevels
<1>5. \E n \in Nat : DOMAIN j.comparisons = 1 .. n
  BY <1>2
<1>6. ASSUME j.classification # "Mismatching"
      PROVE  \A i \in DOMAIN j.comparisons : Agrees(j.comparisons[i])
  BY <1>1, <1>2, <1>3, <1>6
<1>7. ASSUME j.classification = "Mismatching"
      PROVE  /\ \E i \in DOMAIN j.comparisons : ~Agrees(j.comparisons[i])
             /\ \E i \in DOMAIN j.comparisons : ~Blank(j.comparisons[i])
  BY <1>1, <1>2, <1>3, <1>7 DEF OfLevels
<1>8. SoundJudgement(j)
  BY <1>1, <1>4, <1>5, <1>6, <1>7 DEF SoundJudgement
<1>9. QED
  BY <1>8 DEF j

LEMMA OppositeChangeIs ==
  ASSUME NEW across
  PROVE  /\ "opposite_side_changes" \in OppositeChange(across) => ~Agrees(across)
         /\ "quantity_underflows" \notin OppositeChange(across)
         /\ "missing_event_price_levels" \notin OppositeChange(across)
         /\ "tail_refill_transitions" \notin OppositeChange(across)
BY DEF OppositeChange

LEMMA MatchingIfIs ==
  ASSUME NEW agreed \in BOOLEAN
  PROVE  /\ MatchingIf(agreed) \in Classes
         /\ MatchingIf(agreed) = "Mismatching" <=> ~agreed
         /\ MatchingIf(agreed) = "Matching" <=> agreed
BY DEF MatchingIf, Classes

LEMMA TwoCompared ==
  ASSUME NEW a, NEW b, OfLevels(a), OfLevels(b)
  PROVE  SoundJudgement(Judgement(MatchingIf(Agrees(a) /\ Agrees(b)), <<a, b>>,
                                  OppositeChange(a)))
<1> DEFINE agreed == Agrees(a) /\ Agrees(b)
<1>1. agreed \in BOOLEAN
  BY DEF Agrees
<1> HIDE DEF agreed
<1>2. /\ MatchingIf(agreed) \in Classes
      /\ MatchingIf(agreed) = "Mismatching" <=> ~agreed
      /\ MatchingIf(agreed) # "Unverifiable"
  BY <1>1, MatchingIfIs DEF MatchingIf
<1>3. /\ "opposite_side_changes" \in OppositeChange(a) => ~Agrees(a)
      /\ "quantity_underflows" \notin OppositeChange(a)
      /\ "tail_refill_transitions" \notin OppositeChange(a)
  BY OppositeChangeIs
<1>4. SoundJudgement(Judgement(MatchingIf(agreed), <<a, b>>, OppositeChange(a)))
  BY <1>2, <1>3, JudgedByTwo DEF agreed
<1>5. QED
  BY <1>4 DEF agreed

----------------------------------------------------------------------------
(* Every judgement is sound.                                               *)

(* Where a new level goes: behind those it is not better than.             *)
LEMMA OpenedIs ==
  ASSUME NEW levels \in Seq(AnyLevel), NEW message \in Message
  PROVE  /\ Opened(message, levels) \in Seq(AnyLevel)
         /\ Len(Opened(message, levels)) = Len(levels) + 1
         /\ \E i \in 1 .. Len(levels) + 1 :
              /\ \A k \in 1 .. i - 1 :
                   ~Better(SideOf(message), message.price, levels[k].price)
              /\ i <= Len(levels) =>
                   Better(SideOf(message), message.price, levels[i].price)
              /\ \A k \in 1 .. Len(levels) + 1 :
                   Opened(message, levels)[k] =
                     IF k < i THEN levels[k]
                     ELSE IF k = i
                     THEN [price |-> message.price, quantity |-> message.size]
                     ELSE levels[k - 1]
<1> DEFINE side == SideOf(message)
           ahead == AheadOf(side, message.price, levels)
           level == [price |-> message.price, quantity |-> message.size]
<1>1. Opened(message, levels) =
        IF ahead = 0 THEN Append(levels, level) ELSE InsertAt(levels, ahead, level)
  BY DEF Opened
<1>2. level \in AnyLevel
  BY DEF Message, AnyLevel
<1>3. \/ /\ ahead = 0
         /\ \A i \in 1 .. Len(levels) :
              ~Better(side, message.price, levels[i].price)
      \/ /\ ahead \in 1 .. Len(levels)
         /\ Better(side, message.price, levels[ahead].price)
         /\ \A i \in 1 .. Len(levels) :
              Better(side, message.price, levels[i].price) => ahead <= i
  BY AheadIs
<1>4. Len(levels) \in Nat
  BY LenProperties
<1> HIDE DEF ahead, level, side
<1>5. CASE ahead = 0
  <2>1. /\ Append(levels, level) \in Seq(AnyLevel)
        /\ Len(Append(levels, level)) = Len(levels) + 1
        /\ \A k \in 1 .. Len(levels) : Append(levels, level)[k] = levels[k]
        /\ Append(levels, level)[Len(levels) + 1] = level
    BY <1>2, AppendProperties
  <2>2. \A k \in 1 .. Len(levels) + 1 :
          (k < Len(levels) + 1 /\ k \in 1 .. Len(levels)) \/ k = Len(levels) + 1
    BY <1>4
  <2>3. Len(levels) + 1 \in 1 .. Len(levels) + 1
    BY <1>4
  <2>4. \A k \in 1 .. Len(levels) + 1 - 1 :
          ~Better(side, message.price, levels[k].price)
    BY <1>3, <1>4, <1>5
  <2>5. Opened(message, levels) = Append(levels, level)
    BY <1>1, <1>5
  <2>6. \A k \in 1 .. Len(levels) + 1 :
          Opened(message, levels)[k] =
            IF k < Len(levels) + 1 THEN levels[k]
            ELSE IF k = Len(levels) + 1 THEN level ELSE levels[k - 1]
    BY <2>1, <2>2, <2>5
  <2>7. ~(Len(levels) + 1 <= Len(levels))
    BY <1>4
  <2>8. QED
    BY <2>1, <2>3, <2>4, <2>5, <2>6, <2>7 DEF level, side
<1>6. CASE ahead # 0
  <2>0. ahead \in 1 .. Len(levels) + 1
    BY <1>3, <1>4, <1>6
  <2>1. /\ \A k \in 1 .. ahead - 1 : ~Better(side, message.price, levels[k].price)
        /\ Better(side, message.price, levels[ahead].price)
    BY <1>3, <1>4, <1>6
  <2>2. /\ InsertAt(levels, ahead, level) \in Seq(AnyLevel)
        /\ Len(InsertAt(levels, ahead, level)) = Len(levels) + 1
        /\ \A k \in 1 .. Len(levels) + 1 :
             InsertAt(levels, ahead, level)[k] =
               IF k < ahead THEN levels[k]
               ELSE IF k = ahead THEN level ELSE levels[k - 1]
    BY <1>2, <2>0, Inserted
  <2>3. Opened(message, levels) = InsertAt(levels, ahead, level)
    BY <1>1, <1>6
  <2>4. QED
    BY <2>0, <2>1, <2>2, <2>3 DEF level, side
<1>7. QED
  BY <1>5, <1>6

LEMMA InSightIs ==
  ASSUME NEW levels \in Seq(AnyLevel)
  PROVE  /\ InSight(levels) \in Seq(AnyLevel)
         /\ Len(InSight(levels)) =
              IF depth <= Len(levels) THEN depth ELSE Len(levels)
         /\ \A k \in 1 .. Len(InSight(levels)) : InSight(levels)[k] = levels[k]
<1>1. Len(levels) \in Nat /\ levels \in [1 .. Len(levels) -> AnyLevel]
  BY LenProperties
<1> DEFINE n == Min({depth, Len(levels)})
<1>2. n = IF depth <= Len(levels) THEN depth ELSE Len(levels)
  BY <1>1, OfTwo, DepthAssumption
<1>3. InSight(levels) = SubSeq(levels, 1, n)
  BY DEF InSight
<1> HIDE DEF n
<1>4. n \in Nat /\ n <= Len(levels)
  <2>1. Len(levels) \in Nat
    BY <1>1
  <2>2. QED
    BY <1>2, <2>1, DepthAssumption
<1>5. /\ SubSeq(levels, 1, n) \in Seq(AnyLevel)
      /\ Len(SubSeq(levels, 1, n)) = n
      /\ \A k \in 1 .. n : SubSeq(levels, 1, n)[k] = levels[k]
  BY <1>1, <1>4, SubSeqProperties
<1>6. QED
  BY <1>2, <1>3, <1>5

(* A level with another quantity.                                          *)
LEMMA Requantified ==
  ASSUME NEW levels \in Seq(AnyLevel), NEW at \in 1 .. Len(levels), NEW q \in Int
  PROVE  /\ [levels EXCEPT ![at].quantity = q] \in Seq(AnyLevel)
         /\ Len([levels EXCEPT ![at].quantity = q]) = Len(levels)
         /\ \A k \in 1 .. Len(levels) :
              /\ [levels EXCEPT ![at].quantity = q][k].price = levels[k].price
              /\ [levels EXCEPT ![at].quantity = q][k].quantity =
                   IF k = at THEN q ELSE levels[k].quantity
<1> DEFINE e == [levels[at] EXCEPT !.quantity = q]
<1>1. levels[at] \in AnyLevel /\ \A k \in 1 .. Len(levels) : levels[k] \in AnyLevel
  BY LenProperties
<1>2. e \in AnyLevel /\ e.price = levels[at].price /\ e.quantity = q
  BY <1>1 DEF AnyLevel
<1>3. [levels EXCEPT ![at].quantity = q] = [levels EXCEPT ![at] = e]
  OBVIOUS
<1> HIDE DEF e
<1>4. QED
  BY <1>2, <1>3, ExceptSeq

LEMMA SubmittedType ==
  ASSUME NEW levels \in Seq(AnyLevel), NEW message \in Message
  PROVE  Submitted(message, levels) \in Seq(AnyLevel)
<1> DEFINE at == PlaceOf(message.price, levels)
           more == levels[at].quantity + message.size
<1>1. at = 0 \/ at \in 1 .. Len(levels)
  BY PlaceIs
<1>2. Submitted(message, levels) =
        InSight(IF at = 0 THEN Opened(message, levels)
                ELSE [levels EXCEPT ![at].quantity = more])
  BY DEF Submitted
<1> HIDE DEF at
<1>3. at # 0 => more \in Int
  <2>1. \A i \in 1 .. Len(levels) : levels[i] \in AnyLevel
    BY LenProperties
  <2>2. QED
    BY <1>1, <2>1 DEF AnyLevel, Message
<1> HIDE DEF more
<1>4. at # 0 => [levels EXCEPT ![at].quantity = more] \in Seq(AnyLevel)
  BY <1>1, <1>3, Requantified
<1>5. Opened(message, levels) \in Seq(AnyLevel)
  BY OpenedIs
<1> DEFINE whole == IF at = 0 THEN Opened(message, levels)
                    ELSE [levels EXCEPT ![at].quantity = more]
<1>6. whole \in Seq(AnyLevel) /\ Submitted(message, levels) = InSight(whole)
  BY <1>2, <1>4, <1>5
<1> HIDE DEF whole
<1>7. QED
  BY <1>6, InSightIs

LEMMA AcrossOfLevels ==
  ASSUME NEW before \in Rows, NEW current \in Rows, NEW side \in BookSide
  PROVE  OfLevels(Comparison(side, before[side], current[side]))
BY SideOfRow, ComparisonOfLevels

LEMMA SubmissionSound ==
  ASSUME NEW message \in Message, NEW before \in Rows, NEW current \in Rows
  PROVE  SoundJudgement(validate_submission_transition(message, before, current))
<1> DEFINE side == SideOf(message)
           other == OppositeOf(message)
           across == Comparison(other, before[other], current[other])
           predicted == Submitted(message, before[side])
           along == Comparison(side, predicted, current[side])
<1>1. side \in BookSide /\ other \in BookSide
  BY SidesOfMessage
<1>2. validate_submission_transition(message, before, current) =
        Judgement(MatchingIf(Agrees(across) /\ Agrees(along)),
                  <<across, along>>, OppositeChange(across))
  BY DEF validate_submission_transition
<1>3. OfLevels(across)
  BY <1>1, AcrossOfLevels
<1>4. Len(predicted) \in Nat
  BY <1>1, SideOfRow, SubmittedType, LenProperties
<1> HIDE DEF predicted
<1>5. OfLevels(along)
  BY <1>1, <1>4, SideOfRow, ComparisonOfLevels
<1> HIDE DEF across, along
<1>6. QED
  BY <1>2, <1>3, <1>5, TwoCompared

LEMMA HiddenSound ==
  ASSUME NEW before \in Rows, NEW current \in Rows
  PROVE  SoundJudgement(validate_hidden_transition(before, current))
<1> DEFINE bids == Comparison("bids", before["bids"], current["bids"])
           asks == Comparison("asks", before["asks"], current["asks"])
           agreed == Agrees(bids) /\ Agrees(asks)
<1>1. "bids" \in BookSide /\ "asks" \in BookSide
  BY DEF BookSide
<1>2. OfLevels(bids) /\ OfLevels(asks)
  BY <1>1, AcrossOfLevels
<1>3. validate_hidden_transition(before, current) =
        Judgement(MatchingIf(agreed), <<bids, asks>>, {})
  BY DEF validate_hidden_transition
<1>4. agreed \in BOOLEAN
  BY DEF Agrees
<1> HIDE DEF bids, asks, agreed
<1>5. /\ MatchingIf(agreed) \in Classes
      /\ MatchingIf(agreed) = "Mismatching" <=> ~agreed
  BY <1>4, MatchingIfIs
<1>6. SoundJudgement(Judgement(MatchingIf(agreed), <<bids, asks>>, {}))
  BY <1>2, <1>5, JudgedByTwo DEF agreed
<1>7. QED
  BY <1>3, <1>6

LEMMA OutOfSightSound ==
  ASSUME NEW message, NEW across, OfLevels(across), NEW prev, NEW cur,
         Len(prev) \in Nat, Len(cur) \in Nat
  PROVE  SoundJudgement(ReductionOutOfSight(message, across, prev, cur))
<1> DEFINE side == SideOf(message)
           along == Comparison(side, prev, cur)
           counted == OppositeChange(across) \cup {"missing_event_price_levels"}
           class == IF Agrees(across) /\ Agrees(along)
                    THEN "Unverifiable" ELSE "Mismatching"
           remark == Remark(side, 0)
           j == ReductionOutOfSight(message, across, prev, cur)
<1>1. OfLevels(along)
  BY ComparisonOfLevels
<1>2. /\ "opposite_side_changes" \in counted => ~Agrees(across)
      /\ "quantity_underflows" \notin counted
      /\ "missing_event_price_levels" \in counted
      /\ "tail_refill_transitions" \notin counted
  BY OppositeChangeIs
<1>3. IsComparison(remark) /\ ~Agrees(remark)
  BY RemarkIs
<1>4. j = IF is_potentially_off_depth(side, message.price, prev)
          THEN Judgement(class, <<across, along>>, counted)
          ELSE Judgement("Mismatching", <<across, remark, along>>, counted)
  BY DEF ReductionOutOfSight
<1> HIDE DEF along, counted, remark, j
<1>5. CASE is_potentially_off_depth(side, message.price, prev)
  <2>1. class \in Classes /\ (class = "Mismatching" <=> ~(Agrees(across) /\ Agrees(along)))
    BY DEF Classes
  <2> HIDE DEF class
  <2>2. SoundJudgement(Judgement(class, <<across, along>>, counted))
    BY <1>1, <1>2, <2>1, JudgedByTwo
  <2>3. QED
    BY <1>4, <1>5, <2>2 DEF j
<1>6. CASE ~is_potentially_off_depth(side, message.price, prev)
  <2>1. /\ j.classification = "Mismatching"
        /\ j.comparisons = <<across, remark, along>>
        /\ j.counted = counted
    BY <1>4, <1>6 DEF Judgement
  <2>2. /\ DOMAIN j.comparisons = 1 .. 3
        /\ j.comparisons[1] = across /\ j.comparisons[2] = remark
        /\ j.comparisons[3] = along
    BY <2>1
  <2>3. 2 \in 1 .. 3 /\ \A i \in 1 .. 3 : i = 1 \/ i = 2 \/ i = 3
    OBVIOUS
  <2>4. \A i \in DOMAIN j.comparisons : Truthful(j.comparisons[i])
    BY <1>1, <1>3, <2>2, <2>3 DEF Truthful, OfLevels
  <2>5. \E n \in Nat : DOMAIN j.comparisons = 1 .. n
    BY <2>2
  <2>6. \E i \in DOMAIN j.comparisons : ~Agrees(j.comparisons[i])
    BY <1>3, <2>2, <2>3
  <2>7. SoundJudgement(j)
    BY <1>2, <2>1, <2>4, <2>5, <2>6 DEF SoundJudgement, Classes
  <2>8. QED
    BY <2>7 DEF j
<1>7. QED
  BY <1>5, <1>6

LEMMA ReducedIs ==
  ASSUME NEW message \in Message, NEW levels \in Seq(AnyLevel),
         NEW at, at = PlaceOf(message.price, levels), at # 0,
         NEW less, less = levels[at].quantity - message.size
  PROVE  /\ at \in 1 .. Len(levels)
         /\ levels[at].price = message.price
         /\ less \in Int
         /\ Len(Reduced(message, levels)) = Len(levels)
         /\ \A k \in 1 .. Len(levels) :
              /\ Reduced(message, levels)[k].price = levels[k].price
              /\ Reduced(message, levels)[k].quantity =
                   IF k = at THEN less ELSE levels[k].quantity
         /\ Reduced(message, levels) \in Seq(AnyLevel)
<1>1. at \in 1 .. Len(levels) /\ levels[at].price = message.price
  BY PlaceIs
<1>2. less \in Int
  <2>1. \A i \in 1 .. Len(levels) : levels[i] \in AnyLevel
    BY LenProperties
  <2>2. levels[at].quantity \in Int
    BY <1>1, <2>1 DEF AnyLevel
  <2>3. message.size \in Int
    BY DEF Message
  <2>4. QED
    BY <2>2, <2>3
<1>3. Reduced(message, levels) = [levels EXCEPT ![at].quantity = less]
  BY DEF Reduced
<1> DEFINE new == [levels EXCEPT ![at].quantity = less]
<1>4. /\ new \in Seq(AnyLevel) /\ Len(new) = Len(levels)
      /\ \A k \in 1 .. Len(levels) :
           /\ new[k].price = levels[k].price
           /\ new[k].quantity = IF k = at THEN less ELSE levels[k].quantity
  BY <1>1, <1>2, Requantified
<1>5. Reduced(message, levels) = new
  BY <1>3
<1> HIDE DEF new
<1>6. QED
  BY <1>1, <1>2, <1>4, <1>5

LEMMA ReducedSound ==
  ASSUME NEW message \in Message, NEW across, OfLevels(across),
         NEW prev \in Seq(AnyLevel), NEW cur, Len(cur) \in Nat,
         PlaceOf(message.price, prev) # 0
  PROVE  SoundJudgement(LevelReduced(message, across, prev, cur))
<1> DEFINE along == Comparison(SideOf(message), Reduced(message, prev), cur)
<1>1. LevelReduced(message, across, prev, cur) =
        Judgement(MatchingIf(Agrees(across) /\ Agrees(along)),
                  <<across, along>>, OppositeChange(across))
  BY DEF LevelReduced
<1>2. Len(Reduced(message, prev)) \in Nat
  BY ReducedIs, LenProperties
<1>3. OfLevels(along)
  BY <1>2, ComparisonOfLevels
<1> HIDE DEF along
<1>4. QED
  BY <1>1, <1>3, TwoCompared

(* What is known of the row after the removal of a level from a full row:  *)
(* as many levels as are left of the row before.                           *)
LEMMA KnownIs ==
  ASSUME NEW cur \in Seq(AnyLevel), NEW n \in Nat
  PROVE  LET known == SubSeq(cur, 1, Min({Len(cur), n}))
         IN  /\ Len(known) = IF Len(cur) <= n THEN Len(cur) ELSE n
             /\ \A k \in 1 .. Len(known) : known[k] = cur[k]
<1> DEFINE most == Min({Len(cur), n})
<1>1. Len(cur) \in Nat
  BY LenProperties
<1>2. most = IF Len(cur) <= n THEN Len(cur) ELSE n
  BY <1>1, OfTwo
<1> HIDE DEF most
<1>3. most \in Nat /\ most <= Len(cur)
  BY <1>1, <1>2
<1>4. \A k \in 1 .. most : cur[k] \in AnyLevel
  <2>1. \A k \in 1 .. Len(cur) : cur[k] \in AnyLevel
    BY LenProperties
  <2>2. QED
    BY <1>1, <1>3, <2>1
<1>5. /\ Len(SubSeq(cur, 1, most)) = most
      /\ \A k \in 1 .. most : SubSeq(cur, 1, most)[k] = cur[k]
  BY <1>3, <1>4, SubSeqProperties
<1>6. QED
  BY <1>2, <1>5 DEF most

(* A row that is not as long as what must be left of the row before does   *)
(* not agree with it.                                                      *)
LEMMA RemovedSound ==
  ASSUME NEW message \in Message, NEW across, OfLevels(across),
         NEW prev \in Seq(AnyLevel), Len(prev) <= depth,
         NEW cur \in Seq(AnyLevel), Len(cur) <= depth,
         PlaceOf(message.price, prev) # 0
  PROVE  SoundJudgement(LevelRemoved(message, across, prev, cur))
<1> DEFINE side == SideOf(message)
           at == PlaceOf(message.price, prev)
           predicted == RemoveAt(prev, at)
           known == SubSeq(cur, 1, Min({Len(cur), Len(predicted)}))
           seen == IF Len(prev) < depth THEN cur ELSE known
           along == Comparison(side, predicted, seen)
           refilled == Len(prev) = depth /\ Len(cur) = Len(predicted) + 1
           expected_count == \/ Len(prev) < depth
                             \/ Len(cur) = Len(predicted)
                             \/ refilled
           consistent == expected_count /\ Agrees(along) /\ Agrees(across)
           j == LevelRemoved(message, across, prev, cur)
<1>1. at \in 1 .. Len(prev) /\ Len(prev) \in Nat /\ Len(cur) \in Nat
  BY PlaceIs, LenProperties
<1>2. j = IF consistent /\ refilled
          THEN Judgement("Unverifiable", <<across, along>>,
                         OppositeChange(across) \cup {"tail_refill_transitions"})
          ELSE Judgement(MatchingIf(consistent), <<across, along>>,
                         OppositeChange(across))
  BY DEF LevelRemoved
<1> HIDE DEF at, j
<1>3. Len(predicted) = Len(prev) - 1 /\ Len(predicted) \in Nat
  BY <1>1, Removed
<1> HIDE DEF predicted
<1>4. /\ Len(known) = IF Len(cur) <= Len(predicted) THEN Len(cur) ELSE Len(predicted)
      /\ Len(known) \in Nat
  BY <1>1, <1>3, KnownIs
<1> HIDE DEF known
<1>5. Len(seen) \in Nat
  BY <1>1, <1>4
<1>6. OfLevels(along) /\ (Agrees(along) => Len(predicted) = Len(seen))
  <2> HIDE DEF seen
  <2>1. QED
    BY <1>3, <1>5, ComparisonOfLevels, ComparisonFinds DEF SameLevels
<1>7. Agrees(along) => expected_count
  <2>1. ASSUME Agrees(along), ~(Len(prev) < depth) PROVE expected_count
    <3>1. Len(prev) = depth /\ Len(predicted) = Len(known)
      BY <1>1, <1>6, <2>1, DepthAssumption
    <3>2. Len(predicted) <= Len(cur) /\ Len(cur) <= Len(predicted) + 1
      BY <1>1, <1>3, <1>4, <3>1
    <3>3. QED
      BY <1>1, <1>3, <3>1, <3>2
  <2>2. QED
    BY <2>1
<1>8. consistent \in BOOLEAN /\ refilled \in BOOLEAN
  BY DEF Agrees
<1> HIDE DEF along, refilled, expected_count
<1>9. consistent <=> Agrees(across) /\ Agrees(along)
  BY <1>7
<1> HIDE DEF consistent
<1>10. OppositeChange(across) \cup {"tail_refill_transitions"} # {}
  OBVIOUS
<1>11. CASE consistent /\ refilled
  <2> DEFINE counted == OppositeChange(across) \cup {"tail_refill_transitions"}
  <2>1. /\ "opposite_side_changes" \in counted => ~Agrees(across)
        /\ "quantity_underflows" \notin counted
    BY OppositeChangeIs
  <2>2. "Unverifiable" \in Classes
    BY DEF Classes
  <2>3. j = Judgement("Unverifiable", <<across, along>>, counted)
    BY <1>2, <1>11
  <2> HIDE DEF counted
  <2>4. SoundJudgement(Judgement("Unverifiable", <<across, along>>, counted))
    BY <1>6, <1>9, <1>11, <2>1, <2>2, JudgedByTwo
  <2>5. QED
    BY <2>3, <2>4 DEF j
<1>12. CASE ~(consistent /\ refilled)
  <2>1. /\ MatchingIf(consistent) \in Classes
        /\ MatchingIf(consistent) = "Mismatching" <=> ~consistent
    BY <1>8, MatchingIfIs
  <2>2. /\ "opposite_side_changes" \in OppositeChange(across) => ~Agrees(across)
        /\ "quantity_underflows" \notin OppositeChange(across)
        /\ "tail_refill_transitions" \notin OppositeChange(across)
    BY OppositeChangeIs
  <2>3. SoundJudgement(Judgement(MatchingIf(consistent), <<across, along>>,
                                 OppositeChange(across)))
    BY <1>6, <1>9, <2>1, <2>2, JudgedByTwo
  <2>4. QED
    BY <1>2, <1>12, <2>3 DEF j
<1>13. QED
  BY <1>11, <1>12

LEMMA InSightSound ==
  ASSUME NEW message \in Message, NEW across, OfLevels(across),
         NEW prev \in Seq(AnyLevel), Len(prev) <= depth,
         NEW cur \in Seq(AnyLevel), Len(cur) <= depth,
         PlaceOf(message.price, prev) # 0
  PROVE  SoundJudgement(ReductionInSight(message, across, prev, cur))
<1> DEFINE at == PlaceOf(message.price, prev)
           remark == Remark(SideOf(message), at)
           counted == OppositeChange(across) \cup {"quantity_underflows"}
           j == Judgement("Mismatching", <<across, remark>>, counted)
<1>1. at \in 1 .. Len(prev) /\ Len(cur) \in Nat
  BY PlaceIs, LenProperties
<1>2. ReductionInSight(message, across, prev, cur) =
        IF message.size > prev[at].quantity THEN j
        ELSE IF message.size < prev[at].quantity
        THEN LevelReduced(message, across, prev, cur)
        ELSE LevelRemoved(message, across, prev, cur)
  BY DEF ReductionInSight
<1>3. IsComparison(remark) /\ ~Agrees(remark)
  <2>1. at \in Nat
    BY <1>1
  <2> HIDE DEF at
  <2>2. QED
    BY <2>1, RemarkIs
<1>4. /\ "quantity_underflows" \in counted
      /\ "tail_refill_transitions" \notin counted
  BY OppositeChangeIs
<1> HIDE DEF remark, counted
<1>5. /\ j.classification = "Mismatching"
      /\ j.comparisons = <<across, remark>>
      /\ j.counted = counted
  BY DEF Judgement
<1>6. SoundJudgement(j)
  <2> HIDE DEF j
  <2>1. /\ DOMAIN j.comparisons = 1 .. 2
        /\ j.comparisons[1] = across /\ j.comparisons[2] = remark
    BY <1>5
  <2>2. 2 \in 1 .. 2 /\ \A i \in 1 .. 2 : i = 1 \/ i = 2
    OBVIOUS
  <2>3. \A i \in DOMAIN j.comparisons : Truthful(j.comparisons[i])
    BY <1>3, <2>1, <2>2 DEF Truthful, OfLevels
  <2>4. \E n \in Nat : DOMAIN j.comparisons = 1 .. n
    BY <2>1
  <2>5. \E i \in DOMAIN j.comparisons : ~Agrees(j.comparisons[i])
    BY <1>3, <2>1, <2>2
  <2>6. QED
    BY <1>4, <1>5, <2>3, <2>4, <2>5 DEF SoundJudgement, Classes
<1> HIDE DEF j
<1>7. SoundJudgement(LevelReduced(message, across, prev, cur))
  BY <1>1, ReducedSound
<1>8. SoundJudgement(LevelRemoved(message, across, prev, cur))
  BY RemovedSound
<1>9. QED
  BY <1>2, <1>6, <1>7, <1>8

LEMMA JudgeSound ==
  ASSUME NEW message \in Message, NEW before \in Rows, NEW current \in Rows
  PROVE  SoundJudgement(Judge(message, before, current))
<1> DEFINE side == SideOf(message)
           other == OppositeOf(message)
           across == Comparison(other, before[other], current[other])
<1>1. CASE message.type = 1
  BY <1>1, SubmissionSound DEF Judge
<1>2. CASE message.type \in 2 .. 4
  <2>1. side \in BookSide /\ other \in BookSide
    BY SidesOfMessage
  <2>2. OfLevels(across)
    BY <2>1, AcrossOfLevels
  <2>3. /\ before[side] \in Seq(AnyLevel) /\ Len(before[side]) \in Nat
        /\ Len(before[side]) <= depth
        /\ current[side] \in Seq(AnyLevel) /\ Len(current[side]) \in Nat
        /\ Len(current[side]) <= depth
    BY <2>1, SideOfRow
  <2>4. Judge(message, before, current) =
          validate_reduction_transition(message, before, current)
    <3>1. message.type # 1
      BY <1>2
    <3>2. QED
      BY <1>2, <3>1 DEF Judge
  <2>5. validate_reduction_transition(message, before, current) =
          IF PlaceOf(message.price, before[side]) = 0
          THEN ReductionOutOfSight(message, across, before[side], current[side])
          ELSE ReductionInSight(message, across, before[side], current[side])
    BY DEF validate_reduction_transition
  <2> HIDE DEF across
  <2>6. SoundJudgement(ReductionOutOfSight(message, across, before[side],
                                           current[side]))
    BY <2>2, <2>3, OutOfSightSound
  <2>7. PlaceOf(message.price, before[side]) # 0 =>
          SoundJudgement(ReductionInSight(message, across, before[side],
                                          current[side]))
    BY <2>2, <2>3, InSightSound
  <2>8. QED
    BY <2>4, <2>5, <2>6, <2>7
<1>3. CASE message.type = 5
  <2>1. message.type # 1 /\ ~(message.type \in 2 .. 4)
    BY <1>3
  <2>2. QED
    BY <1>3, <2>1, HiddenSound DEF Judge
<1>4. CASE message.type # 1 /\ ~(message.type \in 2 .. 4) /\ message.type # 5
  <2> DEFINE j == Judgement("Unsupported", <<>>, {})
  <2>1. Judge(message, before, current) = j
    BY <1>4 DEF Judge
  <2>2. /\ j.classification = "Unsupported"
        /\ j.comparisons = <<>>
        /\ j.counted = {}
    BY DEF Judgement
  <2> HIDE DEF j
  <2>3. DOMAIN j.comparisons = {} /\ 1 .. 0 = {}
    BY <2>2
  <2>4. \E n \in Nat : DOMAIN j.comparisons = 1 .. n
    BY <2>3
  <2>5. QED
    BY <2>1, <2>2, <2>3, <2>4 DEF SoundJudgement, Classes
<1>5. QED
  BY <1>1, <1>2, <1>3, <1>4

----------------------------------------------------------------------------
(* What a judgement adds to the summary.                                   *)

CounterNames ==
  {"rows_read", "baseline_rows", "transitions_checked", "matching",
   "mismatching", "unsupported", "unverifiable", "opposite_side_changes",
   "missing_event_price_levels", "quantity_underflows",
   "tail_refill_transitions", "price_mismatches", "quantity_mismatches",
   "missing_level_mismatches"}

IsSummary(t) ==
  /\ DOMAIN t = CounterNames \cup {"first_mismatch"}
  /\ \A name \in CounterNames : t[name] \in Nat

(* The sum of a count over the comparisons.                                *)
LEMMA TotalIs ==
  ASSUME NEW n \in Nat, NEW f, DOMAIN f = 1 .. n, \A i \in 1 .. n : f[i] \in Nat
  PROVE  /\ SumFunction(f) \in Nat
         /\ (\A i \in 1 .. n : f[i] = 0) => SumFunction(f) = 0
         /\ \A i \in 1 .. n : f[i] <= SumFunction(f)
<1>1. IsFiniteSet(1 .. n)
  BY FS_Interval
<1>2. SumFunction(f) = SumFunctionOnSet(f, 1 .. n)
  BY DEF SumFunction
<1>3. SumFunctionOnSet(f, 1 .. n) \in Nat
  BY <1>1, SumNatural
<1>4. (\A i \in 1 .. n : f[i] = 0) => SumFunctionOnSet(f, 1 .. n) = 0
  BY <1>1, SumOfZeros
<1>5. \A i \in 1 .. n : f[i] <= SumFunctionOnSet(f, 1 .. n)
  BY <1>1, SumBounds
<1>6. QED
  BY <1>2, <1>3, <1>4, <1>5

(* The mismatch to keep is there when a comparison does not agree.         *)
LEMMA FirstIs ==
  ASSUME NEW comparisons
  PROVE  /\ (\A i \in DOMAIN comparisons : Agrees(comparisons[i])) =>
              FirstOf(comparisons) = NoMismatch
         /\ (\E i \in DOMAIN comparisons : ~Agrees(comparisons[i])) =>
              /\ FirstOf(comparisons) # NoMismatch
              /\ FirstOf(comparisons).row = s.rows_read + 1
<1> DEFINE wrong == {i \in DOMAIN comparisons : ~Agrees(comparisons[i])}
           first == comparisons[Min(wrong)]
           found == [row |-> s.rows_read + 1, side |-> first.side,
                     level |-> first.first]
<1>1. FirstOf(comparisons) = IF wrong = {} THEN NoMismatch ELSE found
  BY DEF FirstOf
<1>2. "row" \in DOMAIN found /\ DOMAIN NoMismatch = {}
  BY DEF NoMismatch
<1>3. found # NoMismatch /\ found.row = s.rows_read + 1
  BY <1>2
<1> HIDE DEF found
<1>4. QED
  BY <1>1, <1>3

One(truth) == IF truth THEN 1 ELSE 0

(* The counters after a judgement, in terms of what it found.              *)
LEMMA CountedIs ==
  ASSUME IsSummary(s), NEW j, SoundJudgement(j)
  PROVE  LET t == Counted(j)
             wrong == j.classification = "Mismatching"
         IN  /\ IsSummary(t)
             /\ t.rows_read = s.rows_read + 1
             /\ t.baseline_rows = s.baseline_rows
             /\ t.transitions_checked = s.transitions_checked + 1
             /\ t.matching = s.matching + One(j.classification = "Matching")
             /\ t.mismatching = s.mismatching + One(wrong)
             /\ t.unsupported = s.unsupported + One(j.classification = "Unsupported")
             /\ t.unverifiable = s.unverifiable + One(j.classification = "Unverifiable")
             /\ t.opposite_side_changes = s.opposite_side_changes
                  + One("opposite_side_changes" \in j.counted)
             /\ t.missing_event_price_levels = s.missing_event_price_levels
                  + One("missing_event_price_levels" \in j.counted)
             /\ t.quantity_underflows = s.quantity_underflows
                  + One("quantity_underflows" \in j.counted)
             /\ t.tail_refill_transitions = s.tail_refill_transitions
                  + One("tail_refill_transitions" \in j.counted)
             /\ \E p, q, l \in Nat :
                  /\ t.price_mismatches = s.price_mismatches + p
                  /\ t.quantity_mismatches = s.quantity_mismatches + q
                  /\ t.missing_level_mismatches = s.missing_level_mismatches + l
                  /\ ~wrong => p = 0 /\ q = 0 /\ l = 0
                  /\ \/ ~wrong
                     \/ p > 0 \/ q > 0 \/ l > 0
                     \/ "quantity_underflows" \in j.counted
                     \/ "missing_event_price_levels" \in j.counted
             /\ t.first_mismatch = Captured(j.comparisons)
<1> DEFINE c == j.comparisons
           p == SumFunction([i \in DOMAIN c |-> c[i].prices])
           q == SumFunction([i \in DOMAIN c |-> c[i].quantities])
           l == SumFunction([i \in DOMAIN c |-> c[i].missing])
           wrong == j.classification = "Mismatching"
           opposite == s.opposite_side_changes
                         + One("opposite_side_changes" \in j.counted)
           absent == s.missing_event_price_levels
                       + One("missing_event_price_levels" \in j.counted)
           underflows == s.quantity_underflows
                           + One("quantity_underflows" \in j.counted)
           refills == s.tail_refill_transitions
                        + One("tail_refill_transitions" \in j.counted)
           matched == s.matching + One(j.classification = "Matching")
           mismatched == s.mismatching + One(wrong)
           skipped == s.unsupported + One(j.classification = "Unsupported")
           unsure == s.unverifiable + One(j.classification = "Unverifiable")
           rows == s.rows_read + 1
           checked == s.transitions_checked + 1
           price == s.price_mismatches + p
           quantity == s.quantity_mismatches + q
           level == s.missing_level_mismatches + l
           first == Captured(c)
           t == Counted(j)
<1>1. t = [s EXCEPT
             !.rows_read = rows,
             !.transitions_checked = checked,
             !.matching = matched,
             !.mismatching = mismatched,
             !.unsupported = skipped,
             !.unverifiable = unsure,
             !.opposite_side_changes = opposite,
             !.missing_event_price_levels = absent,
             !.quantity_underflows = underflows,
             !.tail_refill_transitions = refills,
             !.price_mismatches = price,
             !.quantity_mismatches = quantity,
             !.missing_level_mismatches = level,
             !.first_mismatch = first]
  BY DEF Counted, One
<1>2. PICK n \in Nat : DOMAIN c = 1 .. n
  BY DEF SoundJudgement
<1>3. \A i \in 1 .. n : Truthful(c[i])
  BY <1>2 DEF SoundJudgement
<1>4. /\ p \in Nat /\ q \in Nat /\ l \in Nat
      /\ (\A i \in 1 .. n : Blank(c[i])) => p = 0 /\ q = 0 /\ l = 0
      /\ (\E i \in 1 .. n : ~Blank(c[i])) => p > 0 \/ q > 0 \/ l > 0
  <2> DEFINE prices == [i \in DOMAIN c |-> c[i].prices]
             quantities == [i \in DOMAIN c |-> c[i].quantities]
             missing == [i \in DOMAIN c |-> c[i].missing]
  <2>1. /\ DOMAIN prices = 1 .. n
        /\ DOMAIN quantities = 1 .. n
        /\ DOMAIN missing = 1 .. n
        /\ \A i \in 1 .. n : /\ prices[i] = c[i].prices
                             /\ quantities[i] = c[i].quantities
                             /\ missing[i] = c[i].missing
    BY <1>2
  <2>2. \A i \in 1 .. n : c[i].prices \in Nat /\ c[i].quantities \in Nat /\ c[i].missing \in Nat
    BY <1>3 DEF Truthful, IsComparison
  <2> HIDE DEF prices, quantities, missing, c
  <2>3. /\ SumFunction(prices) \in Nat
        /\ (\A i \in 1 .. n : prices[i] = 0) => SumFunction(prices) = 0
        /\ \A i \in 1 .. n : prices[i] <= SumFunction(prices)
    BY <2>1, <2>2, TotalIs
  <2>4. /\ SumFunction(quantities) \in Nat
        /\ (\A i \in 1 .. n : quantities[i] = 0) => SumFunction(quantities) = 0
        /\ \A i \in 1 .. n : quantities[i] <= SumFunction(quantities)
    BY <2>1, <2>2, TotalIs
  <2>5. /\ SumFunction(missing) \in Nat
        /\ (\A i \in 1 .. n : missing[i] = 0) => SumFunction(missing) = 0
        /\ \A i \in 1 .. n : missing[i] <= SumFunction(missing)
    BY <2>1, <2>2, TotalIs
  <2>6. p = SumFunction(prices) /\ q = SumFunction(quantities) /\ l = SumFunction(missing)
    BY DEF prices, quantities, missing
  <2> HIDE DEF p, q, l
  <2>7. ASSUME NEW i \in 1 .. n, ~Blank(c[i])
        PROVE  p > 0 \/ q > 0 \/ l > 0
    <3>1. c[i].missing > 0 \/ c[i].prices > 0 \/ c[i].quantities > 0
      BY <2>2, <2>7 DEF Blank
    <3>2. c[i].missing <= l /\ c[i].prices <= p /\ c[i].quantities <= q
      BY <2>1, <2>3, <2>4, <2>5, <2>6
    <3>3. l \in Nat /\ p \in Nat /\ q \in Nat
      BY <2>3, <2>4, <2>5, <2>6
    <3>4. QED
      BY <2>2, <3>1, <3>2, <3>3
  <2>8. ASSUME \A i \in 1 .. n : Blank(c[i])
        PROVE  p = 0 /\ q = 0 /\ l = 0
    BY <2>1, <2>3, <2>4, <2>5, <2>6, <2>8 DEF Blank
  <2>9. QED
    BY <2>3, <2>4, <2>5, <2>6, <2>7, <2>8
<1>5. ~wrong => p = 0 /\ q = 0 /\ l = 0
  BY <1>2, <1>3, <1>4 DEF SoundJudgement, Truthful
<1>6. \/ ~wrong
      \/ p > 0 \/ q > 0 \/ l > 0
      \/ "quantity_underflows" \in j.counted
      \/ "missing_event_price_levels" \in j.counted
  BY <1>2, <1>4 DEF SoundJudgement
<1> HIDE DEF p, q, l
<1>7. \A x \in BOOLEAN : One(x) \in Nat
  BY DEF One
<1>8. \A name \in CounterNames : s[name] \in Nat
  BY DEF IsSummary
<1>9. /\ rows \in Nat /\ checked \in Nat /\ matched \in Nat
      /\ mismatched \in Nat /\ skipped \in Nat /\ unsure \in Nat
      /\ opposite \in Nat /\ absent \in Nat /\ underflows \in Nat
      /\ refills \in Nat /\ price \in Nat /\ quantity \in Nat /\ level \in Nat
  BY <1>4, <1>8 DEF CounterNames, One
<1> HIDE DEF rows, checked, matched, mismatched, skipped, unsure, opposite,
             absent, underflows, refills, price, quantity, level, first, t
<1>10. /\ DOMAIN t = CounterNames \cup {"first_mismatch"}
       /\ t.rows_read = rows /\ t.baseline_rows = s.baseline_rows
       /\ t.transitions_checked = checked
       /\ t.matching = matched /\ t.mismatching = mismatched
       /\ t.unsupported = skipped /\ t.unverifiable = unsure
       /\ t.opposite_side_changes = opposite
       /\ t.missing_event_price_levels = absent
       /\ t.quantity_underflows = underflows
       /\ t.tail_refill_transitions = refills
       /\ t.price_mismatches = price
       /\ t.quantity_mismatches = quantity
       /\ t.missing_level_mismatches = level
       /\ t.first_mismatch = first
  BY <1>1 DEF IsSummary, CounterNames
<1>11. IsSummary(t)
  BY <1>8, <1>9, <1>10 DEF IsSummary, CounterNames
<1>12. /\ t.price_mismatches = s.price_mismatches + p
       /\ t.quantity_mismatches = s.quantity_mismatches + q
       /\ t.missing_level_mismatches = s.missing_level_mismatches + l
  BY <1>10 DEF price, quantity, level
<1>13. QED
  BY <1>4, <1>5, <1>6, <1>10, <1>11, <1>12
     DEF t, rows, checked, matched, mismatched, skipped, unsure, opposite,
         absent, underflows, refills, first

----------------------------------------------------------------------------
(* The summary stays consistent.                                           *)

(* What was counted for the mismatches.                                    *)
Differences ==
  /\ s.mismatching = 0 =>
       /\ s.opposite_side_changes = 0 /\ s.quantity_underflows = 0
       /\ s.price_mismatches = 0 /\ s.quantity_mismatches = 0
       /\ s.missing_level_mismatches = 0
  /\ s.mismatching <= s.quantity_underflows + s.price_mismatches
                       + s.quantity_mismatches + s.missing_level_mismatches
                       + s.missing_event_price_levels

SummaryInv ==
  /\ IsSummary(s)
  /\ IF previous = NoRow
     THEN s.rows_read = 0 /\ s.baseline_rows = 0 /\ s.transitions_checked = 0
     ELSE previous \in Rows
  /\ s.rows_read = s.baseline_rows + s.transitions_checked
  /\ s.transitions_checked =
       s.matching + s.mismatching + s.unsupported + s.unverifiable
  /\ s.mismatching = 0 <=> s.first_mismatch = NoMismatch
  /\ Differences
  /\ s.tail_refill_transitions <= s.unverifiable

LEMMA SummaryInvMeans ==
  ASSUME SummaryInv
  PROVE  SummaryConsistent
<1>1. /\ s.rows_read \in Nat /\ s.mismatching \in Nat
      /\ s.opposite_side_changes \in Nat /\ s.quantity_underflows \in Nat
      /\ s.price_mismatches \in Nat /\ s.quantity_mismatches \in Nat
      /\ s.missing_level_mismatches \in Nat
      /\ s.missing_event_price_levels \in Nat
  BY DEF SummaryInv, IsSummary, CounterNames
<1>2. /\ s.rows_read = s.baseline_rows + s.transitions_checked
      /\ s.transitions_checked =
           s.matching + s.mismatching + s.unsupported + s.unverifiable
      /\ s.mismatching = 0 <=> s.first_mismatch = NoMismatch
      /\ s.tail_refill_transitions <= s.unverifiable
  BY DEF SummaryInv
<1>3. s.mismatching = 0 =>
        s.opposite_side_changes + s.quantity_underflows + s.price_mismatches
          + s.quantity_mismatches + s.missing_level_mismatches = 0
  BY DEF SummaryInv, Differences
<1>4. s.mismatching <= s.opposite_side_changes + s.quantity_underflows
                        + s.price_mismatches + s.quantity_mismatches
                        + s.missing_level_mismatches
                        + s.missing_event_price_levels
  <2>1. s.mismatching <= s.quantity_underflows + s.price_mismatches
                          + s.quantity_mismatches + s.missing_level_mismatches
                          + s.missing_event_price_levels
    BY DEF SummaryInv, Differences
  <2>2. QED
    BY <1>1, <2>1
<1>5. exit_status = 0 <=> status = "returned" /\ s.first_mismatch = NoMismatch
  BY <1>2 DEF exit_status
<1>6. QED
  BY <1>2, <1>3, <1>4, <1>5 DEF SummaryConsistent

LEMMA SummaryInvInit == Init => SummaryInv
<1> SUFFICES ASSUME Init PROVE SummaryInv
  OBVIOUS
<1>1. previous = NoRow /\ s = EmptySummary
  BY DEF Init
<1>2. IsSummary(EmptySummary)
  BY DEF IsSummary, EmptySummary, CounterNames
<1>3. QED
  BY <1>1, <1>2 DEF SummaryInv, Differences, EmptySummary

LEMMA SummaryInvKept ==
  ASSUME SummaryInv, UNCHANGED <<previous, s>>
  PROVE  SummaryInv'
BY DEF SummaryInv, Differences, IsSummary

LEMMA BaselineSummary ==
  ASSUME SummaryInv, NEW current \in Rows, ReadBaseline(current)
  PROVE  SummaryInv' /\ s'.first_mismatch = s.first_mismatch
<1>1. /\ previous = NoRow /\ previous' = current
      /\ s' = [s EXCEPT !.rows_read = 1, !.baseline_rows = 1]
  BY DEF ReadBaseline
<1>2. IsSummary(s)
  BY DEF SummaryInv
<1>3. /\ DOMAIN s' = DOMAIN s
      /\ s'.rows_read = 1 /\ s'.baseline_rows = 1
      /\ \A name \in (CounterNames \cup {"first_mismatch"})
                       \ {"rows_read", "baseline_rows"} : s'[name] = s[name]
  BY <1>1, <1>2 DEF IsSummary, CounterNames
<1>4. IsSummary(s')
  BY <1>2, <1>3 DEF IsSummary
<1>5. /\ s'.transitions_checked = s.transitions_checked
      /\ s'.matching = s.matching /\ s'.mismatching = s.mismatching
      /\ s'.unsupported = s.unsupported /\ s'.unverifiable = s.unverifiable
      /\ s'.opposite_side_changes = s.opposite_side_changes
      /\ s'.missing_event_price_levels = s.missing_event_price_levels
      /\ s'.quantity_underflows = s.quantity_underflows
      /\ s'.tail_refill_transitions = s.tail_refill_transitions
      /\ s'.price_mismatches = s.price_mismatches
      /\ s'.quantity_mismatches = s.quantity_mismatches
      /\ s'.missing_level_mismatches = s.missing_level_mismatches
      /\ s'.first_mismatch = s.first_mismatch
  BY <1>3 DEF CounterNames
<1>6. current # NoRow
  <2>1. DOMAIN current = BookSide
    BY RowsAssumption
  <2>2. "bids" \in DOMAIN current /\ DOMAIN NoRow = {}
    BY <2>1 DEF BookSide, NoRow
  <2>3. QED
    BY <2>2
<1>7. s.transitions_checked = 0
  BY <1>1 DEF SummaryInv
<1>8. s'.rows_read = s'.baseline_rows + s'.transitions_checked
  BY <1>3, <1>5, <1>7
<1>9. Differences'
  BY <1>5 DEF SummaryInv, Differences
<1>10. QED
  BY <1>1, <1>4, <1>5, <1>6, <1>8, <1>9 DEF SummaryInv

LEMMA TransitionSummary ==
  ASSUME SummaryInv, NEW current \in Rows, NEW message \in Messages,
         CheckTransition(message, current)
  PROVE  /\ SummaryInv'
         /\ s'.first_mismatch # s.first_mismatch =>
              /\ s.mismatching = 0
              /\ s'.mismatching = 1
              /\ s'.first_mismatch.row = s'.rows_read
<1> DEFINE j == Judge(message, previous, current)
           class == j.classification
           wrong == class = "Mismatching"
           more(name) == One(name \in j.counted)
<1>1. /\ previous # NoRow /\ previous' = current /\ s' = Counted(j)
  BY DEF CheckTransition, Judged
<1>2. previous \in Rows /\ IsSummary(s) /\ message \in Message
  BY <1>1, MessagesAssumption DEF SummaryInv, Message
<1>3. SoundJudgement(j)
  BY <1>2, JudgeSound
<1> HIDE DEF j
<1>4. /\ IsSummary(s')
      /\ s'.rows_read = s.rows_read + 1
      /\ s'.baseline_rows = s.baseline_rows
      /\ s'.transitions_checked = s.transitions_checked + 1
      /\ s'.matching = s.matching + One(class = "Matching")
      /\ s'.mismatching = s.mismatching + One(wrong)
      /\ s'.unsupported = s.unsupported + One(class = "Unsupported")
      /\ s'.unverifiable = s.unverifiable + One(class = "Unverifiable")
      /\ s'.opposite_side_changes = s.opposite_side_changes + more("opposite_side_changes")
      /\ s'.missing_event_price_levels =
           s.missing_event_price_levels + more("missing_event_price_levels")
      /\ s'.quantity_underflows = s.quantity_underflows + more("quantity_underflows")
      /\ s'.tail_refill_transitions =
           s.tail_refill_transitions + more("tail_refill_transitions")
      /\ s'.first_mismatch = Captured(j.comparisons)
  BY <1>1, <1>2, <1>3, CountedIs
<1>5. PICK p \in Nat, q \in Nat, l \in Nat :
        /\ s'.price_mismatches = s.price_mismatches + p
        /\ s'.quantity_mismatches = s.quantity_mismatches + q
        /\ s'.missing_level_mismatches = s.missing_level_mismatches + l
        /\ ~wrong => p = 0 /\ q = 0 /\ l = 0
        /\ \/ ~wrong
           \/ p > 0 \/ q > 0 \/ l > 0
           \/ "quantity_underflows" \in j.counted
           \/ "missing_event_price_levels" \in j.counted
  BY <1>1, <1>2, <1>3, CountedIs
<1>6. /\ s.rows_read \in Nat /\ s.baseline_rows \in Nat
      /\ s.transitions_checked \in Nat /\ s.matching \in Nat
      /\ s.mismatching \in Nat /\ s.unsupported \in Nat
      /\ s.unverifiable \in Nat /\ s.opposite_side_changes \in Nat
      /\ s.missing_event_price_levels \in Nat /\ s.quantity_underflows \in Nat
      /\ s.tail_refill_transitions \in Nat /\ s.price_mismatches \in Nat
      /\ s.quantity_mismatches \in Nat /\ s.missing_level_mismatches \in Nat
  BY <1>2 DEF IsSummary, CounterNames
<1>7. class \in Classes
  BY <1>3 DEF SoundJudgement
<1>8. current # NoRow
  <2>1. DOMAIN current = BookSide
    BY RowsAssumption
  <2>2. "bids" \in DOMAIN current /\ DOMAIN NoRow = {}
    BY <2>1 DEF BookSide, NoRow
  <2>3. QED
    BY <2>2
<1>9. s'.rows_read = s'.baseline_rows + s'.transitions_checked
  <2>1. s.rows_read = s.baseline_rows + s.transitions_checked
    BY DEF SummaryInv
  <2>2. QED
    BY <1>4, <1>6, <2>1
<1>10. s'.transitions_checked =
         s'.matching + s'.mismatching + s'.unsupported + s'.unverifiable
  <2>1. s.transitions_checked =
          s.matching + s.mismatching + s.unsupported + s.unverifiable
    BY DEF SummaryInv
  <2>2. CASE class = "Matching"
    BY <1>4, <1>6, <2>1, <2>2 DEF One
  <2>3. CASE class = "Mismatching"
    BY <1>4, <1>6, <2>1, <2>3 DEF One
  <2>4. CASE class = "Unsupported"
    BY <1>4, <1>6, <2>1, <2>4 DEF One
  <2>5. CASE class = "Unverifiable"
    BY <1>4, <1>6, <2>1, <2>5 DEF One
  <2>6. QED
    BY <1>7, <2>2, <2>3, <2>4, <2>5 DEF Classes
<1>11. /\ ~wrong => FirstOf(j.comparisons) = NoMismatch
       /\ wrong => /\ FirstOf(j.comparisons) # NoMismatch
                   /\ FirstOf(j.comparisons).row = s.rows_read + 1
  BY <1>3, FirstIs DEF SoundJudgement
<1>12. s.mismatching = 0 <=> s.first_mismatch = NoMismatch
  BY DEF SummaryInv
<1>13. /\ s'.mismatching = 0 <=> s'.first_mismatch = NoMismatch
       /\ s'.first_mismatch # s.first_mismatch =>
            /\ s.mismatching = 0 /\ s'.mismatching = 1
            /\ s'.first_mismatch.row = s'.rows_read
  <2>1. s'.mismatching = s.mismatching + (IF wrong THEN 1 ELSE 0)
    BY <1>4 DEF One
  <2>2. s'.first_mismatch = IF s.first_mismatch = NoMismatch
                            THEN FirstOf(j.comparisons) ELSE s.first_mismatch
    BY <1>4 DEF Captured
  <2>3. CASE wrong
    BY <1>4, <1>6, <1>11, <1>12, <2>1, <2>2, <2>3
  <2>4. CASE ~wrong
    BY <1>4, <1>6, <1>11, <1>12, <2>1, <2>2, <2>4
  <2>5. QED
    BY <2>3, <2>4
<1>14. s'.tail_refill_transitions <= s'.unverifiable
  <2>1. s.tail_refill_transitions <= s.unverifiable
    BY DEF SummaryInv
  <2>2. "tail_refill_transitions" \in j.counted => class = "Unverifiable"
    BY <1>3 DEF SoundJudgement
  <2>3. CASE class = "Unverifiable"
    BY <1>4, <1>6, <2>1, <2>3 DEF One
  <2>4. CASE class # "Unverifiable"
    BY <1>4, <1>6, <2>1, <2>2, <2>4 DEF One
  <2>5. QED
    BY <2>3, <2>4
<1>15. Differences'
  <2>1. Differences
    BY DEF SummaryInv
  <2>2. CASE wrong
    <3>1. s'.mismatching = s.mismatching + 1
      BY <1>4, <2>2 DEF One
    <3>2. /\ s'.quantity_underflows \in Nat
          /\ s'.missing_event_price_levels \in Nat
          /\ s.quantity_underflows <= s'.quantity_underflows
          /\ s.missing_event_price_levels <= s'.missing_event_price_levels
          /\ "quantity_underflows" \in j.counted =>
               s.quantity_underflows + 1 = s'.quantity_underflows
          /\ "missing_event_price_levels" \in j.counted =>
               s.missing_event_price_levels + 1 = s'.missing_event_price_levels
      BY <1>4, <1>6 DEF One
    <3>3. \/ p > 0 \/ q > 0 \/ l > 0
          \/ s.quantity_underflows + 1 = s'.quantity_underflows
          \/ s.missing_event_price_levels + 1 = s'.missing_event_price_levels
      BY <1>5, <2>2, <3>2
    <3>4. s.mismatching <= s.quantity_underflows + s.price_mismatches
                            + s.quantity_mismatches + s.missing_level_mismatches
                            + s.missing_event_price_levels
      BY <2>1 DEF Differences
    <3>5. s'.mismatching <= s'.quantity_underflows + s'.price_mismatches
                             + s'.quantity_mismatches
                             + s'.missing_level_mismatches
                             + s'.missing_event_price_levels
      BY <1>5, <1>6, <3>1, <3>2, <3>3, <3>4
    <3>6. s'.mismatching # 0
      BY <1>6, <3>1
    <3>7. QED
      BY <3>5, <3>6 DEF Differences
  <2>3. CASE ~wrong
    <3>1. /\ s'.mismatching = s.mismatching
          /\ s'.price_mismatches = s.price_mismatches
          /\ s'.quantity_mismatches = s.quantity_mismatches
          /\ s'.missing_level_mismatches = s.missing_level_mismatches
      BY <1>4, <1>5, <1>6, <2>3 DEF One
    <3>2. /\ s'.opposite_side_changes = s.opposite_side_changes
          /\ s'.quantity_underflows = s.quantity_underflows
      <4>1. /\ "opposite_side_changes" \notin j.counted
            /\ "quantity_underflows" \notin j.counted
        BY <1>3, <2>3 DEF SoundJudgement
      <4>2. QED
        BY <1>4, <1>6, <4>1 DEF One
    <3>3. /\ s'.missing_event_price_levels \in Nat
          /\ s.missing_event_price_levels <= s'.missing_event_price_levels
      BY <1>4, <1>6 DEF One
    <3>4. s'.mismatching <= s'.quantity_underflows + s'.price_mismatches
                             + s'.quantity_mismatches
                             + s'.missing_level_mismatches
                             + s'.missing_event_price_levels
      BY <1>6, <2>1, <3>1, <3>2, <3>3 DEF Differences
    <3>5. QED
      BY <2>1, <3>1, <3>2, <3>4 DEF Differences
  <2>4. QED
    BY <2>2, <2>3
<1>16. SummaryInv'
  BY <1>1, <1>4, <1>8, <1>9, <1>10, <1>13, <1>14, <1>15 DEF SummaryInv
<1>17. QED
  BY <1>13, <1>16

LEMMA SummaryInvNext ==
  ASSUME SummaryInv, [Next]_vars
  PROVE  /\ SummaryInv'
         /\ s'.first_mismatch # s.first_mismatch =>
              /\ s.mismatching = 0
              /\ s'.mismatching = 1
              /\ s'.first_mismatch.row = s'.rows_read
<1>1. CASE \E current \in Rows : ReadBaseline(current)
  BY <1>1, BaselineSummary
<1>2. CASE \E current \in Rows, message \in Messages :
             CheckTransition(message, current)
  BY <1>2, TransitionSummary
<1>3. CASE Throw
  BY <1>3, SummaryInvKept DEF Throw
<1>4. CASE Return
  BY <1>4, SummaryInvKept DEF Return
<1>5. CASE UNCHANGED vars
  BY <1>5, SummaryInvKept DEF vars
<1>6. QED
  BY <1>1, <1>2, <1>3, <1>4, <1>5 DEF Next

(* The summary of a validation of transitions is consistent: its counters  *)
(* add up, "no mismatch" and "nothing differed" are the same, and so is an *)
(* exit status of 0 once the validation has returned.                      *)
THEOREM SummaryIsConsistent == Spec => []SummaryConsistent
<1>1. Init => SummaryInv
  BY SummaryInvInit
<1>2. SummaryInv /\ [Next]_vars => SummaryInv'
  BY SummaryInvNext
<1>3. SummaryInv => SummaryConsistent
  BY SummaryInvMeans
<1>4. QED
  BY <1>1, <1>2, <1>3, PTL DEF Spec

----------------------------------------------------------------------------
(* Ladders and the whole books they show.                                  *)

LEMMA BetterIs ==
  ASSUME NEW side \in BookSide
  PROVE  /\ \A p \in Int : ~Better(side, p, p)
         /\ \A p, q \in Int : p # q => Better(side, p, q) \/ Better(side, q, p)
         /\ \A p, q \in Int : Better(side, p, q) => ~Better(side, q, p)
         /\ \A p, q, r \in Int :
              Better(side, p, q) /\ Better(side, q, r) => Better(side, p, r)
BY DEF Better

Sorted(side, levels) ==
  /\ levels \in Seq(AnyLevel)
  /\ \A i, k \in 1 .. Len(levels) :
       i < k => Better(side, levels[i].price, levels[k].price)

Visible(levels) == {levels[i].price : i \in 1 .. Len(levels)}

(* The ladder shows the best levels of a book, however long it is.         *)
ShowsBest(side, book, levels) ==
  /\ Visible(levels) \subseteq DOMAIN book
  /\ \A i \in 1 .. Len(levels) : levels[i].quantity = book[levels[i].price]
  /\ \A p \in Visible(levels), q \in DOMAIN book \ Visible(levels) :
       Better(side, p, q)

LEMMA LevelsAre ==
  ASSUME NEW levels \in Seq(AnyLevel)
  PROVE  /\ Len(levels) \in Nat
         /\ DOMAIN levels = 1 .. Len(levels)
         /\ \A i \in 1 .. Len(levels) :
              /\ levels[i] \in AnyLevel
              /\ levels[i].price \in Int
              /\ levels[i].quantity \in Int
         /\ Visible(levels) \subseteq Int
<1>1. /\ Len(levels) \in Nat
      /\ DOMAIN levels = 1 .. Len(levels)
      /\ \A i \in 1 .. Len(levels) : levels[i] \in AnyLevel
  BY LenProperties
<1>2. QED
  BY <1>1 DEF Visible, AnyLevel

LEMMA ShowsIs ==
  ASSUME NEW side, NEW book, NEW levels \in Seq(AnyLevel)
  PROVE  Shows(side, book, levels) <=>
           /\ ShowsBest(side, book, levels)
           /\ Len(levels) < depth => Visible(levels) = DOMAIN book
<1>1. DOMAIN levels = 1 .. Len(levels)
  BY LevelsAre
<1>2. Visible(levels) = {levels[i].price : i \in DOMAIN levels}
  BY <1>1 DEF Visible
<1>3. QED
  BY <1>1, <1>2 DEF Shows, ShowsBest

(* A ladder gets worse from level to level, and so it is sorted.           *)
LEMMA LaddersAreSorted ==
  ASSUME NEW side \in BookSide, NEW levels, IsLadder(side, levels)
  PROVE  Sorted(side, levels)
<1>1. levels \in Seq(AnyLevel)
  <2>1. levels \in Seq(Level) /\ Level \subseteq AnyLevel
    BY DEF IsLadder, Level, AnyLevel
  <2>2. QED
    BY <2>1, SeqMonotonic
<1>2. /\ Len(levels) \in Nat
      /\ \A i \in 1 .. Len(levels) : levels[i].price \in Int
  BY <1>1, LevelsAre
<1>3. ASSUME NEW i \in 1 .. Len(levels)
      PROVE  \A k \in 1 .. Len(levels) :
               i < k => Better(side, levels[i].price, levels[k].price)
  <2> DEFINE F == {k \in 1 .. Len(levels) :
                     i < k /\ ~Better(side, levels[i].price, levels[k].price)}
  <2> SUFFICES ASSUME F # {} PROVE FALSE
    OBVIOUS
  <2>1. F \subseteq Nat
    BY <1>2
  <2>2. PICK k \in F : \A n \in F : k <= n
    BY <2>1, LeastNatural
  <2>3. /\ k \in 2 .. Len(levels) /\ k - 1 \in 1 .. Len(levels)
        /\ k - 1 >= i /\ i \in Int /\ k \in Int
    BY <1>2, <2>2
  <2>4. Better(side, levels[k - 1].price, levels[k].price)
    BY <2>3 DEF IsLadder
  <2>5. CASE k - 1 = i
    BY <2>2, <2>4, <2>5
  <2>6. CASE k - 1 # i
    <3>1. k - 1 \notin F /\ i < k - 1
      BY <2>2, <2>3, <2>6
    <3>2. Better(side, levels[i].price, levels[k - 1].price)
      BY <2>3, <3>1
    <3>3. levels[i].price \in Int /\ levels[k - 1].price \in Int /\ levels[k].price \in Int
      BY <1>2, <2>2, <2>3
    <3> HIDE DEF F
    <3>4. Better(side, levels[i].price, levels[k].price)
      BY <2>4, <3>2, <3>3, BetterIs
    <3>5. QED
      BY <2>2, <3>4 DEF F
  <2>7. QED
    BY <2>5, <2>6
<1>4. QED
  BY <1>1, <1>3 DEF Sorted

(* Of two ladders that show the best of one book, neither has a better     *)
(* level at the first place where they differ ...                          *)
LEMMA NeitherIsBetter ==
  ASSUME NEW side \in BookSide, NEW book,
         NEW a, Sorted(side, a), ShowsBest(side, book, a),
         NEW b, Sorted(side, b), ShowsBest(side, book, b),
         NEW i \in 1 .. Len(a), i <= Len(b),
         \A k \in 1 .. i - 1 : a[k].price = b[k].price
  PROVE  ~Better(side, a[i].price, b[i].price)
<1> SUFFICES ASSUME Better(side, a[i].price, b[i].price) PROVE FALSE
  OBVIOUS
<1>1. /\ a \in Seq(AnyLevel) /\ b \in Seq(AnyLevel)
      /\ Len(a) \in Nat /\ Len(b) \in Nat
      /\ \A k \in 1 .. Len(a) : a[k].price \in Int
      /\ \A k \in 1 .. Len(b) : b[k].price \in Int
  BY LevelsAre DEF Sorted
<1>2. i \in 1 .. Len(b) /\ a[i].price \in Int /\ b[i].price \in Int
  BY <1>1
<1>3. ASSUME NEW k \in 1 .. Len(b) PROVE b[k].price # a[i].price
  <2>1. CASE k < i
    <3>1. a[k].price = b[k].price /\ k \in 1 .. Len(a)
      BY <1>1, <2>1
    <3>2. Better(side, a[k].price, a[i].price)
      BY <2>1, <3>1 DEF Sorted
    <3>3. QED
      BY <1>2, <3>1, <3>2, BetterIs
  <2>2. CASE k = i
    BY <1>2, <2>2, BetterIs
  <2>3. CASE k > i
    <3>1. Better(side, b[i].price, b[k].price)
      BY <1>2, <2>3 DEF Sorted
    <3>2. QED
      BY <1>1, <1>2, <3>1, BetterIs
  <2>4. QED
    BY <1>1, <2>1, <2>2, <2>3
<1>4. a[i].price \in DOMAIN book \ Visible(b)
  BY <1>3 DEF ShowsBest, Visible
<1>5. b[i].price \in Visible(b)
  BY <1>2 DEF Visible
<1>6. Better(side, b[i].price, a[i].price)
  BY <1>4, <1>5 DEF ShowsBest
<1>7. QED
  BY <1>2, <1>6, BetterIs

(* ... so they agree as far as both go, and the shorter one does not show  *)
(* the whole book.                                                         *)
LEMMA BestAgree ==
  ASSUME NEW side \in BookSide, NEW book,
         NEW a, Sorted(side, a), ShowsBest(side, book, a),
         NEW b, Sorted(side, b), ShowsBest(side, book, b)
  PROVE  /\ \A i \in 1 .. Len(a) : i <= Len(b) => a[i] = b[i]
         /\ Len(a) < Len(b) => Visible(a) # DOMAIN book
<1>1. /\ a \in Seq(AnyLevel) /\ b \in Seq(AnyLevel)
      /\ Len(a) \in Nat /\ Len(b) \in Nat
      /\ \A k \in 1 .. Len(a) : a[k].price \in Int /\ a[k] \in AnyLevel
      /\ \A k \in 1 .. Len(b) : b[k].price \in Int /\ b[k] \in AnyLevel
  BY LevelsAre DEF Sorted
<1> DEFINE F == {i \in 1 .. Len(a) : i <= Len(b) /\ a[i].price # b[i].price}
<1>2. ASSUME F # {} PROVE FALSE
  <2>1. F \subseteq Nat
    BY <1>1
  <2>2. PICK i \in F : \A n \in F : i <= n
    BY <1>2, <2>1, LeastNatural
  <2>3. i \in 1 .. Len(a) /\ i \in 1 .. Len(b) /\ i <= Len(a) /\ i <= Len(b)
    BY <1>1, <2>2
  <2>4. \A k \in 1 .. i - 1 : a[k].price = b[k].price /\ b[k].price = a[k].price
    <3>1. \A k \in 1 .. i - 1 : k \in 1 .. Len(a) /\ k <= Len(b) /\ ~(i <= k)
      BY <1>1, <2>3
    <3>2. QED
      BY <2>2, <3>1
  <2> HIDE DEF F
  <2>5. ~Better(side, a[i].price, b[i].price)
    BY <2>3, <2>4, NeitherIsBetter
  <2>6. ~Better(side, b[i].price, a[i].price)
    BY <2>3, <2>4, NeitherIsBetter
  <2>7. a[i].price \in Int /\ b[i].price \in Int /\ a[i].price # b[i].price
    BY <1>1, <2>2, <2>3 DEF F
  <2>8. QED
    BY <2>5, <2>6, <2>7, BetterIs
<1>3. \A i \in 1 .. Len(a) : i <= Len(b) => a[i].price = b[i].price
  BY <1>2
<1> HIDE DEF F
<1>4. ASSUME NEW i \in 1 .. Len(a), i <= Len(b) PROVE a[i] = b[i]
  <2>1. i \in 1 .. Len(b) /\ a[i].price = b[i].price
    BY <1>1, <1>3, <1>4
  <2>2. a[i].quantity = b[i].quantity
    BY <2>1 DEF ShowsBest
  <2>3. a[i] \in AnyLevel /\ b[i] \in AnyLevel
    BY <1>1, <2>1
  <2>4. QED
    BY <2>1, <2>2, <2>3 DEF AnyLevel
<1>5. ASSUME Len(a) < Len(b) PROVE Visible(a) # DOMAIN book
  <2> DEFINE k == Len(a) + 1
  <2>1. k \in 1 .. Len(b)
    BY <1>1, <1>5
  <2>2. b[k].price \in DOMAIN book
    BY <2>1 DEF ShowsBest, Visible
  <2>3. ASSUME NEW i \in 1 .. Len(a) PROVE a[i].price # b[k].price
    <3>1. i \in 1 .. Len(b) /\ i <= Len(b) /\ i < k
      BY <1>1, <1>5
    <3>2. a[i].price = b[i].price
      BY <1>3, <3>1
    <3>3. Better(side, b[i].price, b[k].price)
      BY <2>1, <3>1 DEF Sorted
    <3>4. b[i].price \in Int /\ b[k].price \in Int
      BY <1>1, <2>1, <3>1
    <3>5. QED
      BY <3>2, <3>3, <3>4, BetterIs
  <2>4. b[k].price \notin Visible(a)
    BY <2>3 DEF Visible
  <2>5. QED
    BY <2>2, <2>4
<1>6. QED
  BY <1>4, <1>5

(* What a row shows of a book is determined by the book.                   *)
LEMMA OneLadderShows ==
  ASSUME NEW side \in BookSide, NEW book,
         NEW a, Sorted(side, a), Shows(side, book, a), Len(a) <= depth,
         NEW b, Sorted(side, b), Shows(side, book, b), Len(b) <= depth
  PROVE  a = b
<1>1. a \in Seq(AnyLevel) /\ b \in Seq(AnyLevel) /\ Len(a) \in Nat /\ Len(b) \in Nat
  BY LevelsAre DEF Sorted
<1>2. /\ ShowsBest(side, book, a) /\ ShowsBest(side, book, b)
      /\ Len(a) < depth => Visible(a) = DOMAIN book
      /\ Len(b) < depth => Visible(b) = DOMAIN book
  BY <1>1, ShowsIs
<1>3. /\ \A i \in 1 .. Len(a) : i <= Len(b) => a[i] = b[i]
      /\ Len(a) < Len(b) => Visible(a) # DOMAIN book
      /\ Len(b) < Len(a) => Visible(b) # DOMAIN book
  BY <1>2, BestAgree
<1>4. Len(a) = Len(b)
  BY <1>1, <1>2, <1>3, DepthAssumption
<1>5. \A i \in 1 .. Len(a) : a[i] = b[i]
  BY <1>1, <1>3, <1>4
<1>6. QED
  BY <1>1, <1>4, <1>5, SeqEqual

----------------------------------------------------------------------------
(* What a message does to a book shows in the ladder that is predicted.    *)

(* A price is at one place of a sorted ladder only.                        *)
LEMMA OnePlace ==
  ASSUME NEW side \in BookSide, NEW levels, Sorted(side, levels),
         NEW i \in 1 .. Len(levels), NEW k \in 1 .. Len(levels), i # k
  PROVE  levels[i].price # levels[k].price
<1>1. /\ i \in Nat /\ k \in Nat
      /\ levels[i].price \in Int /\ levels[k].price \in Int
  BY LevelsAre DEF Sorted
<1>2. CASE i < k
  <2>1. Better(side, levels[i].price, levels[k].price)
    BY <1>2 DEF Sorted
  <2>2. QED
    BY <1>1, <2>1, BetterIs
<1>3. CASE k < i
  <2>1. Better(side, levels[k].price, levels[i].price)
    BY <1>3 DEF Sorted
  <2>2. QED
    BY <1>1, <2>1, BetterIs
<1>4. QED
  BY <1>1, <1>2, <1>3

(* The quantity of a visible level changes.                                *)
LEMMA RequantifiedShows ==
  ASSUME NEW side \in BookSide, NEW levels, Sorted(side, levels),
         NEW book, Shows(side, book, levels), NEW q \in Int,
         NEW at \in 1 .. Len(levels),
         NEW new \in Seq(AnyLevel), Len(new) = Len(levels),
         \A k \in 1 .. Len(levels) :
           /\ new[k].price = levels[k].price
           /\ new[k].quantity = IF k = at THEN q ELSE levels[k].quantity,
         NEW after, DOMAIN after = DOMAIN book, after[levels[at].price] = q,
         \A r \in DOMAIN book : r # levels[at].price => after[r] = book[r]
  PROVE  Sorted(side, new) /\ Shows(side, after, new)
<1> DEFINE p == levels[at].price
<1>1. levels \in Seq(AnyLevel) /\ Len(levels) \in Nat
  BY LevelsAre DEF Sorted
<1>2. \A k \in 1 .. Len(levels) :
        /\ new[k].price = levels[k].price
        /\ new[k].quantity = IF k = at THEN q ELSE levels[k].quantity
  OBVIOUS
<1>3. /\ ShowsBest(side, book, levels)
      /\ Len(levels) < depth => Visible(levels) = DOMAIN book
  BY <1>1, ShowsIs
<1>4. p \in Visible(levels) /\ p \in DOMAIN book
  BY <1>3 DEF ShowsBest, Visible
<1>5. /\ DOMAIN after = DOMAIN book
      /\ after[p] = q
      /\ \A r \in DOMAIN book : r # p => after[r] = book[r]
  OBVIOUS
<1>6. Visible(new) = Visible(levels)
  BY <1>2 DEF Visible
<1>7. Sorted(side, new)
  BY <1>2 DEF Sorted
<1>8. ASSUME NEW k \in 1 .. Len(levels) PROVE new[k].quantity = after[new[k].price]
  <2>1. CASE k = at
    BY <1>2, <1>5, <2>1
  <2>2. CASE k # at
    <3>1. levels[k].price # p /\ levels[k].price \in DOMAIN book
      BY <1>3, <2>2, OnePlace DEF ShowsBest, Visible
    <3>2. levels[k].quantity = book[levels[k].price]
      BY <1>3 DEF ShowsBest
    <3>3. QED
      BY <1>2, <1>5, <2>2, <3>1, <3>2
  <2>3. QED
    BY <2>1, <2>2
<1>9. ShowsBest(side, after, new)
  BY <1>2, <1>3, <1>5, <1>6, <1>8 DEF ShowsBest
<1>10. Shows(side, after, new)
  BY <1>2, <1>3, <1>5, <1>6, <1>9, ShowsIs
<1>11. QED
  BY <1>7, <1>10

(* What changes behind a full ladder does not show.                        *)
LEMMA HiddenShows ==
  ASSUME NEW side \in BookSide, NEW levels, Sorted(side, levels),
         Len(levels) = depth, NEW book, ShowsBest(side, book, levels),
         NEW after, DOMAIN after \subseteq DOMAIN book,
         Visible(levels) \subseteq DOMAIN after,
         \A p \in Visible(levels) : after[p] = book[p]
  PROVE  Shows(side, after, levels)
<1>1. levels \in Seq(AnyLevel)
  BY DEF Sorted
<1>2. ~(Len(levels) < depth)
  BY DepthAssumption
<1>3. \A i \in 1 .. Len(levels) : levels[i].price \in Visible(levels)
  BY DEF Visible
<1>4. ShowsBest(side, after, levels)
  BY <1>3 DEF ShowsBest
<1>5. QED
  BY <1>1, <1>2, <1>4, ShowsIs

(* A visible level goes.                                                   *)
LEMMA RemovedShows ==
  ASSUME NEW side \in BookSide, NEW levels, Sorted(side, levels),
         NEW book, ShowsBest(side, book, levels), NEW at \in 1 .. Len(levels)
  PROVE  LET rest == RemoveAt(levels, at)
             p == levels[at].price
         IN  /\ Sorted(side, rest)
             /\ Len(rest) = Len(levels) - 1
             /\ Visible(rest) = Visible(levels) \ {p}
             /\ ShowsBest(side, Restrict(book, DOMAIN book \ {p}), rest)
<1> DEFINE rest == RemoveAt(levels, at)
           p == levels[at].price
           after == Restrict(book, DOMAIN book \ {p})
<1>1. /\ levels \in Seq(AnyLevel) /\ Len(levels) \in Nat /\ at \in Nat
      /\ \A k \in 1 .. Len(levels) : levels[k].price \in Int
  BY LevelsAre DEF Sorted
<1>2. /\ rest \in Seq(AnyLevel) /\ Len(rest) = Len(levels) - 1
      /\ \A k \in 1 .. Len(levels) - 1 :
           rest[k] = IF k < at THEN levels[k] ELSE levels[k + 1]
  BY <1>1, Removed
<1>3. /\ DOMAIN after = DOMAIN book \ {p}
      /\ \A q \in DOMAIN book \ {p} : after[q] = book[q]
  BY DEF Restrict
<1> HIDE DEF rest, after
<1>4. Sorted(side, rest)
  <2>1. ASSUME NEW i \in 1 .. Len(rest), NEW k \in 1 .. Len(rest), i < k
        PROVE  Better(side, rest[i].price, rest[k].price)
    <3> DEFINE to(n) == IF n < at THEN n ELSE n + 1
    <3>1. /\ rest[i] = levels[to(i)] /\ rest[k] = levels[to(k)]
          /\ to(i) \in 1 .. Len(levels) /\ to(k) \in 1 .. Len(levels)
          /\ to(i) < to(k)
      BY <1>1, <1>2, <2>1
    <3> HIDE DEF to
    <3>2. QED
      BY <3>1 DEF Sorted
  <2>2. QED
    BY <1>2, <2>1 DEF Sorted
<1>5. Visible(rest) = Visible(levels) \ {p}
  <2>1. ASSUME NEW k \in 1 .. Len(rest)
        PROVE  rest[k].price \in Visible(levels) \ {p}
    <3> DEFINE n == IF k < at THEN k ELSE k + 1
    <3>1. rest[k] = levels[n] /\ n \in 1 .. Len(levels) /\ n # at
      BY <1>1, <1>2
    <3> HIDE DEF n
    <3>2. QED
      BY <3>1, OnePlace DEF Visible
  <2>2. ASSUME NEW n \in 1 .. Len(levels), levels[n].price # p
        PROVE  levels[n].price \in Visible(rest)
    <3> DEFINE k == IF n < at THEN n ELSE n - 1
    <3>1. n # at
      BY <2>2
    <3>2. k \in 1 .. Len(rest) /\ rest[k] = levels[n]
      BY <1>1, <1>2, <3>1
    <3> HIDE DEF k
    <3>3. QED
      BY <3>2 DEF Visible
  <2>3. QED
    BY <2>1, <2>2 DEF Visible
<1>6. ASSUME NEW k \in 1 .. Len(rest) PROVE rest[k].quantity = after[rest[k].price]
  <2> DEFINE n == IF k < at THEN k ELSE k + 1
  <2>1. rest[k] = levels[n] /\ n \in 1 .. Len(levels) /\ n # at
    BY <1>1, <1>2
  <2> HIDE DEF n
  <2>2. levels[n].price # p /\ levels[n].price \in DOMAIN book
    BY <2>1, OnePlace DEF ShowsBest, Visible
  <2>3. levels[n].quantity = book[levels[n].price]
    BY <2>1 DEF ShowsBest
  <2>4. QED
    BY <1>3, <2>1, <2>2, <2>3
<1>7. DOMAIN after \ Visible(rest) = DOMAIN book \ Visible(levels)
  <2>1. p \in Visible(levels)
    BY DEF Visible
  <2>2. QED
    BY <1>3, <1>5, <2>1
<1>8. Visible(rest) \subseteq DOMAIN after
  BY <1>3, <1>5 DEF ShowsBest
<1>9. ShowsBest(side, after, rest)
  <2>1. ASSUME NEW q \in Visible(rest), NEW r \in DOMAIN after \ Visible(rest)
        PROVE  Better(side, q, r)
    BY <1>5, <1>7 DEF ShowsBest
  <2>2. QED
    BY <1>6, <1>8, <2>1 DEF ShowsBest
<1>10. QED
  BY <1>2, <1>4, <1>5, <1>9 DEF rest, after

LEMMA AllInSight ==
  ASSUME NEW levels \in Seq(AnyLevel), Len(levels) <= depth
  PROVE  InSight(levels) = levels
<1>1. Len(levels) \in Nat
  BY LenProperties
<1>2. InSight(levels) \in Seq(AnyLevel) /\ Len(InSight(levels)) = Len(levels)
  BY <1>1, InSightIs, DepthAssumption
<1>3. \A k \in 1 .. Len(InSight(levels)) : InSight(levels)[k] = levels[k]
  BY InSightIs
<1>4. QED
  BY <1>2, <1>3, SeqEqual

(* A new level keeps the ladder sorted.                                    *)
LEMMA OpenedSorted ==
  ASSUME NEW message \in Message, NEW levels, Sorted(SideOf(message), levels),
         message.price \notin Visible(levels)
  PROVE  Sorted(SideOf(message), Opened(message, levels))
<1> DEFINE side == SideOf(message)
           p == message.price
           new == Opened(message, levels)
           level == [price |-> p, quantity |-> message.size]
<1>1. /\ levels \in Seq(AnyLevel) /\ Len(levels) \in Nat
      /\ \A k \in 1 .. Len(levels) : levels[k].price \in Int
  BY LevelsAre DEF Sorted
<1>2. new \in Seq(AnyLevel) /\ Len(new) = Len(levels) + 1
  BY <1>1, OpenedIs
<1>3. PICK i \in 1 .. Len(levels) + 1 :
        /\ \A k \in 1 .. i - 1 : ~Better(side, p, levels[k].price)
        /\ i <= Len(levels) => Better(side, p, levels[i].price)
        /\ \A k \in 1 .. Len(levels) + 1 :
             new[k] = IF k < i THEN levels[k]
                      ELSE IF k = i THEN level ELSE levels[k - 1]
  BY <1>1, OpenedIs
<1>4. side \in BookSide /\ p \in Int /\ i \in Nat /\ level.price = p
  BY <1>1, <1>3, SidesOfMessage DEF Message
<1> HIDE DEF side, new, level
<1>5. ASSUME NEW k \in 1 .. Len(levels), k < i
      PROVE  Better(side, levels[k].price, p)
  <2>1. levels[k].price # p /\ levels[k].price \in Int
    BY <1>1 DEF Visible
  <2>2. ~Better(side, p, levels[k].price)
    <3>1. k \in 1 .. i - 1
      BY <1>1, <1>4, <1>5
    <3>2. QED
      BY <1>3, <3>1
  <2>3. QED
    BY <1>4, <2>1, <2>2, BetterIs
<1>6. ASSUME NEW k \in 1 .. Len(levels), i <= k
      PROVE  Better(side, p, levels[k].price)
  <2>1. i \in 1 .. Len(levels) /\ Better(side, p, levels[i].price)
    BY <1>1, <1>3, <1>4, <1>6
  <2>2. CASE k = i
    BY <2>1, <2>2
  <2>3. CASE k # i
    <3>1. Better(side, levels[i].price, levels[k].price)
      BY <1>1, <1>4, <1>6, <2>1, <2>3 DEF Sorted, side
    <3>2. levels[i].price \in Int /\ levels[k].price \in Int
      BY <1>1, <2>1
    <3>3. QED
      BY <1>4, <2>1, <3>1, <3>2, BetterIs
  <2>4. QED
    BY <2>2, <2>3
<1>7. ASSUME NEW j \in 1 .. Len(levels) + 1, NEW k \in 1 .. Len(levels) + 1, j < k
      PROVE  Better(side, new[j].price, new[k].price)
  <2>1. CASE k < i
    <3>1. /\ new[j] = levels[j] /\ new[k] = levels[k]
          /\ j \in 1 .. Len(levels) /\ k \in 1 .. Len(levels)
      BY <1>1, <1>3, <1>4, <1>7, <2>1
    <3>2. QED
      BY <1>7, <3>1 DEF Sorted, side
  <2>2. CASE k = i
    <3>1. new[j] = levels[j] /\ new[k] = level /\ j \in 1 .. Len(levels) /\ j < i
      BY <1>1, <1>3, <1>4, <1>7, <2>2
    <3>2. QED
      BY <1>4, <1>5, <3>1
  <2>3. CASE k > i /\ j = i
    <3>1. /\ new[j] = level /\ new[k] = levels[k - 1]
          /\ k - 1 \in 1 .. Len(levels) /\ i <= k - 1
      <4>1. /\ k - 1 \in 1 .. Len(levels) /\ i <= k - 1
            /\ ~(k < i) /\ k # i /\ ~(j < i) /\ j = i
        BY <1>1, <1>4, <1>7, <2>3
      <4>2. QED
        BY <1>3, <1>7, <4>1
    <3>2. QED
      BY <1>4, <1>6, <3>1
  <2>4. CASE k > i /\ j > i
    <3>1. /\ new[j] = levels[j - 1] /\ new[k] = levels[k - 1]
          /\ j - 1 \in 1 .. Len(levels) /\ k - 1 \in 1 .. Len(levels)
          /\ j - 1 < k - 1
      <4>1. /\ j - 1 \in 1 .. Len(levels) /\ k - 1 \in 1 .. Len(levels)
            /\ j - 1 < k - 1
            /\ ~(k < i) /\ k # i /\ ~(j < i) /\ j # i
        BY <1>1, <1>4, <1>7, <2>4
      <4>2. QED
        BY <1>3, <1>7, <4>1
    <3>2. QED
      BY <3>1 DEF Sorted, side
  <2>5. CASE k > i /\ j < i
    <3>1. /\ new[j] = levels[j] /\ new[k] = levels[k - 1]
          /\ j \in 1 .. Len(levels) /\ k - 1 \in 1 .. Len(levels)
          /\ j < k - 1
      <4>1. /\ j \in 1 .. Len(levels) /\ k - 1 \in 1 .. Len(levels)
            /\ j < k - 1 /\ ~(k < i) /\ k # i
        BY <1>1, <1>4, <1>7, <2>5
      <4>2. QED
        BY <1>3, <2>5, <4>1
    <3>2. QED
      BY <3>1 DEF Sorted, side
  <2>6. j < i \/ j = i \/ j > i
    BY <1>4
  <2>7. k < i \/ k = i \/ k > i
    BY <1>4
  <2>8. QED
    BY <2>1, <2>2, <2>3, <2>4, <2>5, <2>6, <2>7
<1>8. QED
  BY <1>2, <1>7 DEF Sorted, side, new

(* The ladder predicted for a submission shows the book it makes.          *)
LEMMA OpenedShows ==
  ASSUME NEW message \in Message, NEW levels, Sorted(SideOf(message), levels),
         Len(levels) <= depth,
         NEW book, DOMAIN book \subseteq Int,
         Shows(SideOf(message), book, levels),
         message.price \notin DOMAIN book,
         NEW after, DOMAIN after = DOMAIN book \cup {message.price},
         after[message.price] = message.size,
         \A q \in DOMAIN book : after[q] = book[q]
  PROVE  /\ Sorted(SideOf(message), InSight(Opened(message, levels)))
         /\ Len(InSight(Opened(message, levels))) <= depth
         /\ Shows(SideOf(message), after, InSight(Opened(message, levels)))
<1> DEFINE side == SideOf(message)
           p == message.price
           new == Opened(message, levels)
           cut == InSight(new)
           level == [price |-> p, quantity |-> message.size]
<1>1. /\ levels \in Seq(AnyLevel) /\ Len(levels) \in Nat
      /\ \A k \in 1 .. Len(levels) : levels[k].price \in Int
  BY LevelsAre DEF Sorted
<1>2. /\ ShowsBest(side, book, levels)
      /\ Len(levels) < depth => Visible(levels) = DOMAIN book
  BY <1>1, ShowsIs
<1>3. p \notin Visible(levels)
  BY <1>2 DEF ShowsBest
<1>4. /\ Sorted(side, new) /\ new \in Seq(AnyLevel)
      /\ Len(new) = Len(levels) + 1
  BY <1>1, <1>3, OpenedSorted, OpenedIs
<1>5. PICK i \in 1 .. Len(levels) + 1 :
        /\ i <= Len(levels) => Better(side, p, levels[i].price)
        /\ \A k \in 1 .. Len(levels) + 1 :
             new[k] = IF k < i THEN levels[k]
                      ELSE IF k = i THEN level ELSE levels[k - 1]
  BY <1>1, OpenedIs
<1>6. side \in BookSide /\ p \in Int /\ i \in Nat
      /\ level.price = p /\ level.quantity = message.size
  BY <1>1, <1>5, SidesOfMessage DEF Message
<1> HIDE DEF new, side, level
<1>7. /\ cut \in Seq(AnyLevel)
      /\ Len(cut) = IF depth <= Len(new) THEN depth ELSE Len(new)
      /\ \A k \in 1 .. Len(cut) : cut[k] = new[k]
  BY <1>4, InSightIs
<1> HIDE DEF cut
<1>8. Len(cut) \in Nat /\ Len(cut) <= depth /\ Len(cut) <= Len(new)
      /\ (Len(cut) < depth => Len(cut) = Len(new))
      /\ (Len(levels) < depth => Len(cut) = Len(new))
      /\ (Len(levels) = depth => Len(cut) = Len(levels))
  BY <1>1, <1>4, <1>7, DepthAssumption
<1>9. Sorted(side, cut)
  <2>1. ASSUME NEW j \in 1 .. Len(cut), NEW k \in 1 .. Len(cut), j < k
        PROVE  Better(side, cut[j].price, cut[k].price)
    <3>1. j \in 1 .. Len(new) /\ k \in 1 .. Len(new)
      BY <1>1, <1>4, <1>8
    <3>2. QED
      BY <1>4, <1>7, <2>1, <3>1 DEF Sorted
  <2>2. QED
    BY <1>7, <2>1 DEF Sorted
(* A level of the new ladder is an old one, or the one that was opened.    *)
<1>10. ASSUME NEW k \in 1 .. Len(new)
       PROVE  \/ k = i /\ new[k] = level
              \/ \E n \in 1 .. Len(levels) : new[k] = levels[n]
  <2>1. CASE k < i
    <3>1. k \in 1 .. Len(levels) /\ new[k] = levels[k]
      BY <1>1, <1>4, <1>5, <1>6, <2>1
    <3>2. QED
      BY <3>1
  <2>2. CASE k = i
    BY <1>4, <1>5, <1>6, <2>2
  <2>3. CASE k > i
    <3>1. k - 1 \in 1 .. Len(levels) /\ new[k] = levels[k - 1]
      BY <1>1, <1>4, <1>5, <1>6, <2>3
    <3>2. QED
      BY <3>1
  <2>4. QED
    BY <1>4, <1>6, <2>1, <2>2, <2>3
<1>11. ASSUME NEW n \in 1 .. Len(levels)
       PROVE  \E k \in 1 .. Len(new) : new[k] = levels[n]
  <2> DEFINE k == IF n < i THEN n ELSE n + 1
  <2>1. k \in 1 .. Len(new) /\ k \in 1 .. Len(levels) + 1
    BY <1>1, <1>4, <1>6
  <2>2. CASE n < i
    BY <1>5, <2>1, <2>2
  <2>3. CASE ~(n < i)
    <3>1. k = n + 1 /\ ~(k < i) /\ k # i /\ k - 1 = n
      BY <1>1, <1>6, <2>3
    <3> HIDE DEF k
    <3>2. new[k] = levels[k - 1]
      BY <1>5, <2>1, <3>1
    <3>3. QED
      BY <2>1, <3>1, <3>2
  <2>4. QED
    BY <2>2, <2>3
<1>12. i \in 1 .. Len(new) /\ new[i] = level
  BY <1>4, <1>5
<1>13. \A k \in 1 .. Len(new) :
         /\ new[k].price \in DOMAIN after
         /\ new[k].quantity = after[new[k].price]
  <2>1. \A n \in 1 .. Len(levels) :
          /\ levels[n].price \in DOMAIN book
          /\ levels[n].quantity = book[levels[n].price]
    BY <1>2 DEF ShowsBest, Visible
  <2>2. QED
    BY <1>6, <1>10, <2>1
<1>14. \A k \in 1 .. Len(cut) : k \in 1 .. Len(new)
  BY <1>1, <1>4, <1>8
<1>15. ASSUME NEW q \in Visible(cut), NEW r \in DOMAIN after \ Visible(cut)
       PROVE  Better(side, q, r)
  <2>1. PICK k \in 1 .. Len(cut) : q = new[k].price
    BY <1>7 DEF Visible
  <2>2. CASE \E n \in 1 .. Len(new) : r = new[n].price
    <3>1. PICK n \in 1 .. Len(new) : r = new[n].price
      BY <2>2
    <3>2. ~(n \in 1 .. Len(cut))
      BY <1>7, <1>15, <3>1 DEF Visible
    <3>3. k < n /\ k \in 1 .. Len(new)
      BY <1>1, <1>4, <1>8, <1>14, <3>2
    <3>4. QED
      BY <1>4, <2>1, <3>1, <3>3 DEF Sorted
  <2>3. CASE ~\E n \in 1 .. Len(new) : r = new[n].price
    <3>1. r \in DOMAIN book \ Visible(levels)
      <4>1. r # p
        <5>1. new[i].price = p
          BY <1>6, <1>12
        <5>2. QED
          BY <1>12, <2>3, <5>1
      <4>2. r \notin Visible(levels)
        BY <1>11, <2>3 DEF Visible
      <4>3. QED
        BY <1>15, <4>1, <4>2
    <3>2. Len(levels) = depth /\ Len(cut) = Len(levels)
      BY <1>1, <1>2, <1>8, <3>1, DepthAssumption
    <3>3. CASE \E n \in 1 .. Len(levels) : new[k] = levels[n]
      <4>1. q \in Visible(levels)
        BY <2>1, <3>3 DEF Visible
      <4>2. QED
        BY <1>2, <3>1, <4>1 DEF ShowsBest
    <3>4. CASE k = i /\ new[k] = level
      <4>1. i \in 1 .. Len(levels) /\ q = p
        BY <1>6, <2>1, <3>2, <3>4
      <4>2. Better(side, p, levels[i].price)
        BY <1>1, <1>5, <4>1
      <4>3. Better(side, levels[i].price, r)
        BY <1>2, <3>1, <4>1 DEF ShowsBest, Visible
      <4>4. r \in DOMAIN book
        BY <3>1
      <4>5. QED
        <5>1. levels[i].price \in Int /\ r \in Int
          BY <1>1, <4>1, <4>4
        <5>2. QED
          BY <1>6, <4>1, <4>2, <4>3, <5>1, BetterIs
    <3>5. QED
      BY <1>10, <1>14, <3>3, <3>4
  <2>4. QED
    BY <2>2, <2>3
<1>16. ShowsBest(side, after, cut)
  <2>1. Visible(cut) \subseteq DOMAIN after
    <3>1. \A k \in 1 .. Len(cut) : cut[k].price \in DOMAIN after
      BY <1>7, <1>13, <1>14
    <3>2. QED
      BY <3>1 DEF Visible
  <2>2. \A k \in 1 .. Len(cut) : cut[k].quantity = after[cut[k].price]
    BY <1>7, <1>13, <1>14
  <2>3. QED
    BY <1>15, <2>1, <2>2 DEF ShowsBest
<1>17. ASSUME Len(cut) < depth PROVE Visible(cut) = DOMAIN after
  <2>1. Len(cut) = Len(new) /\ Len(levels) < depth
    <3>1. Len(cut) = Len(levels) + 1
      BY <1>4, <1>8, <1>17
    <3>2. QED
      BY <1>1, <1>4, <1>17, <3>1, DepthAssumption
  <2>2. DOMAIN after = Visible(levels) \cup {p}
    BY <1>2, <2>1
  <2>3. \A n \in 1 .. Len(levels) : levels[n].price \in Visible(cut)
    BY <1>7, <1>11, <2>1 DEF Visible
  <2>4. p \in Visible(cut)
    <3>1. i \in 1 .. Len(cut)
      BY <1>12, <2>1
    <3>2. cut[i].price = p
      BY <1>6, <1>7, <1>12, <3>1
    <3>3. QED
      BY <3>1, <3>2 DEF Visible
  <2>5. Visible(levels) \subseteq Visible(cut)
    BY <2>3 DEF Visible
  <2>6. Visible(cut) \subseteq DOMAIN after
    BY <1>16 DEF ShowsBest
  <2>7. QED
    BY <2>2, <2>4, <2>5, <2>6
<1>18. Shows(side, after, cut)
  BY <1>7, <1>16, <1>17, ShowsIs
<1>19. QED
  BY <1>8, <1>9, <1>18 DEF side, cut, new

LEMMA SubmittedShows ==
  ASSUME NEW message \in Message, message.type = 1,
         NEW levels, Sorted(SideOf(message), levels), Len(levels) <= depth,
         NEW book, DOMAIN book \subseteq Int,
         Shows(SideOf(message), book, levels),
         NEW after \in After(message, book)
  PROVE  /\ Sorted(SideOf(message), Submitted(message, levels))
         /\ Len(Submitted(message, levels)) <= depth
         /\ Shows(SideOf(message), after, Submitted(message, levels))
<1> DEFINE side == SideOf(message)
           p == message.price
           at == PlaceOf(p, levels)
           more == levels[at].quantity + message.size
           new == Submitted(message, levels)
<1>1. /\ levels \in Seq(AnyLevel) /\ Len(levels) \in Nat
      /\ \A k \in 1 .. Len(levels) : /\ levels[k].price \in Int
                                     /\ levels[k].quantity \in Int
  BY LevelsAre DEF Sorted
<1>2. /\ ShowsBest(side, book, levels)
      /\ Len(levels) < depth => Visible(levels) = DOMAIN book
  BY <1>1, ShowsIs
<1>3. side \in BookSide
  BY SidesOfMessage
<1>4. new = InSight(IF at = 0 THEN Opened(message, levels)
                    ELSE [levels EXCEPT ![at].quantity = more])
  BY DEF Submitted
<1>5. \/ at = 0 /\ p \notin Visible(levels)
      \/ at \in 1 .. Len(levels) /\ levels[at].price = p
  BY <1>1, PlaceIs DEF Visible
<1> HIDE DEF at, side
<1>6. CASE at \in 1 .. Len(levels) /\ levels[at].price = p
  <2> DEFINE whole == [levels EXCEPT ![at].quantity = more]
  <2>1. p \in DOMAIN book /\ book[p] = levels[at].quantity
    BY <1>2, <1>6 DEF ShowsBest, Visible
  <2>2. more \in Int /\ more = book[p] + message.size
    BY <1>1, <1>6, <2>1 DEF Message
  <2>3. after = [book EXCEPT ![p] = more]
    BY <2>1, <2>2 DEF After
  <2> HIDE DEF more
  <2>8. /\ whole \in Seq(AnyLevel) /\ Len(whole) = Len(levels)
        /\ \A k \in 1 .. Len(levels) :
             /\ whole[k].price = levels[k].price
             /\ whole[k].quantity = IF k = at THEN more ELSE levels[k].quantity
    <3>1. at \in 1 .. Len(levels) /\ more \in Int
      BY <1>6, <2>2
    <3>2. QED
      BY <1>1, <3>1, Requantified
  <2>9. /\ DOMAIN after = DOMAIN book /\ after[p] = more
        /\ \A r \in DOMAIN book : r # p => after[r] = book[r]
    BY <2>1, <2>3
  <2>10. at \in 1 .. Len(levels) /\ more \in Int
    BY <1>6, <2>2
  <2>11. Sorted(side, levels) /\ Shows(side, book, levels)
    BY DEF side
  <2>13. /\ after[levels[at].price] = more
         /\ \A r \in DOMAIN book : r # levels[at].price => after[r] = book[r]
    <3>1. levels[at].price = p
      BY <1>6
    <3> HIDE DEF p
    <3>2. QED
      BY <2>9, <3>1
  <2> HIDE DEF whole, p
  <2>14. DOMAIN after = DOMAIN book
    BY <2>9
  <2>4. Sorted(side, whole) /\ Shows(side, after, whole)
    BY <1>3, <2>8, <2>10, <2>11, <2>13, <2>14, RequantifiedShows
  <2>5. at # 0
    BY <1>1, <1>6
  <2>6. new = InSight(whole)
    BY <1>4, <2>5 DEF whole
  <2> HIDE DEF new
  <2>7. new = whole
    BY <2>6, <2>8, AllInSight
  <2>12. QED
    BY <2>4, <2>7, <2>8 DEF side, new
<1>7. CASE at = 0 /\ p \notin Visible(levels) /\ p \in DOMAIN book
  <2>1. after = [book EXCEPT ![p] = book[p] + message.size]
    BY <1>7 DEF After
  <2>2. Len(levels) = depth
    BY <1>1, <1>2, <1>7, DepthAssumption
  <2>3. /\ DOMAIN after = DOMAIN book
        /\ \A q \in Visible(levels) : after[q] = book[q]
    BY <1>2, <1>7, <2>1 DEF ShowsBest
  <2>4. Shows(side, after, levels)
    BY <1>2, <1>3, <2>2, <2>3, HiddenShows DEF side, ShowsBest
  <2>5. new = InSight(Opened(message, levels))
    BY <1>4, <1>7
  <2>6. new = levels
    <3> DEFINE opened == Opened(message, levels)
    <3>1. opened \in Seq(AnyLevel) /\ Len(opened) = Len(levels) + 1
      BY <1>1, OpenedIs
    <3>2. PICK i \in 1 .. Len(levels) + 1 :
            /\ i <= Len(levels) => Better(side, p, levels[i].price)
            /\ \A k \in 1 .. Len(levels) + 1 :
                 k < i => opened[k] = levels[k]
      <4>1. \E i \in 1 .. Len(levels) + 1 :
              /\ \A k \in 1 .. i - 1 : ~Better(side, p, levels[k].price)
              /\ i <= Len(levels) => Better(side, p, levels[i].price)
              /\ \A k \in 1 .. Len(levels) + 1 :
                   opened[k] = IF k < i THEN levels[k]
                               ELSE IF k = i
                               THEN [price |-> p, quantity |-> message.size]
                               ELSE levels[k - 1]
        BY <1>1, OpenedIs DEF side
      <4> HIDE DEF opened
      <4>2. QED
        BY <4>1
    <3> HIDE DEF opened
    <3>3. ASSUME i <= Len(levels) PROVE FALSE
      <4>1. i \in 1 .. Len(levels) /\ Better(side, p, levels[i].price)
        BY <1>1, <3>2, <3>3
      <4>2. Better(side, levels[i].price, p)
        BY <1>2, <1>7, <4>1 DEF ShowsBest, Visible
      <4>3. levels[i].price \in Int /\ p \in Int
        BY <1>1, <4>1 DEF Message
      <4>4. QED
        BY <1>3, <4>1, <4>2, <4>3, BetterIs
    <3>4. \A k \in 1 .. Len(levels) : opened[k] = levels[k]
      BY <1>1, <3>2, <3>3
    <3>5. /\ InSight(opened) \in Seq(AnyLevel)
          /\ Len(InSight(opened)) =
               IF depth <= Len(opened) THEN depth ELSE Len(opened)
          /\ \A k \in 1 .. Len(InSight(opened)) : InSight(opened)[k] = opened[k]
      BY <3>1, InSightIs
    <3>6. Len(InSight(opened)) = Len(levels)
      BY <1>1, <2>2, <3>1, <3>5, DepthAssumption
    <3>7. \A k \in 1 .. Len(InSight(opened)) : InSight(opened)[k] = levels[k]
      BY <3>4, <3>5, <3>6
    <3>8. InSight(opened) = levels
      BY <1>1, <3>5, <3>6, <3>7, SeqEqual
    <3>9. QED
      BY <2>5, <3>8 DEF opened
  <2> HIDE DEF new
  <2>7. QED
    BY <2>4, <2>6 DEF side, new
<1>8. CASE at = 0 /\ p \notin DOMAIN book
  <2>1. after = [q \in DOMAIN book \cup {p} |->
                   IF q = p THEN message.size ELSE book[q]]
    BY <1>8 DEF After
  <2>2. /\ DOMAIN after = DOMAIN book \cup {p}
        /\ after[p] = message.size
        /\ \A q \in DOMAIN book : after[q] = book[q]
    BY <1>8, <2>1
  <2>3. new = InSight(Opened(message, levels))
    BY <1>4, <1>8
  <2>4. QED
    BY <1>8, <2>2, <2>3, OpenedShows
<1>9. QED
  BY <1>5, <1>6, <1>7, <1>8

----------------------------------------------------------------------------
(* A transition that its message explains is not judged to be a mismatch.  *)

LEMMA LevelIs ==
  ASSUME NEW x \in AnyLevel, NEW y \in AnyLevel,
         x.price = y.price, x.quantity = y.quantity
  PROVE  x = y
BY DEF AnyLevel

LEMMA SameIsEqual ==
  ASSUME NEW a \in Seq(AnyLevel), NEW b \in Seq(AnyLevel)
  PROVE  SameLevels(a, b) <=> a = b
<1>1. ASSUME SameLevels(a, b) PROVE a = b
  <2>1. Len(a) = Len(b)
    BY <1>1 DEF SameLevels
  <2>2. \A i \in 1 .. Len(a) : a[i] \in AnyLevel /\ b[i] \in AnyLevel
    BY <2>1, LenProperties
  <2>3. ASSUME NEW i \in 1 .. Len(a) PROVE a[i] = b[i]
    <3>1. a[i].price = b[i].price /\ a[i].quantity = b[i].quantity
      BY <1>1 DEF SameLevels
    <3>2. a[i] \in AnyLevel /\ b[i] \in AnyLevel
      BY <2>2
    <3>3. QED
      BY <3>1, <3>2, LevelIs
  <2>4. QED
    BY <2>1, <2>3, SeqEqual
<1>2. ASSUME a = b PROVE SameLevels(a, b)
  BY <1>2 DEF SameLevels
<1>3. QED
  BY <1>1, <1>2

(* Two ladders agree when they are the same.                               *)
LEMMA AgreeIsEqual ==
  ASSUME NEW side, NEW a \in Seq(AnyLevel), NEW b \in Seq(AnyLevel)
  PROVE  Agrees(Comparison(side, a, b)) <=> a = b
BY LenProperties, ComparisonFinds, SameIsEqual

LEMMA SideIs ==
  ASSUME NEW row \in Rows, NEW side \in BookSide
  PROVE  /\ Sorted(side, row[side])
         /\ row[side] \in Seq(AnyLevel)
         /\ Len(row[side]) \in Nat
         /\ Len(row[side]) <= depth
         /\ \A i \in 1 .. Len(row[side]) :
              row[side][i].price \in Int /\ row[side][i].quantity \in Nat \ {0}
<1>1. Sorted(side, row[side])
  BY SideOfRow, LaddersAreSorted
<1>2. IsLadder(side, row[side])
  BY SideOfRow
<1>3. row[side] \in Seq(Level)
  BY <1>2 DEF IsLadder
<1>4. \A i \in 1 .. Len(row[side]) : row[side][i] \in Level
  BY <1>3, LenProperties
<1>5. QED
  BY <1>1, <1>4, SideOfRow DEF Level

LEMMA BookIs ==
  ASSUME NEW book \in SideBooks
  PROVE  /\ DOMAIN book \subseteq Int
         /\ \A p \in DOMAIN book : book[p] \in Nat \ {0}
         /\ book = [p \in DOMAIN book |-> book[p]]
<1>1. PICK P \in SUBSET BookPrices : book \in [P -> BookQuantities]
  BY DEF SideBooks
<1>2. DOMAIN book = P /\ \A p \in P : book[p] \in BookQuantities
  BY <1>1
<1>3. P \subseteq Int /\ BookQuantities \subseteq Nat \ {0}
  BY BooksAssumption
<1>4. QED
  BY <1>1, <1>2, <1>3

LEMMA SubmissionClass ==
  ASSUME NEW message \in Message, NEW before \in Rows, NEW current \in Rows
  PROVE  validate_submission_transition(message, before, current).classification =
           MatchingIf(/\ before[OppositeOf(message)] = current[OppositeOf(message)]
                      /\ Submitted(message, before[SideOf(message)])
                           = current[SideOf(message)])
<1> DEFINE side == SideOf(message)
           other == OppositeOf(message)
           across == Comparison(other, before[other], current[other])
           predicted == Submitted(message, before[side])
           along == Comparison(side, predicted, current[side])
           j == validate_submission_transition(message, before, current)
<1>1. side \in BookSide /\ other \in BookSide
  BY SidesOfMessage
<1>2. j.classification = MatchingIf(Agrees(across) /\ Agrees(along))
  BY DEF validate_submission_transition, Judgement
<1>3. Agrees(across) <=> before[other] = current[other]
  BY <1>1, SideIs, AgreeIsEqual
<1>4. predicted \in Seq(AnyLevel)
  BY <1>1, SideIs, SubmittedType
<1> HIDE DEF predicted, j
<1>5. Agrees(along) <=> predicted = current[side]
  BY <1>1, <1>4, SideIs, AgreeIsEqual
<1> HIDE DEF across, along
<1>6. j.classification = MatchingIf(before[other] = current[other] /\ predicted = current[side])
  BY <1>2, <1>3, <1>5 DEF MatchingIf
<1>7. QED
  BY <1>6 DEF predicted, j

LEMMA SubmissionExplained ==
  ASSUME NEW message \in Message, NEW before \in Rows, NEW current \in Rows,
         message.type = 1, Explains(message, before, current)
  PROVE  validate_submission_transition(message, before, current).classification
           = "Matching"
<1> DEFINE side == SideOf(message)
           other == OppositeOf(message)
           new == Submitted(message, before[side])
<1>1. side \in BookSide /\ other \in BookSide
  BY SidesOfMessage
<1>2. before[other] = current[other]
  BY DEF Explains
<1>0. PICK book \in SideBooks :
        /\ Shows(side, book, before[side])
        /\ \E after \in After(message, book) : Shows(side, after, current[side])
  BY DEF Explains
<1>3. PICK after \in After(message, book) :
        Shows(side, book, before[side]) /\ Shows(side, after, current[side])
  BY <1>0
<1>4. /\ Sorted(side, before[side]) /\ Len(before[side]) <= depth
      /\ Sorted(side, current[side]) /\ Len(current[side]) <= depth
  BY <1>1, SideIs
<1>5. DOMAIN book \subseteq Int
  BY BookIs
<1>6. Sorted(side, new) /\ Len(new) <= depth /\ Shows(side, after, new)
  BY <1>3, <1>4, <1>5, SubmittedShows
<1> HIDE DEF new
<1>7. new = current[side]
  BY <1>1, <1>3, <1>4, <1>6, OneLadderShows
<1>8. QED
  BY <1>2, <1>7, SubmissionClass DEF MatchingIf, new

(* Reductions, by where their level is.                                    *)
LEMMA OutOfSightClass ==
  ASSUME NEW message \in Message, NEW across,
         NEW prev \in Seq(AnyLevel), NEW cur \in Seq(AnyLevel)
  PROVE  ReductionOutOfSight(message, across, prev, cur).classification =
           IF /\ is_potentially_off_depth(SideOf(message), message.price, prev)
              /\ Agrees(across) /\ prev = cur
           THEN "Unverifiable" ELSE "Mismatching"
<1> DEFINE along == Comparison(SideOf(message), prev, cur)
<1>1. Agrees(along) <=> prev = cur
  BY AgreeIsEqual
<1>2. ReductionOutOfSight(message, across, prev, cur).classification =
           IF is_potentially_off_depth(SideOf(message), message.price, prev)
           THEN IF Agrees(across) /\ Agrees(along)
                THEN "Unverifiable" ELSE "Mismatching"
           ELSE "Mismatching"
  BY DEF ReductionOutOfSight, Judgement
<1> HIDE DEF along
<1>3. QED
  BY <1>1, <1>2

LEMMA ReducedClass ==
  ASSUME NEW message \in Message, NEW across,
         NEW prev \in Seq(AnyLevel), NEW cur \in Seq(AnyLevel),
         PlaceOf(message.price, prev) # 0
  PROVE  LevelReduced(message, across, prev, cur).classification =
           IF Agrees(across) /\ Reduced(message, prev) = cur
           THEN "Matching" ELSE "Mismatching"
<1> DEFINE along == Comparison(SideOf(message), Reduced(message, prev), cur)
<1>1. LevelReduced(message, across, prev, cur).classification =
        MatchingIf(Agrees(across) /\ Agrees(along))
  BY DEF LevelReduced, Judgement
<1>2. Agrees(along) <=> Reduced(message, prev) = cur
  BY ReducedIs, AgreeIsEqual
<1> HIDE DEF along
<1>3. QED
  BY <1>1, <1>2 DEF MatchingIf

LEMMA RemovedClass ==
  ASSUME NEW message \in Message, NEW across,
         NEW prev \in Seq(AnyLevel), Len(prev) <= depth,
         NEW cur \in Seq(AnyLevel), Len(cur) <= depth,
         NEW at, at = PlaceOf(message.price, prev), at # 0,
         NEW rest, rest = RemoveAt(prev, at)
  PROVE  LET class == LevelRemoved(message, across, prev, cur).classification
             kept == /\ Len(rest) <= Len(cur)
                     /\ \A k \in 1 .. Len(rest) : rest[k] = cur[k]
         IN  /\ Len(prev) < depth =>
                  class = IF Agrees(across) /\ rest = cur
                          THEN "Matching" ELSE "Mismatching"
             /\ Len(prev) = depth =>
                  class = IF ~(Agrees(across) /\ kept) THEN "Mismatching"
                          ELSE IF Len(cur) = Len(rest) THEN "Matching"
                          ELSE "Unverifiable"
<1> DEFINE known == SubSeq(cur, 1, Min({Len(cur), Len(rest)}))
           seen == IF Len(prev) < depth THEN cur ELSE known
           along == Comparison(SideOf(message), rest, seen)
           refilled == Len(prev) = depth /\ Len(cur) = Len(rest) + 1
           expected_count == \/ Len(prev) < depth
                             \/ Len(cur) = Len(rest)
                             \/ refilled
           consistent == expected_count /\ Agrees(along) /\ Agrees(across)
           class == LevelRemoved(message, across, prev, cur).classification
           kept == /\ Len(rest) <= Len(cur)
                   /\ \A k \in 1 .. Len(rest) : rest[k] = cur[k]
<1>1. at \in 1 .. Len(prev) /\ Len(prev) \in Nat /\ Len(cur) \in Nat
  BY PlaceIs, LenProperties
<1>2. /\ rest \in Seq(AnyLevel) /\ Len(rest) = Len(prev) - 1 /\ Len(rest) \in Nat
  BY <1>1, Removed
<1>3. class = IF consistent /\ refilled THEN "Unverifiable" ELSE MatchingIf(consistent)
  BY DEF LevelRemoved, Judgement
<1>4. /\ Len(known) = IF Len(cur) <= Len(rest) THEN Len(cur) ELSE Len(rest)
      /\ \A k \in 1 .. Len(known) : known[k] = cur[k]
  BY <1>2, KnownIs
<1> HIDE DEF class, known
<1>5. CASE Len(prev) < depth
  <2>1. Agrees(along) <=> rest = cur
    BY <1>2, <1>5, AgreeIsEqual
  <2>2. ~refilled /\ expected_count
    BY <1>1, <1>5, DepthAssumption
  <2> HIDE DEF along, refilled, expected_count
  <2>3. class = IF Agrees(across) /\ rest = cur
                THEN "Matching" ELSE "Mismatching"
    BY <1>3, <2>1, <2>2 DEF MatchingIf
  <2>4. Len(prev) # depth
    BY <1>1, <1>5, DepthAssumption
  <2>5. QED
    BY <2>3, <2>4 DEF class
<1>6. CASE Len(prev) = depth
  <2>1. ~(Len(prev) < depth)
    BY <1>6, DepthAssumption
  <2>2. along = Comparison(SideOf(message), rest, known)
    BY <2>1
  <2>3. Agrees(along) <=> SameLevels(rest, known)
    <3>1. Len(known) \in Nat
      BY <1>1, <1>2, <1>4
    <3>2. QED
      BY <1>2, <2>2, <3>1, ComparisonFinds
  <2> HIDE DEF along
  <2>4. SameLevels(rest, known) <=> kept
    <3>1. ASSUME SameLevels(rest, known) PROVE kept
      <4>1. Len(rest) = Len(known) /\ Len(rest) <= Len(cur)
        BY <1>1, <1>2, <1>4, <3>1 DEF SameLevels
      <4>2. ASSUME NEW k \in 1 .. Len(rest) PROVE rest[k] = cur[k]
        <5>1. known[k] = cur[k] /\ k \in 1 .. Len(cur)
          BY <1>1, <1>2, <1>4, <4>1
        <5>2. rest[k].price = cur[k].price /\ rest[k].quantity = cur[k].quantity
          BY <3>1, <5>1 DEF SameLevels
        <5>3. rest[k] \in AnyLevel /\ cur[k] \in AnyLevel
          BY <1>2, <5>1, LevelsAre
        <5>4. QED
          BY <5>2, <5>3, LevelIs
      <4>3. QED
        BY <4>1, <4>2
    <3>2. ASSUME kept PROVE SameLevels(rest, known)
      <4>1. Len(known) = Len(rest)
        BY <1>1, <1>2, <1>4, <3>2
      <4>2. QED
        BY <1>4, <3>2, <4>1 DEF SameLevels
    <3>3. QED
      BY <3>1, <3>2
  <2>5. kept => (Len(cur) = Len(rest) \/ Len(cur) = Len(rest) + 1)
    BY <1>1, <1>2, <1>6
  <2>6. refilled <=> Len(cur) = Len(rest) + 1
    BY <1>6
  <2>7. Len(cur) = Len(rest) => Len(cur) # Len(rest) + 1
    BY <1>1, <1>2
  <2>8. expected_count <=> Len(cur) = Len(rest) \/ Len(cur) = Len(rest) + 1
    BY <2>1, <2>6
  <2> HIDE DEF refilled, expected_count, kept
  <2>9. consistent <=> Agrees(across) /\ kept
    BY <2>3, <2>4, <2>5, <2>8
  <2> HIDE DEF consistent
  <2>10. class = IF ~(Agrees(across) /\ kept) THEN "Mismatching"
                 ELSE IF Len(cur) = Len(rest) THEN "Matching" ELSE "Unverifiable"
    <3>1. CASE ~consistent
      BY <1>3, <2>9, <3>1 DEF MatchingIf
    <3>2. CASE consistent /\ Len(cur) = Len(rest)
      BY <1>3, <2>6, <2>7, <2>9, <3>2 DEF MatchingIf
    <3>3. CASE consistent /\ Len(cur) # Len(rest)
      BY <1>3, <2>5, <2>6, <2>9, <3>3
    <3>4. QED
      BY <3>1, <3>2, <3>3
  <2>11. QED
    BY <2>1, <2>10 DEF class, kept
<1>7. Len(prev) < depth \/ Len(prev) = depth
  BY <1>1, DepthAssumption
<1>8. QED
  BY <1>5, <1>6, <1>7

LEMMA ReductionClass ==
  ASSUME NEW message, NEW before, NEW current
  PROVE  LET side == SideOf(message)
             other == OppositeOf(message)
             across == Comparison(other, before[other], current[other])
             prev == before[side]
             cur == current[side]
             at == PlaceOf(message.price, prev)
             j == validate_reduction_transition(message, before, current)
         IN  /\ at = 0 => j = ReductionOutOfSight(message, across, prev, cur)
             /\ at # 0 /\ message.size > prev[at].quantity =>
                  j.classification = "Mismatching"
             /\ at # 0 /\ message.size < prev[at].quantity
                  /\ ~(message.size > prev[at].quantity) =>
                  j = LevelReduced(message, across, prev, cur)
             /\ at # 0 /\ ~(message.size < prev[at].quantity)
                  /\ ~(message.size > prev[at].quantity) =>
                  j = LevelRemoved(message, across, prev, cur)
<1> DEFINE side == SideOf(message)
           other == OppositeOf(message)
           across == Comparison(other, before[other], current[other])
           prev == before[side]
           cur == current[side]
           at == PlaceOf(message.price, prev)
           j == validate_reduction_transition(message, before, current)
<1>1. j = IF at = 0 THEN ReductionOutOfSight(message, across, prev, cur)
          ELSE ReductionInSight(message, across, prev, cur)
  BY DEF validate_reduction_transition
<1>2. /\ message.size > prev[at].quantity =>
           ReductionInSight(message, across, prev, cur).classification = "Mismatching"
      /\ message.size < prev[at].quantity /\ ~(message.size > prev[at].quantity) =>
           ReductionInSight(message, across, prev, cur)
             = LevelReduced(message, across, prev, cur)
      /\ ~(message.size < prev[at].quantity) /\ ~(message.size > prev[at].quantity) =>
           ReductionInSight(message, across, prev, cur)
             = LevelRemoved(message, across, prev, cur)
  BY DEF ReductionInSight, Judgement
<1> HIDE DEF j, at, across, prev, cur
<1>3. QED
  BY <1>1, <1>2 DEF j, at, across, prev, cur

LEMMA ReductionExplained ==
  ASSUME NEW message \in Message, NEW before \in Rows, NEW current \in Rows,
         message.type \in 2 .. 4, Explains(message, before, current)
  PROVE  validate_reduction_transition(message, before, current).classification
           # "Mismatching"
<1> DEFINE side == SideOf(message)
           other == OppositeOf(message)
           across == Comparison(other, before[other], current[other])
           prev == before[side]
           cur == current[side]
           p == message.price
           at == PlaceOf(p, prev)
           j == validate_reduction_transition(message, before, current)
<1>1. side \in BookSide /\ other \in BookSide
  BY SidesOfMessage
<1>2. message.type # 1 /\ message.type # 5
  OBVIOUS
<1>3. before[other] = current[other]
  BY <1>2 DEF Explains
<1>4. PICK book \in SideBooks :
        /\ Shows(side, book, prev)
        /\ \E after \in After(message, book) : Shows(side, after, cur)
  BY <1>2 DEF Explains
<1>5. PICK after \in After(message, book) : Shows(side, after, cur)
  BY <1>4
<1>6. /\ Sorted(side, prev) /\ prev \in Seq(AnyLevel) /\ Len(prev) \in Nat
      /\ Len(prev) <= depth
      /\ Sorted(side, cur) /\ cur \in Seq(AnyLevel) /\ Len(cur) \in Nat
      /\ Len(cur) <= depth
      /\ \A i \in 1 .. Len(prev) : prev[i].price \in Int /\ prev[i].quantity \in Int
  BY <1>1, SideIs
<1>7. Agrees(across)
  BY <1>1, <1>3, SideIs, AgreeIsEqual
<1>8. /\ DOMAIN book \subseteq Int
      /\ \A q \in DOMAIN book : book[q] \in Nat \ {0}
  BY BookIs
<1>9. /\ p \in Int /\ message.size \in Int
  BY DEF Message
(* There is as much at its price as the message takes away.                *)
<1>10. /\ p \in DOMAIN book
       /\ message.size <= book[p]
       /\ message.size < book[p] =>
            after = [book EXCEPT ![p] = book[p] - message.size]
       /\ message.size = book[p] => after = Restrict(book, DOMAIN book \ {p})
  <2>1. p \in DOMAIN book
    BY <1>2, <1>5 DEF After
  <2>2. book[p] \in Nat
    BY <1>8, <2>1
  <2>3. CASE message.size < book[p]
    BY <1>2, <1>5, <1>9, <2>1, <2>2, <2>3 DEF After
  <2>4. CASE message.size = book[p]
    BY <1>2, <1>5, <1>9, <2>1, <2>2, <2>4 DEF After
  <2>5. CASE ~(message.size < book[p]) /\ message.size # book[p]
    BY <1>2, <1>5, <2>1, <2>5 DEF After
  <2>6. QED
    BY <2>1, <2>3, <2>4, <2>5
<1>11. /\ ShowsBest(side, book, prev)
       /\ Len(prev) < depth => Visible(prev) = DOMAIN book
       /\ ShowsBest(side, after, cur)
       /\ Len(cur) < depth => Visible(cur) = DOMAIN after
  BY <1>4, <1>5, <1>6, ShowsIs
<1>12. \/ at = 0 /\ p \notin Visible(prev)
       \/ at \in 1 .. Len(prev) /\ prev[at].price = p
  BY <1>6, PlaceIs DEF Visible
<1>13. /\ at = 0 => j = ReductionOutOfSight(message, across, prev, cur)
       /\ at # 0 /\ message.size < prev[at].quantity
            /\ ~(message.size > prev[at].quantity) =>
            j = LevelReduced(message, across, prev, cur)
       /\ at # 0 /\ ~(message.size < prev[at].quantity)
            /\ ~(message.size > prev[at].quantity) =>
            j = LevelRemoved(message, across, prev, cur)
  BY ReductionClass
<1>17. at = PlaceOf(message.price, prev)
  OBVIOUS
<1> HIDE DEF at, across, j, prev, cur, side
<1>14. CASE at = 0 /\ p \notin Visible(prev)
  <2>1. Len(prev) = depth
    BY <1>6, <1>10, <1>11, <1>14, DepthAssumption
  <2>2. /\ Visible(prev) \subseteq DOMAIN after
        /\ DOMAIN after \subseteq DOMAIN book
        /\ \A q \in Visible(prev) : after[q] = book[q]
    <3>1. Visible(prev) \subseteq DOMAIN book
      BY <1>11 DEF ShowsBest
    <3>2. CASE message.size < book[p]
      BY <1>10, <1>14, <3>1, <3>2
    <3>3. CASE message.size = book[p]
      BY <1>10, <1>14, <3>1, <3>3 DEF Restrict
    <3>4. book[p] \in Int
      BY <1>8, <1>10
    <3>5. QED
      BY <1>9, <1>10, <3>2, <3>3, <3>4
  <2>3. Shows(side, after, prev)
    BY <1>1, <1>6, <1>11, <2>1, <2>2, HiddenShows
  <2>4. prev = cur
    BY <1>1, <1>5, <1>6, <2>3, OneLadderShows
  <2>5. is_potentially_off_depth(side, p, prev)
    <3>1. Len(prev) \in 1 .. Len(prev) /\ prev # <<>>
      BY <1>6, <2>1, DepthAssumption
    <3>2. Last(prev).price \in Visible(prev)
      BY <3>1 DEF Last, Visible
    <3>3. Better(side, Last(prev).price, p)
      BY <1>10, <1>11, <1>14, <3>2 DEF ShowsBest
    <3>4. QED
      BY <2>1, <3>1, <3>3 DEF is_potentially_off_depth
  <2>6. j.classification = "Unverifiable"
    BY <1>6, <1>7, <1>13, <1>14, <2>4, <2>5, OutOfSightClass DEF side
  <2>7. QED
    BY <2>6 DEF j
<1>15. CASE at \in 1 .. Len(prev) /\ prev[at].price = p
  <2>1. /\ at # 0 /\ prev[at].quantity = book[p] /\ book[p] \in Int
        /\ ~(message.size > prev[at].quantity)
    <3>1. at # 0
      BY <1>6, <1>15
    <3>2. prev[at].quantity = book[p] /\ book[p] \in Int
      BY <1>8, <1>10, <1>11, <1>15 DEF ShowsBest
    <3>3. QED
      BY <1>9, <1>10, <3>1, <3>2
  <2>2. CASE message.size < book[p]
    <3> DEFINE new == Reduced(message, prev)
               less == prev[at].quantity - message.size
    <3>1. j = LevelReduced(message, across, prev, cur)
      BY <1>13, <2>1, <2>2
    <3>2. j.classification = IF Agrees(across) /\ new = cur
                             THEN "Matching" ELSE "Mismatching"
      BY <1>6, <1>17, <2>1, <3>1, ReducedClass
    <3>3. after = [book EXCEPT ![p] = less]
      BY <1>10, <2>1, <2>2
    <3>9. less = prev[at].quantity - message.size
      OBVIOUS
    <3> HIDE DEF less
    <3>8. /\ less \in Int
          /\ new \in Seq(AnyLevel) /\ Len(new) = Len(prev)
          /\ \A k \in 1 .. Len(prev) :
               /\ new[k].price = prev[k].price
               /\ new[k].quantity = IF k = at THEN less ELSE prev[k].quantity
      <4>1. prev \in Seq(AnyLevel) /\ at # 0 /\ at = PlaceOf(message.price, prev)
        BY <1>6, <1>17, <2>1
      <4>2. /\ less \in Int
            /\ Len(Reduced(message, prev)) = Len(prev)
            /\ \A k \in 1 .. Len(prev) :
                 /\ Reduced(message, prev)[k].price = prev[k].price
                 /\ Reduced(message, prev)[k].quantity =
                      IF k = at THEN less ELSE prev[k].quantity
            /\ Reduced(message, prev) \in Seq(AnyLevel)
        BY <3>9, <4>1, ReducedIs
      <4>3. QED
        BY <4>2
    <3>10. /\ DOMAIN after = DOMAIN book
           /\ after[prev[at].price] = less
           /\ \A r \in DOMAIN book :
                r # prev[at].price => after[r] = book[r]
      <4>1. /\ DOMAIN after = DOMAIN book /\ after[p] = less
            /\ \A r \in DOMAIN book : r # p => after[r] = book[r]
        BY <1>10, <3>3
      <4>2. prev[at].price = p
        BY <1>15
      <4> HIDE DEF p
      <4>3. QED
        BY <4>1, <4>2
    <3> HIDE DEF new
    <3>11. Sorted(side, prev) /\ Shows(side, book, prev) /\ at \in 1 .. Len(prev)
      BY <1>4, <1>6, <1>15
    <3>12. side \in BookSide
      BY <1>1
    <3>4. Sorted(side, new) /\ Shows(side, after, new)
      BY <3>8, <3>10, <3>11, <3>12, RequantifiedShows
    <3>5. new = cur
      BY <1>1, <1>5, <1>6, <3>4, <3>8, OneLadderShows
    <3>6. j.classification = "Matching"
      BY <1>7, <3>2, <3>5
    <3>7. QED
      BY <3>6 DEF j
  <2>3. CASE message.size = book[p]
    <3> DEFINE rest == RemoveAt(prev, at)
               kept == /\ Len(rest) <= Len(cur)
                       /\ \A k \in 1 .. Len(rest) : rest[k] = cur[k]
    <3>1. j = LevelRemoved(message, across, prev, cur)
      BY <1>9, <1>13, <2>1, <2>3
    <3>2. /\ Len(prev) < depth =>
               j.classification = IF Agrees(across) /\ rest = cur
                                  THEN "Matching" ELSE "Mismatching"
          /\ Len(prev) = depth =>
               j.classification = IF ~(Agrees(across) /\ kept) THEN "Mismatching"
                                  ELSE IF Len(cur) = Len(rest) THEN "Matching"
                                  ELSE "Unverifiable"
      BY <1>6, <2>1, <3>1, RemovedClass DEF at
    <3>3. after = Restrict(book, DOMAIN book \ {prev[at].price})
      BY <1>10, <1>15, <2>3
    <3>4. /\ Sorted(side, rest)
          /\ Len(rest) = Len(prev) - 1
          /\ Visible(rest) = Visible(prev) \ {p}
          /\ ShowsBest(side, after, rest)
      <4>1. at \in 1 .. Len(prev) /\ prev[at].price = p
        BY <1>15
      <4>2. /\ Sorted(side, rest)
            /\ Len(rest) = Len(prev) - 1
            /\ Visible(rest) = Visible(prev) \ {prev[at].price}
            /\ ShowsBest(side, Restrict(book, DOMAIN book \ {prev[at].price}), rest)
        BY <1>1, <1>6, <1>11, <4>1, RemovedShows
      <4> HIDE DEF rest
      <4>3. QED
        BY <3>3, <4>1, <4>2
    <3> HIDE DEF rest
    <3>5. DOMAIN after = DOMAIN book \ {p}
      BY <1>15, <3>3 DEF Restrict
    <3>6. /\ \A i \in 1 .. Len(rest) : i <= Len(cur) => rest[i] = cur[i]
          /\ Len(cur) < Len(rest) => Visible(cur) # DOMAIN after
      BY <1>1, <1>6, <1>11, <3>4, BestAgree
    <3>7. CASE Len(prev) < depth
      <4>1. Visible(rest) = DOMAIN after
        BY <1>11, <3>4, <3>5, <3>7
      <4>2. rest \in Seq(AnyLevel) /\ Len(rest) <= depth
        BY <1>6, <3>4, <3>7, DepthAssumption DEF Sorted
      <4>3. Shows(side, after, rest)
        BY <3>4, <4>1, <4>2, ShowsIs
      <4>4. rest = cur
        BY <1>1, <1>5, <1>6, <3>4, <4>2, <4>3, OneLadderShows
      <4>5. j.classification = "Matching"
        BY <1>7, <3>2, <3>7, <4>4
      <4>6. QED
        BY <4>5 DEF j
    <3>8. CASE Len(prev) = depth
      <4>1. ~(Len(cur) < Len(rest))
        <5>1. SUFFICES ASSUME Len(cur) < Len(rest) PROVE FALSE
          OBVIOUS
        <5>2. Len(cur) < depth
          BY <1>6, <3>4, <3>8, <5>1, DepthAssumption
        <5>3. QED
          BY <1>11, <3>6, <5>1, <5>2
      <4>2. kept
        <5>1. Len(rest) <= Len(cur)
          BY <1>6, <3>4, <4>1
        <5>2. \A k \in 1 .. Len(rest) : k <= Len(cur)
          BY <1>6, <3>4, <5>1
        <5>3. QED
          BY <3>6, <5>1, <5>2
      <4> HIDE DEF kept
      <4>3. j.classification \in {"Matching", "Unverifiable"}
        BY <1>7, <3>2, <3>8, <4>2
      <4>4. QED
        BY <4>3 DEF j
    <3>9. QED
      BY <1>6, <3>7, <3>8, DepthAssumption
  <2>4. QED
    BY <1>9, <1>10, <2>1, <2>2, <2>3
<1>16. QED
  BY <1>12, <1>14, <1>15

LEMMA HiddenExplained ==
  ASSUME NEW before \in Rows
  PROVE  validate_hidden_transition(before, before).classification = "Matching"
<1>1. "bids" \in BookSide /\ "asks" \in BookSide
  BY DEF BookSide
<1>2. /\ Agrees(Comparison("bids", before.bids, before.bids))
      /\ Agrees(Comparison("asks", before.asks, before.asks))
  BY <1>1, SideIs, AgreeIsEqual
<1>3. QED
  BY <1>2 DEF validate_hidden_transition, Judgement, MatchingIf

LEMMA ExplainedIsNoMismatch ==
  ASSUME NEW message \in Message, NEW before \in Rows, NEW current \in Rows,
         Explains(message, before, current)
  PROVE  Judge(message, before, current).classification # "Mismatching"
<1>1. CASE message.type = 1
  BY <1>1, SubmissionExplained DEF Judge
<1>2. CASE message.type \in 2 .. 4
  <2>1. message.type # 1
    BY <1>2
  <2>2. Judge(message, before, current) =
          validate_reduction_transition(message, before, current)
    BY <1>2, <2>1 DEF Judge
  <2>3. QED
    BY <1>2, <2>2, ReductionExplained
<1>3. CASE message.type = 5
  <2>1. message.type # 1 /\ ~(message.type \in 2 .. 4)
    BY <1>3
  <2>2. before = current
    BY <1>3 DEF Explains
  <2>3. Judge(message, before, current) = validate_hidden_transition(before, before)
    BY <1>3, <2>1, <2>2 DEF Judge
  <2>4. QED
    BY <2>3, HiddenExplained
<1>4. CASE message.type # 1 /\ ~(message.type \in 2 .. 4) /\ message.type # 5
  BY <1>4 DEF Judge, Judgement
<1>5. QED
  BY <1>1, <1>2, <1>3, <1>4

(* The row that is judged against is the one before it in the file, and    *)
(* the classification is what Judge makes of it.                           *)
JudgingInv == SummaryInv /\ row_before = previous

LEMMA JudgingInvInit == Init => JudgingInv
BY SummaryInvInit DEF JudgingInv, Init

LEMMA BaselineJudgesNothing ==
  ASSUME SummaryInv, NEW current, ReadBaseline(current)
  PROVE  s'.transitions_checked = s.transitions_checked
<1>1. IsSummary(s) /\ s' = [s EXCEPT !.rows_read = 1, !.baseline_rows = 1]
  BY DEF SummaryInv, ReadBaseline
<1>2. QED
  BY <1>1 DEF IsSummary, CounterNames

LEMMA JudgingInvNext ==
  ASSUME JudgingInv, [Next]_vars
  PROVE  /\ JudgingInv'
         /\ s'.transitions_checked > s.transitions_checked =>
              /\ m' \in Message /\ Meaningful(m') /\ m' \in Messages
              /\ row_before \in Rows /\ row_before' \in Rows
              /\ classification' = Judge(m', row_before, row_before').classification
<1>1. SummaryInv /\ SummaryInv' /\ row_before = previous
  BY SummaryInvNext DEF JudgingInv
<1>2. ~(s.transitions_checked > s.transitions_checked)
  BY <1>1 DEF SummaryInv, IsSummary, CounterNames
<1>3. CASE \E current \in Rows : ReadBaseline(current)
  <2>1. PICK current \in Rows : ReadBaseline(current)
    BY <1>3
  <2>2. s'.transitions_checked = s.transitions_checked
    BY <1>1, <2>1, BaselineJudgesNothing
  <2>3. row_before' = previous'
    BY <2>1 DEF ReadBaseline
  <2>4. QED
    BY <1>1, <1>2, <2>2, <2>3 DEF JudgingInv
<1>4. CASE \E current \in Rows, message \in Messages :
             CheckTransition(message, current)
  <2>1. PICK current \in Rows, message \in Messages :
          CheckTransition(message, current)
    BY <1>4
  <2>2. /\ previous # NoRow /\ previous' = current /\ row_before' = current
        /\ m' = message /\ Meaningful(message)
        /\ classification' = Judge(message, previous, current).classification
    BY <2>1 DEF CheckTransition, Judged
  <2>3. previous \in Rows /\ message \in Message
    BY <1>1, <2>2, MessagesAssumption DEF SummaryInv, Message
  <2>4. QED
    BY <1>1, <2>2, <2>3 DEF JudgingInv
<1>5. CASE Throw \/ Return \/ UNCHANGED vars
  <2>1. UNCHANGED <<previous, s, row_before>>
    BY <1>5 DEF Throw, Return, vars
  <2>2. QED
    BY <1>1, <1>2, <2>1 DEF JudgingInv
<1>6. QED
  BY <1>3, <1>4, <1>5 DEF Next

(* There is no false alarm: when a transition is judged a mismatch, there  *)
(* is no book at all, whatever it holds out of sight, that shows the row   *)
(* before it and that the message turns into one that shows this row.      *)
THEOREM MismatchesAreReal == Spec => MismatchUnexplained
<1>1. Init => JudgingInv
  BY JudgingInvInit
<1>2. JudgingInv /\ [Next]_vars => JudgingInv'
  BY JudgingInvNext
<1>3. JudgingInv /\ [Next]_vars => [JudgedAs("Mismatching") => ~Explained]_vars
  <2>1. SUFFICES ASSUME JudgingInv, [Next]_vars, JudgedAs("Mismatching"), Explained
                 PROVE  FALSE
    OBVIOUS
  <2>2. /\ m' \in Message /\ row_before \in Rows /\ row_before' \in Rows
        /\ Judge(m', row_before, row_before').classification = "Mismatching"
    BY <2>1, JudgingInvNext DEF JudgedAs
  <2>3. Explains(m', row_before, row_before')
    BY <2>1 DEF Explained
  <2>4. QED
    BY <2>2, <2>3, ExplainedIsNoMismatch
<1>4. QED
  BY <1>1, <1>2, <1>3, PTL DEF Spec, MismatchUnexplained

----------------------------------------------------------------------------
(* The place of the first mismatch.                                        *)

(* Of two sequences, the longer has the places of either and the shorter   *)
(* those of both.                                                          *)
LEMMA TwoRanges ==
  ASSUME NEW one \in Nat, NEW two \in Nat,
         NEW least, least = IF one <= two THEN one ELSE two,
         NEW most, most = IF one <= two THEN two ELSE one
  PROVE  /\ least \in Nat /\ most \in Nat
         /\ 1 .. least \subseteq 1 .. most
         /\ 1 .. one \cup 1 .. two = 1 .. most
         /\ 1 .. one \cap 1 .. two = 1 .. least
<1>1. CASE one <= two
  <2>1. least = one /\ most = two
    BY <1>1
  <2>2. 1 .. one \subseteq 1 .. two
    BY <1>1
  <2>3. QED
    BY <2>1, <2>2
<1>2. CASE ~(one <= two)
  <2>1. least = two /\ most = one
    BY <1>2
  <2>2. 1 .. two \subseteq 1 .. one
    BY <1>2
  <2>3. QED
    BY <2>1, <2>2
<1>3. QED
  BY <1>1, <1>2

(* Where a comparison does not agree, it names the first difference.       *)
LEMMA ComparisonPlaces ==
  ASSUME NEW side, NEW a \in Seq(AnyLevel), NEW b \in Seq(AnyLevel),
         ~Agrees(Comparison(side, a, b))
  PROVE  FirstDifference(a, b, Comparison(side, a, b).first)
<1> DEFINE most == Max({Len(a), Len(b)})
           both == 1 .. Min({Len(a), Len(b)})
           missing == 1 .. most \ both
           prices == {i \in both : a[i].price # b[i].price}
           quantities == {i \in both : a[i].quantity # b[i].quantity}
           wrong == missing \cup prices \cup quantities
           first == Comparison(side, a, b).first
<1>1. first = IF wrong = {} THEN NoLevel ELSE Min(wrong)
  BY DEF Comparison
<1>2. wrong # {}
  BY <1>1 DEF Agrees
<1>3. /\ Len(a) \in Nat /\ Len(b) \in Nat
      /\ DOMAIN a = 1 .. Len(a) /\ DOMAIN b = 1 .. Len(b)
  BY LenProperties
<1>4. /\ most \in Nat
      /\ both \subseteq 1 .. most
      /\ DOMAIN a \cup DOMAIN b = 1 .. most
      /\ DOMAIN a \cap DOMAIN b = both
  <2>1. /\ Min({Len(a), Len(b)}) = IF Len(a) <= Len(b) THEN Len(a) ELSE Len(b)
        /\ most = IF Len(a) <= Len(b) THEN Len(b) ELSE Len(a)
    BY <1>3, OfTwo
  <2> DEFINE one == Len(a)
             two == Len(b)
             least == Min({one, two})
  <2>2. /\ one \in Nat /\ two \in Nat
        /\ DOMAIN a = 1 .. one /\ DOMAIN b = 1 .. two
        /\ least = IF one <= two THEN one ELSE two
        /\ most = IF one <= two THEN two ELSE one
        /\ both = 1 .. least
    BY <1>3, <2>1
  <2> HIDE DEF one, two, least, most, both
  <2>3. /\ most \in Nat
        /\ 1 .. least \subseteq 1 .. most
        /\ 1 .. one \cup 1 .. two = 1 .. most
        /\ 1 .. one \cap 1 .. two = 1 .. least
    BY <2>2, TwoRanges
  <2>4. QED
    BY <2>2, <2>3
<1> HIDE DEF most, first
<1>5. \A i : i \in wrong <=> DiffersAt(a, b, i)
  <2> DEFINE differ == {i \in both : a[i] # b[i]}
  <2>1. ASSUME NEW i \in both
        PROVE  a[i] # b[i] <=>
                 a[i].price # b[i].price \/ a[i].quantity # b[i].quantity
    <3>1. i \in 1 .. Len(a) /\ i \in 1 .. Len(b)
      BY <1>3, <1>4
    <3>2. a[i] \in AnyLevel /\ b[i] \in AnyLevel
      BY <3>1, LenProperties
    <3>3. QED
      BY <3>2, LevelIs
  <2>2. prices \cup quantities = differ
    BY <2>1
  <2>3. wrong = missing \cup differ
    BY <2>2
  <2>4. ASSUME NEW i
        PROVE  DiffersAt(a, b, i) <=>
                 i \in 1 .. most /\ (i \in both => a[i] # b[i])
    BY <1>4 DEF DiffersAt
  <2> HIDE DEF both, wrong
  <2>5. QED
    BY <1>4, <2>3, <2>4
<1>6. wrong \subseteq 1 .. most
  BY <1>4
<1> HIDE DEF wrong
<1>7. wrong \subseteq Nat
  BY <1>4, <1>6
<1>8. first \in wrong /\ \A i \in wrong : first <= i
  BY <1>1, <1>2, <1>7, MinIsIn
<1>9. \A i \in 1 .. first - 1 : i \notin wrong
  BY <1>7, <1>8
<1>10. QED
  BY <1>5, <1>8, <1>9 DEF FirstDifference, first

(* A row that is cut to the levels that are expected differs first where   *)
(* it does uncut.                                                          *)
LEMMA CutDiffers ==
  ASSUME NEW rest \in Seq(AnyLevel), NEW cur \in Seq(AnyLevel),
         NEW known, known = SubSeq(cur, 1, Min({Len(cur), Len(rest)})),
         NEW i, FirstDifference(rest, known, i)
  PROVE  FirstDifference(rest, cur, i)
<1>1. /\ Len(rest) \in Nat /\ Len(cur) \in Nat
      /\ DOMAIN rest = 1 .. Len(rest) /\ DOMAIN cur = 1 .. Len(cur)
  BY LenProperties
<1>2. /\ Len(known) = IF Len(cur) <= Len(rest) THEN Len(cur) ELSE Len(rest)
      /\ \A k \in 1 .. Len(known) : known[k] = cur[k]
  BY <1>1, KnownIs
<1>3. DOMAIN known = 1 .. Len(known)
  <2>1. Min({Len(cur), Len(rest)}) \in Nat
    BY <1>1, OfTwo
  <2>2. QED
    BY <1>2, <2>1
<1>4. ASSUME NEW k \in 1 .. Len(rest)
      PROVE  DiffersAt(rest, known, k) <=> DiffersAt(rest, cur, k)
  <2> DEFINE n == Len(known)
             c == Len(cur)
             r == Len(rest)
  <2>0. /\ n = IF c <= r THEN c ELSE r
        /\ c \in Nat /\ r \in Nat /\ k \in 1 .. r
        /\ DOMAIN known = 1 .. n /\ DOMAIN cur = 1 .. c
    BY <1>1, <1>2, <1>3
  <2> HIDE DEF n, c, r
  <2>1. k \in DOMAIN known <=> k \in DOMAIN cur
    <3>1. CASE c <= r
      <4>1. n = c
        BY <2>0, <3>1
      <4>2. QED
        BY <2>0, <4>1
    <3>2. CASE ~(c <= r)
      <4>1. n = r
        BY <2>0, <3>2
      <4>2. k \in 1 .. n /\ k \in 1 .. c
        BY <2>0, <3>2, <4>1
      <4>3. QED
        BY <2>0, <4>2
    <3>3. QED
      BY <3>1, <3>2
  <2>2. k \in DOMAIN known => known[k] = cur[k]
    BY <1>2, <1>3
  <2>3. k \in DOMAIN rest
    BY <1>1
  <2>4. QED
    BY <2>1, <2>2, <2>3 DEF DiffersAt
<1>5. DOMAIN rest \cup DOMAIN known = 1 .. Len(rest)
  <2> DEFINE n == Len(known)
             c == Len(cur)
             r == Len(rest)
  <2>1. /\ n = IF c <= r THEN c ELSE r
        /\ c \in Nat /\ r \in Nat
        /\ DOMAIN known = 1 .. n /\ DOMAIN rest = 1 .. r
    BY <1>1, <1>2, <1>3
  <2> HIDE DEF n, c, r
  <2>2. n \in Nat /\ n <= r
    BY <2>1
  <2>3. 1 .. n \subseteq 1 .. r
    BY <2>1, <2>2
  <2>4. DOMAIN rest \cup DOMAIN known = 1 .. r
    BY <2>1, <2>3
  <2>5. QED
    BY <2>4 DEF r
<1>6. i \in 1 .. Len(rest)
  BY <1>5 DEF FirstDifference, DiffersAt
<1>7. \A k \in 1 .. i - 1 : k \in 1 .. Len(rest)
  BY <1>1, <1>6
<1>8. QED
  BY <1>4, <1>6, <1>7 DEF FirstDifference

(* The mismatch to keep is taken from the first comparison that does not   *)
(* agree.                                                                  *)
TakenFrom(at, c) == at.side = c.side /\ at.level = c.first

LEMMA FirstIsTaken ==
  ASSUME NEW comparisons, NEW n \in Nat, DOMAIN comparisons = 1 .. n,
         NEW k \in 1 .. n, ~Agrees(comparisons[k]),
         \A i \in 1 .. k - 1 : Agrees(comparisons[i])
  PROVE  TakenFrom(FirstOf(comparisons), comparisons[k])
<1> DEFINE wrong == {i \in DOMAIN comparisons : ~Agrees(comparisons[i])}
           first == comparisons[Min(wrong)]
           found == [row |-> s.rows_read + 1, side |-> first.side,
                     level |-> first.first]
<1>1. k \in wrong /\ wrong \subseteq 1 .. n
  OBVIOUS
<1>2. \A i \in wrong : k <= i
  BY <1>1
<1>3. FirstOf(comparisons) = IF wrong = {} THEN NoMismatch ELSE found
  BY DEF FirstOf
<1> HIDE DEF wrong
<1>4. wrong \subseteq Nat /\ k \in Nat
  BY <1>1
<1>5. Min(wrong) \in wrong /\ Min(wrong) <= k
  BY <1>1, <1>4, MinIsIn
<1>6. Min(wrong) = k
  <2> DEFINE least == Min(wrong)
  <2>1. least \in Nat /\ k \in Nat /\ least <= k /\ k <= least
    BY <1>2, <1>4, <1>5
  <2> HIDE DEF least
  <2>2. least = k
    BY <2>1
  <2>3. QED
    BY <2>2 DEF least
<1>7. first = comparisons[k]
  BY <1>6
<1>8. FirstOf(comparisons) = found
  BY <1>1, <1>3
<1>9. found.side = first.side /\ found.level = first.first
  OBVIOUS
<1> HIDE DEF first, found
<1>10. QED
  BY <1>7, <1>8, <1>9 DEF TakenFrom

LEMMA FirstOfTwo ==
  ASSUME NEW a, NEW b, ~(Agrees(a) /\ Agrees(b))
  PROVE  TakenFrom(FirstOf(<<a, b>>), IF Agrees(a) THEN b ELSE a)
<1> DEFINE both == <<a, b>>
<1>1. DOMAIN both = 1 .. 2 /\ both[1] = a /\ both[2] = b
  OBVIOUS
<1>2. 2 \in Nat /\ 1 \in 1 .. 2 /\ 2 \in 1 .. 2
  OBVIOUS
<1>3. 1 .. 1 - 1 = {} /\ \A i \in 1 .. 2 - 1 : i = 1
  OBVIOUS
<1> HIDE DEF both
<1>4. CASE Agrees(a)
  <2>1. ~Agrees(both[2]) /\ \A i \in 1 .. 2 - 1 : Agrees(both[i])
    BY <1>1, <1>3, <1>4
  <2>2. TakenFrom(FirstOf(both), both[2])
    BY <1>1, <1>2, <2>1, FirstIsTaken
  <2>3. QED
    BY <1>1, <1>4, <2>2 DEF both
<1>5. CASE ~Agrees(a)
  <2>1. ~Agrees(both[1]) /\ \A i \in 1 .. 1 - 1 : Agrees(both[i])
    BY <1>1, <1>3, <1>5
  <2>2. TakenFrom(FirstOf(both), both[1])
    BY <1>1, <1>2, <2>1, FirstIsTaken
  <2>3. QED
    BY <1>1, <1>5, <2>2 DEF both
<1>6. QED
  BY <1>4, <1>5

LEMMA FirstOfThree ==
  ASSUME NEW a, NEW b, NEW c, ~Agrees(b)
  PROVE  TakenFrom(FirstOf(<<a, b, c>>), IF Agrees(a) THEN b ELSE a)
<1> DEFINE all == <<a, b, c>>
<1>1. DOMAIN all = 1 .. 3 /\ all[1] = a /\ all[2] = b
  OBVIOUS
<1>2. 3 \in Nat /\ 1 \in 1 .. 3 /\ 2 \in 1 .. 3
  OBVIOUS
<1>3. 1 .. 1 - 1 = {} /\ \A i \in 1 .. 2 - 1 : i = 1
  OBVIOUS
<1> HIDE DEF all
<1>4. CASE Agrees(a)
  <2>1. ~Agrees(all[2]) /\ \A i \in 1 .. 2 - 1 : Agrees(all[i])
    BY <1>1, <1>3, <1>4
  <2>2. TakenFrom(FirstOf(all), all[2])
    BY <1>1, <1>2, <2>1, FirstIsTaken
  <2>3. QED
    BY <1>1, <1>4, <2>2 DEF all
<1>5. CASE ~Agrees(a)
  <2>1. ~Agrees(all[1]) /\ \A i \in 1 .. 1 - 1 : Agrees(all[i])
    BY <1>1, <1>3, <1>5
  <2>2. TakenFrom(FirstOf(all), all[1])
    BY <1>1, <1>2, <2>1, FirstIsTaken
  <2>3. QED
    BY <1>1, <1>5, <2>2 DEF all
<1>6. QED
  BY <1>4, <1>5

----------------------------------------------------------------------------
(* A message about an order: the other side goes before its own.           *)

OwnPlace(level, message, prev, cur) ==
  IF Contradicted(message, prev) THEN level = PlaceOf(message.price, prev)
  ELSE FirstDifference(Predicted(message, prev), cur, level)

(* at is taken from across when that does not agree, else from along.      *)
LEMMA AroundPlaced ==
  ASSUME NEW message, message.type # 5, NEW before \in Rows, NEW current \in Rows,
         NEW across,
         across = Comparison(OppositeOf(message), before[OppositeOf(message)],
                             current[OppositeOf(message)]),
         NEW along, along.side = SideOf(message),
         Agrees(across) =>
           OwnPlace(along.first, message, before[SideOf(message)],
                    current[SideOf(message)]),
         NEW at, TakenFrom(at, IF Agrees(across) THEN along ELSE across)
  PROVE  FirstPlace(at, message, before, current)
<1> DEFINE side == SideOf(message)
           other == OppositeOf(message)
<1>1. side \in BookSide /\ other \in BookSide /\ other # side
  BY SidesOfMessage
<1>2. before[other] \in Seq(AnyLevel) /\ current[other] \in Seq(AnyLevel)
  BY <1>1, SideOfRow
<1>3. Agrees(across) <=> before[other] = current[other]
  BY <1>2, AgreeIsEqual
<1>4. across.side = other
  BY DEF Comparison
<1>5. CASE Agrees(across)
  <2>1. at.side = side /\ at.level = along.first
    BY <1>5 DEF TakenFrom
  <2>2. OwnPlace(at.level, message, before[side], current[side])
    BY <1>5, <2>1
  <2> HIDE DEF side, other
  <2>3. QED
    BY <1>1, <1>3, <1>5, <2>1, <2>2 DEF FirstPlace, OwnPlace, side, other
<1>6. CASE ~Agrees(across)
  <2>1. at.side = other /\ at.level = across.first
    BY <1>4, <1>6 DEF TakenFrom
  <2>2. FirstDifference(before[other], current[other], at.level)
    BY <1>2, <1>6, <2>1, ComparisonPlaces
  <2> HIDE DEF side, other
  <2>3. QED
    BY <1>1, <1>3, <1>6, <2>1, <2>2 DEF FirstPlace, side, other
<1>7. QED
  BY <1>5, <1>6

(* A sequence cut short is one of the same values.                         *)
LEMMA CutIsSeq ==
  ASSUME NEW S, NEW q, NEW n \in Nat, \A k \in 1 .. n : q[k] \in S
  PROVE  SubSeq(q, 1, n) \in Seq(S)
<1>1. 1 \in Int /\ n \in Int
  OBVIOUS
<1>2. QED
  BY <1>1, SubSeqProperties

(* What LevelRemoved compares names the first difference from the row.     *)
LEMMA RemovedPlaces ==
  ASSUME NEW side, NEW prev \in Seq(AnyLevel), NEW cur \in Seq(AnyLevel),
         NEW rest \in Seq(AnyLevel), NEW seen,
         seen = IF Len(prev) < depth THEN cur
                ELSE SubSeq(cur, 1, Min({Len(cur), Len(rest)})),
         ~Agrees(Comparison(side, rest, seen))
  PROVE  FirstDifference(rest, cur, Comparison(side, rest, seen).first)
<1>1. CASE Len(prev) < depth
  BY <1>1, ComparisonPlaces
<1>2. CASE ~(Len(prev) < depth)
  <2> DEFINE n == Min({Len(cur), Len(rest)})
  <2>1. Len(cur) \in Nat /\ Len(rest) \in Nat
    BY LenProperties
  <2>2. n \in Nat /\ n <= Len(cur)
    <3>1. n = IF Len(cur) <= Len(rest) THEN Len(cur) ELSE Len(rest)
      BY <2>1, OfTwo
    <3>2. QED
      BY <2>1, <3>1
  <2>3. seen = SubSeq(cur, 1, n)
    BY <1>2
  <2> HIDE DEF n
  <2>4. seen \in Seq(AnyLevel)
    <3>1. \A k \in 1 .. Len(cur) : cur[k] \in AnyLevel
      BY LenProperties
    <3>2. \A k \in 1 .. n : k \in 1 .. Len(cur)
      BY <2>1, <2>2
    <3>3. \A k \in 1 .. n : cur[k] \in AnyLevel
      BY <3>1, <3>2
    <3>4. SubSeq(cur, 1, n) \in Seq(AnyLevel)
      BY <2>2, <3>3, CutIsSeq
    <3>5. QED
      BY <2>3, <3>4
  <2>5. FirstDifference(rest, seen, Comparison(side, rest, seen).first)
    BY <2>4, ComparisonPlaces
  <2>6. QED
    BY <2>3, <2>5, CutDiffers DEF n
<1>3. QED
  BY <1>1, <1>2

(* The judgement names the first place that is wrong.                      *)
NamesPlace(j, message, before, current) ==
  FirstOf(j.comparisons) # NoMismatch =>
    FirstPlace(FirstOf(j.comparisons), message, before, current)

(* It does when it makes two comparisons, of which the second follows from *)
(* what the message predicts.                                              *)
LEMMA TwoNamePlace ==
  ASSUME NEW message, message.type # 5, NEW before \in Rows, NEW current \in Rows,
         NEW across,
         across = Comparison(OppositeOf(message), before[OppositeOf(message)],
                             current[OppositeOf(message)]),
         NEW along, along.side = SideOf(message),
         ~Agrees(along) =>
           OwnPlace(along.first, message, before[SideOf(message)],
                    current[SideOf(message)]),
         NEW j, j.comparisons = <<across, along>>
  PROVE  NamesPlace(j, message, before, current)
<1> DEFINE at == FirstOf(j.comparisons)
<1>1. SUFFICES ASSUME at # NoMismatch
               PROVE  FirstPlace(at, message, before, current)
  BY DEF NamesPlace
<1>2. ~(Agrees(across) /\ Agrees(along))
  <2> DEFINE both == <<across, along>>
  <2>1. SUFFICES ASSUME Agrees(across), Agrees(along) PROVE at = NoMismatch
    BY <1>1
  <2>2. DOMAIN both = 1 .. 2 /\ both[1] = across /\ both[2] = along
    OBVIOUS
  <2>3. \A i \in 1 .. 2 : i = 1 \/ i = 2
    OBVIOUS
  <2> HIDE DEF both
  <2>4. \A i \in DOMAIN both : Agrees(both[i])
    BY <2>1, <2>2, <2>3
  <2>5. FirstOf(both) = NoMismatch
    BY <2>4, FirstIs
  <2>6. QED
    BY <2>5 DEF both
<1>3. TakenFrom(at, IF Agrees(across) THEN along ELSE across)
  BY <1>2, FirstOfTwo
<1>4. Agrees(across) =>
        OwnPlace(along.first, message, before[SideOf(message)],
                 current[SideOf(message)])
  BY <1>2
<1> HIDE DEF at
<1>5. QED
  BY <1>3, <1>4, AroundPlaced

LEMMA SubmissionNamesPlace ==
  ASSUME NEW message \in Message, message.type = 1,
         NEW before \in Rows, NEW current \in Rows
  PROVE  NamesPlace(validate_submission_transition(message, before, current),
                    message, before, current)
<1> DEFINE side == SideOf(message)
           other == OppositeOf(message)
           prev == before[side]
           cur == current[side]
           across == Comparison(other, before[other], current[other])
           predicted == Submitted(message, prev)
           along == Comparison(side, predicted, cur)
           j == validate_submission_transition(message, before, current)
<1>1. side \in BookSide
  BY SidesOfMessage
<1>2. prev \in Seq(AnyLevel) /\ cur \in Seq(AnyLevel)
  BY <1>1, SideOfRow
<1>3. predicted \in Seq(AnyLevel)
  BY <1>2, SubmittedType
<1>4. Predicted(message, prev) = predicted /\ ~Contradicted(message, prev)
  BY DEF Predicted, Contradicted
<1>5. along.side = side
  BY DEF Comparison
<1>6. j.comparisons = <<across, along>>
  BY DEF validate_submission_transition, Judgement
<1>7. message.type # 5
  OBVIOUS
<1> HIDE DEF predicted, prev, cur
<1>8. ~Agrees(along) => OwnPlace(along.first, message, prev, cur)
  BY <1>2, <1>3, <1>4, ComparisonPlaces DEF OwnPlace
<1> HIDE DEF along, j
<1>9. NamesPlace(j, message, before, current)
  BY <1>5, <1>6, <1>7, <1>8, TwoNamePlace DEF prev, cur
<1>10. QED
  BY <1>9 DEF j

LEMMA OutOfSightNamesPlace ==
  ASSUME NEW message \in Message, message.type \in 2 .. 4,
         NEW before \in Rows, NEW current \in Rows,
         PlaceOf(message.price, before[SideOf(message)]) = 0,
         NEW across,
         across = Comparison(OppositeOf(message), before[OppositeOf(message)],
                             current[OppositeOf(message)])
  PROVE  NamesPlace(ReductionOutOfSight(message, across, before[SideOf(message)],
                                        current[SideOf(message)]),
                    message, before, current)
<1> DEFINE side == SideOf(message)
           prev == before[side]
           cur == current[side]
           along == Comparison(side, prev, cur)
           remark == Remark(side, 0)
           j == ReductionOutOfSight(message, across, prev, cur)
           off == is_potentially_off_depth(side, message.price, prev)
<1>1. side \in BookSide
  BY SidesOfMessage
<1>2. prev \in Seq(AnyLevel) /\ cur \in Seq(AnyLevel)
  BY <1>1, SideOfRow
<1>3. message.type # 5 /\ message.type # 1
  OBVIOUS
<1>4. Predicted(message, prev) = prev /\ (Contradicted(message, prev) <=> ~off)
  BY <1>3 DEF Predicted, Contradicted
<1>5. along.side = side
  BY DEF Comparison
<1>6. remark.side = side /\ remark.first = 0 /\ ~Agrees(remark)
  BY DEF Remark, Comparison, Agrees, NoLevel
<1>7. j.comparisons = IF off THEN <<across, along>> ELSE <<across, remark, along>>
  BY DEF ReductionOutOfSight, Judgement
<1>8. PlaceOf(message.price, prev) = 0
  OBVIOUS
<1> HIDE DEF remark, off, j, prev, cur
<1>9. CASE off
  <2>1. ~Agrees(along) => OwnPlace(along.first, message, prev, cur)
    BY <1>2, <1>4, <1>9, ComparisonPlaces DEF OwnPlace
  <2>2. j.comparisons = <<across, along>>
    BY <1>7, <1>9
  <2> HIDE DEF along
  <2>3. QED
    BY <1>3, <1>5, <2>1, <2>2, TwoNamePlace DEF j, prev, cur
<1>10. CASE ~off
  <2> DEFINE at == FirstOf(j.comparisons)
  <2>1. OwnPlace(remark.first, message, prev, cur)
    BY <1>4, <1>6, <1>8, <1>10 DEF OwnPlace
  <2>2. TakenFrom(at, IF Agrees(across) THEN remark ELSE across)
    BY <1>6, <1>7, <1>10, FirstOfThree
  <2> HIDE DEF at
  <2>3. FirstPlace(at, message, before, current)
    BY <1>3, <1>6, <2>1, <2>2, AroundPlaced DEF prev, cur
  <2>4. QED
    BY <2>3 DEF NamesPlace, at, j, prev, cur
<1>11. QED
  BY <1>9, <1>10

LEMMA InSightNamesPlace ==
  ASSUME NEW message \in Message, message.type \in 2 .. 4,
         NEW before \in Rows, NEW current \in Rows,
         PlaceOf(message.price, before[SideOf(message)]) # 0,
         NEW across,
         across = Comparison(OppositeOf(message), before[OppositeOf(message)],
                             current[OppositeOf(message)])
  PROVE  NamesPlace(ReductionInSight(message, across, before[SideOf(message)],
                                     current[SideOf(message)]),
                    message, before, current)
<1> DEFINE side == SideOf(message)
           prev == before[side]
           cur == current[side]
           at == PlaceOf(message.price, prev)
           quantity == prev[at].quantity
           j == ReductionInSight(message, across, prev, cur)
<1>1. side \in BookSide
  BY SidesOfMessage
<1>2. prev \in Seq(AnyLevel) /\ cur \in Seq(AnyLevel)
  BY <1>1, SideOfRow
<1>3. message.type # 5 /\ message.type # 1
  OBVIOUS
<1>4. at # 0 /\ at \in 1 .. Len(prev) /\ Len(prev) \in Nat
  BY <1>2, PlaceIs, LenProperties
<1>5. j = IF message.size > quantity
          THEN Judgement("Mismatching", <<across, Remark(side, at)>>,
                         OppositeChange(across) \cup {"quantity_underflows"})
          ELSE IF message.size < quantity
          THEN LevelReduced(message, across, prev, cur)
          ELSE LevelRemoved(message, across, prev, cur)
  BY DEF ReductionInSight
<1>6. /\ Contradicted(message, prev) <=> message.size > quantity
      /\ Predicted(message, prev) = IF message.size < quantity
                                    THEN Reduced(message, prev)
                                    ELSE RemoveAt(prev, at)
  BY <1>3, <1>4 DEF Contradicted, Predicted
<1>7. CASE message.size > quantity
  <2> DEFINE remark == Remark(side, at)
             place == FirstOf(j.comparisons)
  <2>1. j.comparisons = <<across, remark>>
    BY <1>5, <1>7 DEF Judgement
  <2>2. remark.side = side /\ remark.first = at
    BY DEF Remark, Comparison
  <2>3. ~Agrees(remark)
    BY <1>4, <2>2 DEF Agrees, NoLevel
  <2>4. OwnPlace(remark.first, message, prev, cur)
    BY <1>6, <1>7, <2>2 DEF OwnPlace
  <2> HIDE DEF remark, j
  <2>5. TakenFrom(place, IF Agrees(across) THEN remark ELSE across)
    BY <2>1, <2>3, FirstOfTwo
  <2> HIDE DEF place
  <2>6. FirstPlace(place, message, before, current)
    BY <1>3, <2>2, <2>4, <2>5, AroundPlaced
  <2>7. QED
    BY <2>6 DEF NamesPlace, place, j
<1>8. CASE ~(message.size > quantity) /\ message.size < quantity
  <2> DEFINE predicted == Reduced(message, prev)
             along == Comparison(side, predicted, cur)
  <2>1. j.comparisons = <<across, along>>
    BY <1>5, <1>8 DEF LevelReduced, Judgement
  <2>2. predicted \in Seq(AnyLevel)
    BY <1>2, <1>4, ReducedIs
  <2>3. Predicted(message, prev) = predicted /\ ~Contradicted(message, prev)
    BY <1>6, <1>8
  <2>4. along.side = side
    BY DEF Comparison
  <2> HIDE DEF predicted, j
  <2>5. ~Agrees(along) => OwnPlace(along.first, message, prev, cur)
    BY <1>2, <2>2, <2>3, ComparisonPlaces DEF OwnPlace
  <2> HIDE DEF along
  <2>6. NamesPlace(j, message, before, current)
    BY <1>3, <2>1, <2>4, <2>5, TwoNamePlace
  <2>7. QED
    BY <2>6 DEF j
<1>9. CASE ~(message.size > quantity) /\ ~(message.size < quantity)
  <2> DEFINE rest == RemoveAt(prev, at)
             seen == IF Len(prev) < depth THEN cur
                     ELSE SubSeq(cur, 1, Min({Len(cur), Len(rest)}))
             along == Comparison(side, rest, seen)
  <2>1. j.comparisons = <<across, along>>
    BY <1>5, <1>9 DEF LevelRemoved, Judgement
  <2>2. rest \in Seq(AnyLevel)
    BY <1>2, <1>4, Removed
  <2>3. Predicted(message, prev) = rest /\ ~Contradicted(message, prev)
    BY <1>6, <1>9
  <2>4. along.side = side
    BY DEF Comparison
  <2> HIDE DEF rest, j
  <2>5. ASSUME ~Agrees(along) PROVE FirstDifference(rest, cur, along.first)
    <3>1. seen = IF Len(prev) < depth THEN cur
                 ELSE SubSeq(cur, 1, Min({Len(cur), Len(rest)}))
      OBVIOUS
    <3> HIDE DEF seen
    <3>2. QED
      BY <1>2, <2>2, <2>5, <3>1, RemovedPlaces
  <2> HIDE DEF along
  <2>6. ~Agrees(along) => OwnPlace(along.first, message, prev, cur)
    BY <2>3, <2>5 DEF OwnPlace
  <2>7. NamesPlace(j, message, before, current)
    BY <1>3, <2>1, <2>4, <2>6, TwoNamePlace
  <2>8. QED
    BY <2>7 DEF j
<1>10. QED
  BY <1>7, <1>8, <1>9

LEMMA HiddenNamesPlace ==
  ASSUME NEW message, message.type = 5,
         NEW before \in Rows, NEW current \in Rows
  PROVE  NamesPlace(validate_hidden_transition(before, current),
                    message, before, current)
<1> DEFINE bids == Comparison("bids", before["bids"], current["bids"])
           asks == Comparison("asks", before["asks"], current["asks"])
           j == validate_hidden_transition(before, current)
           at == FirstOf(j.comparisons)
<1>1. "bids" \in BookSide /\ "asks" \in BookSide
  BY DEF BookSide
<1>2. /\ before["bids"] \in Seq(AnyLevel) /\ current["bids"] \in Seq(AnyLevel)
      /\ before["asks"] \in Seq(AnyLevel) /\ current["asks"] \in Seq(AnyLevel)
  BY <1>1, SideOfRow
<1>3. j.comparisons = <<bids, asks>>
  BY DEF validate_hidden_transition, Judgement
<1>4. bids.side = "bids" /\ asks.side = "asks"
  BY DEF Comparison
<1>5. /\ Agrees(bids) <=> before["bids"] = current["bids"]
      /\ Agrees(asks) <=> before["asks"] = current["asks"]
  BY <1>2, AgreeIsEqual
<1>6. /\ ~Agrees(bids) => FirstDifference(before["bids"], current["bids"], bids.first)
      /\ ~Agrees(asks) => FirstDifference(before["asks"], current["asks"], asks.first)
  BY <1>2, ComparisonPlaces
<1> HIDE DEF bids, asks, j
<1>7. SUFFICES ASSUME at # NoMismatch
               PROVE  FirstPlace(at, message, before, current)
  BY DEF NamesPlace, j
<1>8. ~(Agrees(bids) /\ Agrees(asks))
  <2> DEFINE both == <<bids, asks>>
  <2>1. SUFFICES ASSUME Agrees(bids), Agrees(asks) PROVE at = NoMismatch
    BY <1>7
  <2>2. DOMAIN both = 1 .. 2 /\ both[1] = bids /\ both[2] = asks
    OBVIOUS
  <2>3. \A i \in 1 .. 2 : i = 1 \/ i = 2
    OBVIOUS
  <2> HIDE DEF both
  <2>4. \A i \in DOMAIN both : Agrees(both[i])
    BY <2>1, <2>2, <2>3
  <2>5. FirstOf(both) = NoMismatch
    BY <2>4, FirstIs
  <2>6. QED
    BY <1>3, <2>5 DEF both
<1>9. TakenFrom(at, IF Agrees(bids) THEN asks ELSE bids)
  BY <1>3, <1>8, FirstOfTwo
<1> HIDE DEF at
<1>10. CASE Agrees(bids)
  <2>1. at.side = "asks" /\ at.level = asks.first
    BY <1>4, <1>9, <1>10 DEF TakenFrom
  <2>2. QED
    BY <1>5, <1>6, <1>8, <1>10, <2>1 DEF FirstPlace
<1>11. CASE ~Agrees(bids)
  <2>1. at.side = "bids" /\ at.level = bids.first
    BY <1>4, <1>9, <1>11 DEF TakenFrom
  <2>2. QED
    BY <1>5, <1>6, <1>11, <2>1 DEF FirstPlace
<1>12. QED
  BY <1>10, <1>11

LEMMA JudgeNamesPlace ==
  ASSUME NEW message \in Message, NEW before \in Rows, NEW current \in Rows
  PROVE  NamesPlace(Judge(message, before, current), message, before, current)
<1> DEFINE side == SideOf(message)
           other == OppositeOf(message)
           across == Comparison(other, before[other], current[other])
<1>1. CASE message.type = 1
  BY <1>1, SubmissionNamesPlace DEF Judge
<1>2. CASE message.type \in 2 .. 4
  <2>1. message.type # 1
    BY <1>2
  <2>2. Judge(message, before, current) =
          IF PlaceOf(message.price, before[side]) = 0
          THEN ReductionOutOfSight(message, across, before[side], current[side])
          ELSE ReductionInSight(message, across, before[side], current[side])
    BY <1>2, <2>1 DEF Judge, validate_reduction_transition
  <2> HIDE DEF across
  <2>3. across = Comparison(other, before[other], current[other])
    BY DEF across
  <2>4. CASE PlaceOf(message.price, before[side]) = 0
    BY <1>2, <2>2, <2>3, <2>4, OutOfSightNamesPlace
  <2>5. CASE PlaceOf(message.price, before[side]) # 0
    BY <1>2, <2>2, <2>3, <2>5, InSightNamesPlace
  <2>6. QED
    BY <2>4, <2>5
<1>3. CASE message.type = 5
  <2>1. message.type # 1 /\ ~(message.type \in 2 .. 4)
    BY <1>3
  <2>2. QED
    BY <1>3, <2>1, HiddenNamesPlace DEF Judge
<1>4. CASE message.type # 1 /\ ~(message.type \in 2 .. 4) /\ message.type # 5
  <2> DEFINE j == Judgement("Unsupported", <<>>, {})
  <2>1. Judge(message, before, current) = j
    BY <1>4 DEF Judge
  <2>2. j.comparisons = <<>>
    BY DEF Judgement
  <2>3. FirstOf(j.comparisons) = NoMismatch
    BY <2>2, FirstIs
  <2>4. QED
    BY <2>1, <2>3 DEF NamesPlace
<1>5. QED
  BY <1>1, <1>2, <1>3, <1>4

LEMMA FirstMismatchStep ==
  ASSUME JudgingInv, [Next]_vars, s'.first_mismatch # s.first_mismatch
  PROVE  FirstPlace(s'.first_mismatch, m', row_before, row_before')
<1>1. SummaryInv /\ row_before = previous
  BY DEF JudgingInv
<1>2. PICK current \in Rows, message \in Messages :
        CheckTransition(message, current)
  <2>1. ASSUME NEW current \in Rows, ReadBaseline(current) PROVE FALSE
    BY <1>1, <2>1, BaselineSummary
  <2>2. ~(Throw \/ Return \/ UNCHANGED vars)
    BY DEF Throw, Return, vars
  <2>3. QED
    BY <2>1, <2>2 DEF Next
<1> DEFINE j == Judge(message, previous, current)
<1>3. /\ previous # NoRow /\ row_before' = current /\ m' = message
      /\ s' = Counted(j)
  BY <1>2 DEF CheckTransition, Judged
<1>4. previous \in Rows /\ message \in Message /\ IsSummary(s)
  BY <1>1, <1>3, MessagesAssumption DEF SummaryInv, Message
<1>5. SoundJudgement(j) /\ NamesPlace(j, message, previous, current)
  BY <1>4, JudgeSound, JudgeNamesPlace
<1> HIDE DEF j
<1>6. s'.first_mismatch = Captured(j.comparisons)
  BY <1>3, <1>4, <1>5, CountedIs
<1>7. s'.first_mismatch = FirstOf(j.comparisons) /\ FirstOf(j.comparisons) # NoMismatch
  BY <1>6 DEF Captured
<1>8. QED
  BY <1>1, <1>3, <1>5, <1>7 DEF NamesPlace

(* The mismatch in the summary is about the first transition that did not  *)
(* match and the first place of it that is wrong, and stays.               *)
THEOREM FirstMismatchStays == Spec => FirstMismatchKept
<1> DEFINE kept ==
      s'.first_mismatch # s.first_mismatch =>
        /\ s.mismatching = 0
        /\ s'.mismatching = 1
        /\ s'.first_mismatch.row = s'.rows_read
        /\ FirstPlace(s'.first_mismatch, m', row_before, row_before')
<1>1. Init => JudgingInv
  BY JudgingInvInit
<1>2. JudgingInv /\ [Next]_vars => JudgingInv'
  BY JudgingInvNext
<1>3. JudgingInv /\ [Next]_vars => [kept]_vars
  BY SummaryInvNext, FirstMismatchStep DEF JudgingInv
<1>4. QED
  BY <1>1, <1>2, <1>3, PTL DEF Spec, FirstMismatchKept

----------------------------------------------------------------------------
(* A transition that is judged to match is explained by its message.       *)

(* The book that has nothing out of sight.                                 *)
BookOf(levels) ==
  [q \in Visible(levels) |->
     levels[CHOOSE i \in 1 .. Len(levels) : levels[i].price = q].quantity]

LEMMA BookOfIs ==
  ASSUME NEW side \in BookSide, NEW levels, Sorted(side, levels)
  PROVE  /\ DOMAIN BookOf(levels) = Visible(levels)
         /\ \A i \in 1 .. Len(levels) :
              BookOf(levels)[levels[i].price] = levels[i].quantity
         /\ ShowsBest(side, BookOf(levels), levels)
         /\ Shows(side, BookOf(levels), levels)
<1>1. DOMAIN BookOf(levels) = Visible(levels)
  BY DEF BookOf
<1>2. ASSUME NEW i \in 1 .. Len(levels)
      PROVE  BookOf(levels)[levels[i].price] = levels[i].quantity
  <2> DEFINE p == levels[i].price
             k == CHOOSE n \in 1 .. Len(levels) : levels[n].price = p
  <2>1. k \in 1 .. Len(levels) /\ levels[k].price = p
    OBVIOUS
  <2>2. p \in Visible(levels)
    BY DEF Visible
  <2>3. BookOf(levels)[p] = levels[k].quantity
    BY <2>2 DEF BookOf
  <2> HIDE DEF k
  <2>4. k = i
    BY <2>1, OnePlace
  <2>5. QED
    BY <2>3, <2>4
<1>3. ShowsBest(side, BookOf(levels), levels)
  BY <1>1, <1>2 DEF ShowsBest
<1>4. levels \in Seq(AnyLevel)
  BY DEF Sorted
<1>5. Shows(side, BookOf(levels), levels)
  BY <1>1, <1>3, <1>4, ShowsIs
<1>6. QED
  BY <1>1, <1>2, <1>3, <1>5

LEMMA BookOfRow ==
  ASSUME NEW row \in Rows, NEW side \in BookSide
  PROVE  /\ BookOf(row[side]) \in SideBooks
         /\ DOMAIN BookOf(row[side]) \subseteq BookPrices
         /\ \A q \in DOMAIN BookOf(row[side]) :
              BookOf(row[side])[q] \in BookQuantities
<1> DEFINE levels == row[side]
           book == BookOf(levels)
<1>1. Sorted(side, levels) /\ DOMAIN levels = 1 .. Len(levels)
  BY SideIs, LevelsAre
<1>2. /\ DOMAIN book = Visible(levels)
      /\ \A i \in 1 .. Len(levels) : book[levels[i].price] = levels[i].quantity
  BY <1>1, BookOfIs
<1>3. \A i \in 1 .. Len(levels) : /\ levels[i].price \in BookPrices
                                  /\ levels[i].quantity \in BookQuantities
  BY <1>1, BooksAssumption
<1>4. book = [q \in DOMAIN book |-> book[q]]
  BY DEF BookOf
<1> HIDE DEF book, levels
<1>5. Visible(levels) \subseteq BookPrices
  BY <1>3 DEF Visible
<1>6. \A q \in Visible(levels) : book[q] \in BookQuantities
  BY <1>2, <1>3 DEF Visible
<1>7. book \in [Visible(levels) -> BookQuantities]
  BY <1>2, <1>4, <1>6
<1>8. book \in SideBooks
  BY <1>5, <1>7 DEF SideBooks
<1>9. QED
  BY <1>2, <1>5, <1>6, <1>8 DEF book, levels

(* To explain a transition it is enough to give a book for its side.       *)
LEMMA ExplainedBy ==
  ASSUME NEW message, message.type # 5, NEW before, NEW current,
         before[OppositeOf(message)] = current[OppositeOf(message)],
         NEW book \in SideBooks, Shows(SideOf(message), book, before[SideOf(message)]),
         NEW after \in After(message, book),
         Shows(SideOf(message), after, current[SideOf(message)])
  PROVE  Explains(message, before, current)
BY DEF Explains

LEMMA MatchingSubmission ==
  ASSUME NEW message \in Message, NEW before \in Rows, NEW current \in Rows,
         message.type = 1,
         validate_submission_transition(message, before, current).classification
           = "Matching"
  PROVE  Explains(message, before, current)
<1> DEFINE side == SideOf(message)
           other == OppositeOf(message)
           book == BookOf(before[side])
<1>1. side \in BookSide /\ other \in BookSide
  BY SidesOfMessage
<1>2. before[other] = current[other] /\ Submitted(message, before[side]) = current[side]
  BY SubmissionClass DEF MatchingIf
<1>3. Sorted(side, before[side]) /\ Len(before[side]) <= depth
  BY <1>1, SideIs
<1>4. book \in SideBooks
  BY <1>1, BookOfRow
<1>5. Shows(side, book, before[side])
  BY <1>1, <1>3, BookOfIs
<1> HIDE DEF book
<1>6. DOMAIN book \subseteq Int
  BY <1>4, BookIs
<1>7. PICK after : after \in After(message, book)
  BY DEF After
<1>8. Shows(side, after, Submitted(message, before[side]))
  BY <1>3, <1>5, <1>6, <1>7, SubmittedShows
<1>9. Shows(side, after, current[side]) /\ message.type # 5
  BY <1>2, <1>8
<1>10. QED
  BY <1>2, <1>4, <1>5, <1>7, <1>9, ExplainedBy

LEMMA HiddenClass ==
  ASSUME NEW before \in Rows, NEW current \in Rows
  PROVE  validate_hidden_transition(before, current).classification =
           IF before = current THEN "Matching" ELSE "Mismatching"
<1>1. "bids" \in BookSide /\ "asks" \in BookSide
  BY DEF BookSide
<1>2. /\ Agrees(Comparison("bids", before.bids, current.bids))
           <=> before.bids = current.bids
      /\ Agrees(Comparison("asks", before.asks, current.asks))
           <=> before.asks = current.asks
  BY <1>1, SideIs, AgreeIsEqual
<1>3. before \in [BookSide -> Seq(Level)] /\ current \in [BookSide -> Seq(Level)]
  BY RowsAssumption
<1>4. before = current <=> before.bids = current.bids /\ before.asks = current.asks
  BY <1>3 DEF BookSide
<1>5. QED
  BY <1>2, <1>4 DEF validate_hidden_transition, Judgement, MatchingIf

(* What a reduction of a level makes of a book.                            *)
LEMMA ReductionOf ==
  ASSUME NEW message \in Message, message.type # 1,
         NEW book, message.price \in DOMAIN book, book[message.price] \in Int
  PROVE  LET p == message.price
         IN  /\ message.size < book[p] =>
                  [book EXCEPT ![p] = book[p] - message.size] \in After(message, book)
             /\ message.size = book[p] =>
                  Restrict(book, DOMAIN book \ {p}) \in After(message, book)
<1>1. message.size \in Int
  BY DEF Message
<1>2. ASSUME message.size < book[message.price]
      PROVE  [book EXCEPT ![message.price] = book[message.price] - message.size]
               \in After(message, book)
  BY <1>2 DEF After
<1>3. ASSUME message.size = book[message.price]
      PROVE  Restrict(book, DOMAIN book \ {message.price}) \in After(message, book)
  <2>1. ~(message.size < book[message.price])
    BY <1>1, <1>3
  <2>2. QED
    BY <1>3, <2>1 DEF After
<1>4. QED
  BY <1>2, <1>3

LEMMA MatchingReduction ==
  ASSUME NEW message \in Message, NEW before \in Rows, NEW current \in Rows,
         message.type \in 2 .. 4,
         validate_reduction_transition(message, before, current).classification
           = "Matching"
  PROVE  Explains(message, before, current)
<1> DEFINE side == SideOf(message)
           other == OppositeOf(message)
           across == Comparison(other, before[other], current[other])
           prev == before[side]
           cur == current[side]
           p == message.price
           at == PlaceOf(p, prev)
           book == BookOf(prev)
           j == validate_reduction_transition(message, before, current)
<1>1. side \in BookSide /\ other \in BookSide
  BY SidesOfMessage
<1>2. /\ Sorted(side, prev) /\ prev \in Seq(AnyLevel) /\ Len(prev) \in Nat
      /\ Len(prev) <= depth
      /\ Sorted(side, cur) /\ cur \in Seq(AnyLevel) /\ Len(cur) \in Nat
      /\ Len(cur) <= depth
      /\ \A i \in 1 .. Len(prev) :
           prev[i].price \in Int /\ prev[i].quantity \in Nat \ {0}
  BY <1>1, SideIs
<1>3. Agrees(across) <=> before[other] = current[other]
  BY <1>1, SideIs, AgreeIsEqual
<1>4. /\ at = 0 => j = ReductionOutOfSight(message, across, prev, cur)
      /\ at # 0 /\ message.size > prev[at].quantity =>
            j.classification = "Mismatching"
      /\ at # 0 /\ message.size < prev[at].quantity
           /\ ~(message.size > prev[at].quantity) =>
            j = LevelReduced(message, across, prev, cur)
      /\ at # 0 /\ ~(message.size < prev[at].quantity)
           /\ ~(message.size > prev[at].quantity) =>
            j = LevelRemoved(message, across, prev, cur)
  BY ReductionClass
<1>5. j.classification = "Matching" /\ message.type # 1 /\ message.type # 5
  OBVIOUS
<1>6. book \in SideBooks
  BY <1>1, BookOfRow
<1>7. /\ DOMAIN book = Visible(prev)
      /\ \A i \in 1 .. Len(prev) : book[prev[i].price] = prev[i].quantity
      /\ ShowsBest(side, book, prev) /\ Shows(side, book, prev)
  BY <1>1, <1>2, BookOfIs
<1>8. \/ at = 0 /\ p \notin Visible(prev)
      \/ at \in 1 .. Len(prev) /\ prev[at].price = p
  BY <1>2, PlaceIs DEF Visible
<1>9. at = PlaceOf(message.price, prev) /\ message.size \in Int
  BY DEF Message
<1> HIDE DEF at, across, j, prev, cur, side, other, book
<1>10. at # 0
  <2>1. SUFFICES ASSUME at = 0 PROVE FALSE
    OBVIOUS
  <2>2. j.classification \in {"Unverifiable", "Mismatching"}
    <3>1. j = ReductionOutOfSight(message, across, prev, cur)
      BY <1>4, <2>1
    <3>2. prev \in Seq(AnyLevel) /\ cur \in Seq(AnyLevel)
      BY <1>2
    <3>3. QED
      BY <3>1, <3>2, OutOfSightClass
  <2>3. QED
    BY <1>5, <2>2
<1>11. at \in 1 .. Len(prev) /\ prev[at].price = p
  BY <1>8, <1>10
<1>12. p \in DOMAIN book /\ book[p] = prev[at].quantity /\ book[p] \in Int
  BY <1>2, <1>7, <1>11 DEF Visible
<1>13. ~(message.size > prev[at].quantity)
  BY <1>4, <1>5, <1>10
<1>14. CASE message.size < prev[at].quantity
  <2> DEFINE new == Reduced(message, prev)
             less == prev[at].quantity - message.size
             after == [book EXCEPT ![p] = less]
  <2>1. j.classification = IF Agrees(across) /\ new = cur
                           THEN "Matching" ELSE "Mismatching"
    <3>1. j = LevelReduced(message, across, prev, cur)
      BY <1>4, <1>10, <1>13, <1>14
    <3>2. prev \in Seq(AnyLevel) /\ cur \in Seq(AnyLevel)
      BY <1>2
    <3>3. PlaceOf(message.price, prev) # 0
      BY <1>9, <1>10
    <3> HIDE DEF new
    <3>4. QED
      BY <3>1, <3>2, <3>3, ReducedClass DEF new
  <2>2. Agrees(across) /\ new = cur
    BY <1>5, <2>1
  <2>3. after \in After(message, book)
    BY <1>5, <1>12, <1>14, ReductionOf
  <2>4. less = prev[at].quantity - message.size
    OBVIOUS
  <2> HIDE DEF less
  <2>5. /\ less \in Int
        /\ new \in Seq(AnyLevel) /\ Len(new) = Len(prev)
        /\ \A k \in 1 .. Len(prev) :
             /\ new[k].price = prev[k].price
             /\ new[k].quantity = IF k = at THEN less ELSE prev[k].quantity
    <3>1. \A i \in 1 .. Len(prev) : prev[i].price \in Int /\ prev[i].quantity \in Int
      BY <1>2
    <3>2. less \in Int
      BY <1>9, <1>11, <2>4, <3>1
    <3>3. QED
      BY <1>2, <1>9, <1>10, <2>4, <3>1, <3>2, ReducedIs
  <2>6. /\ DOMAIN after = DOMAIN book
        /\ after[prev[at].price] = less
        /\ \A r \in DOMAIN book : r # prev[at].price => after[r] = book[r]
    <3>1. /\ DOMAIN after = DOMAIN book /\ after[p] = less
          /\ \A r \in DOMAIN book : r # p => after[r] = book[r]
      BY <1>12
    <3> HIDE DEF p
    <3>2. QED
      BY <1>11, <3>1
  <2> HIDE DEF new, after
  <2>7. Shows(side, after, new)
    <3>1. Sorted(side, prev) /\ Shows(side, book, prev) /\ at \in 1 .. Len(prev)
      BY <1>2, <1>7, <1>11
    <3>2. side \in BookSide
      BY <1>1
    <3>3. QED
      BY <2>5, <2>6, <3>1, <3>2, RequantifiedShows
  <2>8. Shows(side, after, cur) /\ before[other] = current[other]
    BY <1>3, <2>2, <2>7
  <2>9. QED
    BY <1>5, <1>6, <1>7, <2>3, <2>8, ExplainedBy DEF side, other, prev, cur
<1>15. CASE message.size = prev[at].quantity
  <2> DEFINE rest == RemoveAt(prev, at)
             after == Restrict(book, DOMAIN book \ {p})
             kept == /\ Len(rest) <= Len(cur)
                     /\ \A k \in 1 .. Len(rest) : rest[k] = cur[k]
  <2>1. j = LevelRemoved(message, across, prev, cur)
    BY <1>4, <1>9, <1>10, <1>13, <1>15
  <2>2. /\ Len(prev) < depth =>
             j.classification = IF Agrees(across) /\ rest = cur
                                THEN "Matching" ELSE "Mismatching"
        /\ Len(prev) = depth =>
             j.classification = IF ~(Agrees(across) /\ kept) THEN "Mismatching"
                                ELSE IF Len(cur) = Len(rest) THEN "Matching"
                                ELSE "Unverifiable"
    <3>1. /\ prev \in Seq(AnyLevel) /\ Len(prev) <= depth
          /\ cur \in Seq(AnyLevel) /\ Len(cur) <= depth
      BY <1>2
    <3>2. at = PlaceOf(message.price, prev)
      BY <1>9
    <3>3. QED
      BY <1>10, <2>1, <3>1, <3>2, RemovedClass
  <2>3. after \in After(message, book)
    BY <1>5, <1>12, <1>15, ReductionOf
  <2>4. /\ Sorted(side, rest) /\ rest \in Seq(AnyLevel)
        /\ Visible(rest) = Visible(prev) \ {p}
        /\ ShowsBest(side, after, rest)
    <3>1. /\ Sorted(side, rest)
          /\ Visible(rest) = Visible(prev) \ {prev[at].price}
          /\ ShowsBest(side, Restrict(book, DOMAIN book \ {prev[at].price}), rest)
      <4>1. /\ side \in BookSide /\ Sorted(side, prev)
            /\ ShowsBest(side, book, prev) /\ at \in 1 .. Len(prev)
        BY <1>1, <1>2, <1>7, <1>11
      <4>2. QED
        BY <4>1, RemovedShows
    <3> HIDE DEF rest
    <3>2. QED
      BY <1>11, <3>1 DEF Sorted
  <2>5. DOMAIN after = DOMAIN book \ {p}
    BY DEF Restrict
  <2> HIDE DEF rest, after
  <2>6. Shows(side, after, rest)
    BY <1>7, <2>4, <2>5, ShowsIs
  <2>7. Agrees(across) /\ rest = cur
    <3>1. CASE Len(prev) < depth
      BY <1>5, <2>2, <3>1
    <3>2. CASE Len(prev) = depth
      <4>1. Agrees(across) /\ kept /\ Len(cur) = Len(rest)
        BY <1>5, <2>2, <3>2
      <4>2. rest = cur
        BY <1>2, <2>4, <4>1, SeqEqual
      <4>3. QED
        BY <4>1, <4>2
    <3>3. QED
      BY <1>2, <3>1, <3>2, DepthAssumption
  <2>8. Shows(side, after, cur) /\ before[other] = current[other]
    BY <1>3, <2>6, <2>7
  <2>9. QED
    BY <1>5, <1>6, <1>7, <2>3, <2>8, ExplainedBy DEF side, other, prev, cur
<1>16. message.size < prev[at].quantity \/ message.size = prev[at].quantity
  BY <1>9, <1>12, <1>13
<1>17. QED
  BY <1>14, <1>15, <1>16

LEMMA MatchingIsExplained ==
  ASSUME NEW message \in Message, NEW before \in Rows, NEW current \in Rows,
         Judge(message, before, current).classification = "Matching"
  PROVE  Explains(message, before, current)
<1>1. CASE message.type = 1
  BY <1>1, MatchingSubmission DEF Judge
<1>2. CASE message.type \in 2 .. 4
  <2>1. message.type # 1
    BY <1>2
  <2>2. Judge(message, before, current) =
          validate_reduction_transition(message, before, current)
    BY <1>2, <2>1 DEF Judge
  <2>3. QED
    BY <1>2, <2>2, MatchingReduction
<1>3. CASE message.type = 5
  <2>1. message.type # 1 /\ ~(message.type \in 2 .. 4)
    BY <1>3
  <2>2. Judge(message, before, current) = validate_hidden_transition(before, current)
    BY <1>3, <2>1 DEF Judge
  <2>3. before = current
    BY <2>2, HiddenClass
  <2>4. QED
    BY <1>3, <2>3 DEF Explains
<1>4. CASE message.type # 1 /\ ~(message.type \in 2 .. 4) /\ message.type # 5
  BY <1>4 DEF Judge, Judgement
<1>5. QED
  BY <1>1, <1>2, <1>3, <1>4

(* A transition is called matching only when its message explains it: some *)
(* book shows the row before it, and shows this row after the message.     *)
THEOREM MatchesAreExplained == Spec => MatchingExplained
<1>1. Init => JudgingInv
  BY JudgingInvInit
<1>2. JudgingInv /\ [Next]_vars => JudgingInv'
  BY JudgingInvNext
<1>3. JudgingInv /\ [Next]_vars => [JudgedAs("Matching") => Explained]_vars
  <2>1. SUFFICES ASSUME JudgingInv, [Next]_vars, JudgedAs("Matching")
                 PROVE  Explained
    OBVIOUS
  <2>2. /\ m' \in Message /\ row_before \in Rows /\ row_before' \in Rows
        /\ Judge(m', row_before, row_before').classification = "Matching"
    BY <2>1, JudgingInvNext DEF JudgedAs
  <2>3. QED
    BY <2>2, MatchingIsExplained DEF Explained
<1>4. QED
  BY <1>1, <1>2, <1>3, PTL DEF Spec, MatchingExplained

----------------------------------------------------------------------------
(* A transition that is judged unverifiable is possible at least.          *)

(* A full ladder, and one more level out of sight behind it.               *)
Behind(levels, p, n) ==
  [q \in Visible(levels) \cup {p} |-> IF q = p THEN n ELSE BookOf(levels)[q]]

LEMMA BehindShows ==
  ASSUME NEW side \in BookSide, NEW levels, Sorted(side, levels),
         Len(levels) = depth, NEW p \in Int,
         Better(side, levels[depth].price, p), NEW n \in Int
  PROVE  /\ p \notin Visible(levels)
         /\ ShowsBest(side, Behind(levels, p, n), levels)
         /\ Shows(side, Behind(levels, p, n), levels)
<1> DEFINE book == Behind(levels, p, n)
<1>1. /\ levels \in Seq(AnyLevel) /\ depth \in 1 .. Len(levels)
      /\ \A i \in 1 .. Len(levels) : levels[i].price \in Int
  BY LevelsAre, DepthAssumption DEF Sorted
<1>2. ASSUME NEW i \in 1 .. Len(levels) PROVE Better(side, levels[i].price, p)
  <2>1. CASE i = depth
    BY <2>1
  <2>2. CASE i # depth
    <3>1. i < depth
      BY <1>1, <2>2
    <3>2. Better(side, levels[i].price, levels[depth].price)
      BY <1>1, <3>1 DEF Sorted
    <3>3. levels[i].price \in Int /\ levels[depth].price \in Int
      BY <1>1
    <3>4. QED
      BY <3>2, <3>3, BetterIs
  <2>3. QED
    BY <2>1, <2>2
<1>3. p \notin Visible(levels)
  BY <1>2, BetterIs DEF Visible
<1>4. /\ DOMAIN book = Visible(levels) \cup {p}
      /\ book[p] = n
      /\ \A q \in Visible(levels) : book[q] = BookOf(levels)[q]
  BY <1>3 DEF Behind
<1> HIDE DEF book
<1>5. \A i \in 1 .. Len(levels) : levels[i].quantity = book[levels[i].price]
  <2>1. \A i \in 1 .. Len(levels) :
          BookOf(levels)[levels[i].price] = levels[i].quantity
    BY BookOfIs
  <2>2. QED
    BY <1>4, <2>1 DEF Visible
<1>6. ShowsBest(side, book, levels)
  <2>1. \A q \in Visible(levels) : Better(side, q, p)
    BY <1>2 DEF Visible
  <2>2. QED
    BY <1>4, <1>5, <2>1 DEF ShowsBest
<1>7. ~(Len(levels) < depth)
  BY DepthAssumption
<1>8. Shows(side, book, levels)
  BY <1>1, <1>6, <1>7, ShowsIs
<1>9. QED
  BY <1>3, <1>4, <1>6, <1>8 DEF book

LEMMA BehindIsABook ==
  ASSUME NEW row \in Rows, NEW side \in BookSide,
         NEW p \in BookPrices, NEW n \in BookQuantities
  PROVE  Behind(row[side], p, n) \in SideBooks
<1> DEFINE book == Behind(row[side], p, n)
           P == Visible(row[side]) \cup {p}
<1>1. Sorted(side, row[side])
  BY SideIs
<1>2. /\ DOMAIN BookOf(row[side]) = Visible(row[side])
      /\ Visible(row[side]) \subseteq BookPrices
      /\ \A q \in Visible(row[side]) : BookOf(row[side])[q] \in BookQuantities
  BY <1>1, BookOfIs, BookOfRow
<1>3. book \in [P -> BookQuantities]
  BY <1>2 DEF Behind
<1>4. P \in SUBSET BookPrices
  BY <1>2
<1> HIDE DEF book, P
<1>5. QED
  BY <1>3, <1>4 DEF SideBooks, book

(* A reduction whose level is out of sight.                                *)
LEMMA OutOfSightPossible ==
  ASSUME NEW message \in Message, message.type # 1, message.type # 5,
         message.price \in BookPrices, message.size \in BookQuantities,
         NEW before \in Rows, NEW current \in Rows,
         before[OppositeOf(message)] = current[OppositeOf(message)],
         before[SideOf(message)] = current[SideOf(message)],
         is_potentially_off_depth(SideOf(message), message.price,
                                  before[SideOf(message)])
  PROVE  Explains(message, before, current)
<1> DEFINE side == SideOf(message)
           levels == before[side]
           p == message.price
           book == Behind(levels, p, message.size)
           after == Restrict(book, DOMAIN book \ {p})
<1>1. side \in BookSide
  BY SidesOfMessage
<1>2. Sorted(side, levels)
  BY <1>1, SideIs
<1>3. Len(levels) = depth /\ Better(side, levels[depth].price, p)
  BY DEF is_potentially_off_depth, Last
<1>4. book \in SideBooks
  BY <1>1, BehindIsABook
<1>5. p \in Int /\ message.size \in Int
  BY DEF Message
<1>6. /\ p \notin Visible(levels)
      /\ DOMAIN book = Visible(levels) \cup {p}
      /\ book[p] = message.size
      /\ ShowsBest(side, book, levels)
      /\ Shows(side, book, levels)
  <2> HIDE DEF levels, side, p
  <2> DEFINE n == message.size
             shown == Behind(levels, p, n)
  <2>1. n \in Int /\ p \in Int
    BY <1>5
  <2>2. Len(levels) = depth /\ Better(side, levels[depth].price, p)
    BY <1>3
  <2> HIDE DEF n
  <2>3. p \notin Visible(levels)
    BY <1>1, <1>2, <2>1, <2>2, BehindShows
  <2>4. DOMAIN shown = Visible(levels) \cup {p} /\ shown[p] = n
    BY <2>3 DEF Behind
  <2>5. ShowsBest(side, shown, levels) /\ Shows(side, shown, levels)
    BY <1>1, <1>2, <2>1, <2>2, BehindShows
  <2>6. QED
    BY <2>3, <2>4, <2>5 DEF n
<1> HIDE DEF book
<1>7. after \in After(message, book)
  <2>1. p \in DOMAIN book /\ book[p] \in Int /\ message.size = book[p]
    BY <1>5, <1>6
  <2>2. QED
    BY <2>1, ReductionOf
<1>8. /\ DOMAIN after = Visible(levels)
      /\ \A q \in Visible(levels) : after[q] = book[q]
  BY <1>6 DEF Restrict
<1> HIDE DEF after
<1>9. Shows(side, after, levels)
  BY <1>1, <1>2, <1>3, <1>6, <1>8, HiddenShows
<1>10. QED
  BY <1>4, <1>6, <1>7, <1>9, ExplainedBy

LEMMA RemovedFromSight ==
  ASSUME NEW side \in BookSide, NEW levels, Sorted(side, levels),
         NEW at \in 1 .. Len(levels)
  PROVE  Visible(RemoveAt(levels, at)) = Visible(levels) \ {levels[at].price}
<1>1. ShowsBest(side, BookOf(levels), levels)
  BY BookOfIs
<1>2. QED
  BY <1>1, RemovedShows

(* A full ladder loses a level other than its last one, and shows one more *)
(* level at its end.                                                       *)
Refills(message, prev, cur, at) ==
  /\ Len(prev) = depth /\ Len(cur) = depth
  /\ at \in 1 .. depth /\ at # depth
  /\ prev[at].price = message.price /\ prev[at].quantity = message.size
  /\ \A k \in 1 .. depth - 1 : RemoveAt(prev, at)[k] = cur[k]

LEMMA RefillPossible ==
  ASSUME NEW message \in Message, message.type # 1, message.type # 5,
         NEW before \in Rows, NEW current \in Rows,
         before[OppositeOf(message)] = current[OppositeOf(message)],
         NEW at, Refills(message, before[SideOf(message)],
                         current[SideOf(message)], at)
  PROVE  Explains(message, before, current)
<1>names. PICK side, prev, cur, rest :
         /\ side = SideOf(message)
         /\ prev = before[side] /\ cur = current[side]
         /\ rest = RemoveAt(prev, at)
  OBVIOUS
<1>refill. /\ Len(prev) = depth /\ Len(cur) = depth
       /\ at \in 1 .. depth /\ at # depth
       /\ prev[at].price = message.price /\ prev[at].quantity = message.size
       /\ \A k \in 1 .. depth - 1 : rest[k] = cur[k]
  BY <1>names DEF Refills
<1> USE <1>names, <1>refill
<1> DEFINE p == message.price
           t == cur[depth].price
           n == cur[depth].quantity
           book == Behind(prev, t, n)
           after == Restrict(book, DOMAIN book \ {p})
<1>1. side \in BookSide
  BY SidesOfMessage
<1>2. /\ Sorted(side, prev) /\ Sorted(side, cur)
      /\ prev \in Seq(AnyLevel) /\ cur \in Seq(AnyLevel)
      /\ \A i \in 1 .. depth : /\ prev[i].price \in Int
                               /\ prev[i].quantity \in Int
                               /\ cur[i].price \in Int
                               /\ cur[i].quantity \in Int
  <2>1. /\ Sorted(side, before[side]) /\ Sorted(side, current[side])
        /\ before[side] \in Seq(AnyLevel) /\ current[side] \in Seq(AnyLevel)
    BY <1>1, SideIs
  <2>2. /\ Sorted(side, prev) /\ Sorted(side, cur)
        /\ prev \in Seq(AnyLevel) /\ cur \in Seq(AnyLevel)
    BY <2>1
  <2>3. QED
    BY <2>2, LevelsAre
<1>3. at \in 1 .. Len(prev) /\ depth \in Nat /\ depth - 1 \in 1 .. depth
  BY DepthAssumption
<1>4. /\ Len(rest) = depth - 1
      /\ rest[depth - 1] = prev[depth]
  <2>1. /\ Len(rest) = Len(prev) - 1
        /\ \A k \in 1 .. Len(prev) - 1 :
             rest[k] = IF k < at THEN prev[k] ELSE prev[k + 1]
    BY <1>2, <1>3, Removed
  <2>2. depth - 1 \in 1 .. Len(prev) - 1 /\ ~(depth - 1 < at) /\ depth - 1 + 1 = depth
    BY <1>3
  <2>3. rest[depth - 1] = prev[depth - 1 + 1]
    BY <2>1, <2>2
  <2>4. QED
    BY <2>1, <2>2, <2>3
<1>5. Better(side, prev[depth].price, t)
  <2>1. cur[depth - 1] = prev[depth]
    <3>1. depth - 1 \in 1 .. depth - 1
      BY <1>3
    <3>2. QED
      BY <1>4, <3>1
  <2>2. Better(side, cur[depth - 1].price, cur[depth].price)
    <3>1. depth - 1 \in 1 .. Len(cur) /\ depth \in 1 .. Len(cur) /\ depth - 1 < depth
      BY <1>3, DepthAssumption
    <3>2. QED
      BY <1>2, <3>1 DEF Sorted
  <2>3. QED
    BY <2>1, <2>2
<1>6. t \in Int /\ n \in Int /\ t \in BookPrices /\ n \in BookQuantities
  <2>1. depth \in DOMAIN cur
    BY <1>2, LevelsAre, DepthAssumption
  <2>2. t \in BookPrices /\ n \in BookQuantities
    BY <1>1, <2>1, BooksAssumption
  <2>3. depth \in 1 .. depth
    BY DepthAssumption
  <2>4. t \in Int /\ n \in Int
    BY <1>2, <2>3
  <2>5. QED
    BY <2>2, <2>4
<1>7. book \in SideBooks
  BY <1>1, <1>6, BehindIsABook
<1> HIDE DEF t, n
<1>8. t \notin Visible(prev)
  BY <1>1, <1>2, <1>5, <1>6, BehindShows
<1>9. ShowsBest(side, book, prev) /\ Shows(side, book, prev)
  BY <1>1, <1>2, <1>5, <1>6, BehindShows
<1>10. DOMAIN book = Visible(prev) \cup {t} /\ book[t] = n
  BY <1>8 DEF Behind
<1>11. p \in Visible(prev) /\ book[p] = message.size /\ book[p] \in Int /\ p # t
  <2>1. p \in Visible(prev)
    BY <1>3 DEF Visible
  <2>2. prev[at].quantity = book[prev[at].price]
    BY <1>3, <1>9 DEF ShowsBest
  <2>3. message.size \in Int
    BY DEF Message
  <2>4. QED
    BY <1>8, <2>1, <2>2, <2>3
<1> HIDE DEF book
<1>12. after \in After(message, book)
  <2>1. p \in DOMAIN book /\ book[p] \in Int /\ message.size = book[p]
    BY <1>10, <1>11
  <2>2. QED
    BY <2>1, ReductionOf
<1>13. /\ DOMAIN after = (Visible(prev) \cup {t}) \ {p}
       /\ after[t] = n
  BY <1>10, <1>11 DEF Restrict
<1>14. /\ Visible(rest) = Visible(prev) \ {p}
       /\ ShowsBest(side, after, rest)
  <2>1. /\ Visible(rest) = Visible(prev) \ {prev[at].price}
        /\ ShowsBest(side, Restrict(book, DOMAIN book \ {prev[at].price}), rest)
    <3>1. at \in 1 .. Len(prev)
      BY <1>3
    <3>2. Sorted(side, prev) /\ ShowsBest(side, book, prev)
      BY <1>2, <1>9
    <3>3. Visible(rest) = Visible(prev) \ {prev[at].price}
      BY <1>1, <3>1, <3>2, RemovedFromSight
    <3>4. ShowsBest(side, Restrict(book, DOMAIN book \ {prev[at].price}), rest)
      BY <1>1, <3>1, <3>2, RemovedShows
    <3>5. QED
      BY <3>3, <3>4
  <2>2. QED
    BY <2>1
<1> HIDE DEF after
<1>15. \A k \in 1 .. depth - 1 : rest[k] = cur[k]
  OBVIOUS
<1>16. Visible(cur) = Visible(rest) \cup {t}
  <2>1. ASSUME NEW k \in 1 .. depth PROVE cur[k].price \in Visible(rest) \cup {t}
    <3>1. CASE k = depth
      BY <3>1 DEF t
    <3>2. CASE k # depth
      <4>1. k \in 1 .. depth - 1
        BY <1>3, <3>2
      <4>2. QED
        BY <1>4, <1>15, <4>1 DEF Visible
    <3>3. QED
      BY <3>1, <3>2
  <2>2. ASSUME NEW k \in 1 .. depth - 1 PROVE rest[k].price \in Visible(cur)
    <3>1. k \in 1 .. Len(cur)
      BY <1>3
    <3>2. QED
      BY <1>15, <3>1 DEF Visible
  <2>3. t \in Visible(cur)
    <3>1. depth \in 1 .. Len(cur)
      BY DepthAssumption
    <3>2. QED
      BY <3>1 DEF t, Visible
  <2>4. Visible(cur) \subseteq Visible(rest) \cup {t}
    <3>1. Visible(cur) = {cur[k].price : k \in 1 .. depth}
      BY DEF Visible
    <3>2. QED
      BY <2>1, <3>1
  <2>5. Visible(rest) \subseteq Visible(cur)
    <3>1. Visible(rest) = {rest[k].price : k \in 1 .. depth - 1}
      BY <1>4 DEF Visible
    <3>2. QED
      BY <2>2, <3>1
  <2>6. QED
    BY <2>3, <2>4, <2>5
<1>17. Visible(cur) = DOMAIN after
  BY <1>11, <1>13, <1>14, <1>16
<1>18. ASSUME NEW k \in 1 .. Len(cur) PROVE cur[k].quantity = after[cur[k].price]
  <2>1. CASE k = depth
    BY <1>13, <2>1 DEF t, n
  <2>2. CASE k # depth
    <3>1. k \in 1 .. depth - 1
      BY <1>3, <2>2
    <3>2. rest[k].quantity = after[rest[k].price]
      BY <1>4, <1>14, <3>1 DEF ShowsBest
    <3>3. QED
      BY <1>15, <3>1, <3>2
  <2>3. QED
    BY <2>1, <2>2
<1>19. ShowsBest(side, after, cur)
  BY <1>17, <1>18 DEF ShowsBest
<1>20. Shows(side, after, cur)
  BY <1>2, <1>17, <1>19, ShowsIs
<1>23. QED
  BY <1>7, <1>9, <1>12, <1>20, ExplainedBy

LEMMA UnverifiableReduction ==
  ASSUME NEW message \in Message, message \in Messages, Meaningful(message),
         NEW before \in Rows, NEW current \in Rows,
         message.type \in 2 .. 4,
         validate_reduction_transition(message, before, current).classification
           = "Unverifiable",
         NEW side, side = SideOf(message),
         ~(before[side] # <<>> /\ message.price = Last(before[side]).price)
  PROVE  Explains(message, before, current)
<1> DEFINE other == OppositeOf(message)
           across == Comparison(other, before[other], current[other])
           prev == before[side]
           cur == current[side]
           p == message.price
           at == PlaceOf(p, prev)
           j == validate_reduction_transition(message, before, current)
<1>1. side \in BookSide /\ other \in BookSide
  BY SidesOfMessage
<1>2. /\ Sorted(side, prev) /\ prev \in Seq(AnyLevel) /\ Len(prev) \in Nat
      /\ Len(prev) <= depth
      /\ Sorted(side, cur) /\ cur \in Seq(AnyLevel) /\ Len(cur) \in Nat
      /\ Len(cur) <= depth
      /\ \A i \in 1 .. Len(prev) : prev[i].quantity \in Nat \ {0}
  BY <1>1, SideIs
<1>3. Agrees(across) <=> before[other] = current[other]
  BY <1>1, SideIs, AgreeIsEqual
<1>4. /\ at = 0 => j = ReductionOutOfSight(message, across, prev, cur)
      /\ at # 0 /\ message.size > prev[at].quantity =>
            j.classification = "Mismatching"
      /\ at # 0 /\ message.size < prev[at].quantity
           /\ ~(message.size > prev[at].quantity) =>
            j = LevelReduced(message, across, prev, cur)
      /\ at # 0 /\ ~(message.size < prev[at].quantity)
           /\ ~(message.size > prev[at].quantity) =>
            j = LevelRemoved(message, across, prev, cur)
  BY ReductionClass
<1>5. j.classification = "Unverifiable" /\ message.type # 1 /\ message.type # 5
  OBVIOUS
<1>6. p \in BookPrices /\ message.size \in BookQuantities
  <2>1. message.type \in 1 .. 4
    OBVIOUS
  <2>2. QED
    BY <2>1, BooksAssumption
<1>7. \/ at = 0 /\ p \notin Visible(prev)
      \/ at \in 1 .. Len(prev) /\ prev[at].price = p
  BY <1>2, PlaceIs DEF Visible
<1>8. at = PlaceOf(message.price, prev) /\ message.size \in Int
  BY DEF Message
<1>9. prev \in Seq(AnyLevel) /\ cur \in Seq(AnyLevel)
  BY <1>2
<1>10. ~(prev # <<>> /\ p = Last(prev).price)
  OBVIOUS
<1> HIDE DEF at, across, j
<1>11. CASE at = 0
  <2>1. j = ReductionOutOfSight(message, across, prev, cur)
    BY <1>4, <1>11
  <2>2. /\ is_potentially_off_depth(side, p, prev)
        /\ Agrees(across) /\ prev = cur
    <3> HIDE DEF prev, cur
    <3>1. j.classification =
            IF is_potentially_off_depth(side, p, prev) /\ Agrees(across) /\ prev = cur
            THEN "Unverifiable" ELSE "Mismatching"
      BY <1>9, <2>1, OutOfSightClass
    <3>2. QED
      BY <1>5, <3>1
  <2>3. before[other] = current[other]
    BY <1>3, <2>2
  <2>4. QED
    BY <1>5, <1>6, <2>2, <2>3, OutOfSightPossible
<1>12. CASE at # 0
  <2> HIDE DEF prev, cur
  <2>1. at \in 1 .. Len(prev) /\ prev[at].price = p
    BY <1>7, <1>12
  <2>2. prev[at].quantity \in Nat
    BY <1>2, <2>1
  <2>3. ~(message.size > prev[at].quantity)
    BY <1>4, <1>5, <1>12
  <2>4. ~(message.size < prev[at].quantity)
    <3>1. SUFFICES ASSUME message.size < prev[at].quantity PROVE FALSE
      OBVIOUS
    <3>2. j = LevelReduced(message, across, prev, cur)
      BY <1>4, <1>12, <2>3, <3>1
    <3>3. PlaceOf(message.price, prev) # 0
      BY <1>8, <1>12
    <3>4. j.classification \in {"Matching", "Mismatching"}
      BY <1>9, <3>2, <3>3, ReducedClass
    <3>5. QED
      BY <1>5, <3>4
  <2>5. message.size = prev[at].quantity
    BY <1>8, <2>2, <2>3, <2>4
  <2>6. j = LevelRemoved(message, across, prev, cur)
    BY <1>4, <1>12, <2>3, <2>4
  <2> DEFINE rest == RemoveAt(prev, at)
             kept == /\ Len(rest) <= Len(cur)
                     /\ \A k \in 1 .. Len(rest) : rest[k] = cur[k]
  <2>7. /\ Len(prev) < depth =>
             j.classification = IF Agrees(across) /\ rest = cur
                                THEN "Matching" ELSE "Mismatching"
        /\ Len(prev) = depth =>
             j.classification = IF ~(Agrees(across) /\ kept) THEN "Mismatching"
                                ELSE IF Len(cur) = Len(rest) THEN "Matching"
                                ELSE "Unverifiable"
    <3>1. /\ prev \in Seq(AnyLevel) /\ Len(prev) <= depth
          /\ cur \in Seq(AnyLevel) /\ Len(cur) <= depth
      BY <1>2
    <3>2. at = PlaceOf(message.price, prev)
      BY <1>8
    <3>3. QED
      BY <1>12, <2>6, <3>1, <3>2, RemovedClass
  <2>8. Len(prev) = depth
    <3>1. ~(Len(prev) < depth)
      BY <1>5, <2>7
    <3>2. QED
      BY <1>2, <3>1, DepthAssumption
  <2>9. Agrees(across) /\ kept /\ Len(cur) # Len(rest)
    BY <1>5, <2>7, <2>8
  <2>10. Len(rest) = depth - 1
    BY <1>9, <2>1, <2>8, Removed
  <2> HIDE DEF rest
  <2>11. Len(cur) = depth /\ \A k \in 1 .. depth - 1 : rest[k] = cur[k]
    BY <1>2, <2>9, <2>10, DepthAssumption
  <2>12. at # depth
    <3>1. SUFFICES ASSUME at = depth PROVE FALSE
      OBVIOUS
    <3>2. Last(prev) = prev[at] /\ prev # <<>>
      BY <1>2, <2>1, <2>8, <3>1, DepthAssumption DEF Last
    <3>3. QED
      BY <1>10, <2>1, <3>2
  <2>13. before[other] = current[other]
    BY <1>3, <2>9
  <2>14. /\ at \in 1 .. depth
         /\ prev[at].price = message.price /\ prev[at].quantity = message.size
    BY <2>1, <2>5, <2>8
  <2>15. rest = RemoveAt(prev, at)
    BY DEF rest
  <2>16. prev = before[side] /\ cur = current[side]
    BY DEF prev, cur
  <2>17. QED
    <3>1. Refills(message, prev, cur, at)
      BY <2>8, <2>11, <2>12, <2>14, <2>15 DEF Refills
    <3>2. QED
      BY <1>5, <2>13, <2>16, <3>1, RefillPossible
<1>13. QED
  BY <1>11, <1>12

LEMMA UnverifiableIsPossible ==
  ASSUME NEW message \in Message, message \in Messages, Meaningful(message),
         NEW before \in Rows, NEW current \in Rows,
         Judge(message, before, current).classification = "Unverifiable",
         NEW levels, levels = before[SideOf(message)],
         ~(levels # <<>> /\ message.price = Last(levels).price)
  PROVE  Explains(message, before, current)
<1>1. message.type # 1
  <2>1. SUFFICES ASSUME message.type = 1 PROVE FALSE
    OBVIOUS
  <2>2. Judge(message, before, current) =
          validate_submission_transition(message, before, current)
    BY <2>1 DEF Judge
  <2>3. validate_submission_transition(message, before, current).classification
          \in {"Matching", "Mismatching"}
    BY DEF validate_submission_transition, Judgement, MatchingIf
  <2>4. QED
    BY <2>2, <2>3
<1>2. CASE message.type \in 2 .. 4
  <2>1. Judge(message, before, current) =
          validate_reduction_transition(message, before, current)
    BY <1>1, <1>2 DEF Judge
  <2>2. QED
    BY <1>2, <2>1, UnverifiableReduction
<1>3. ASSUME ~(message.type \in 2 .. 4) PROVE FALSE
  <2>1. CASE message.type = 5
    <3>1. Judge(message, before, current) = validate_hidden_transition(before, current)
      BY <1>1, <1>3, <2>1 DEF Judge
    <3>2. QED
      BY <3>1, HiddenClass
  <2>2. CASE message.type # 5
    BY <1>1, <1>3, <2>2 DEF Judge, Judgement
  <2>3. QED
    BY <2>1, <2>2
<1>4. QED
  BY <1>2, <1>3

(* A transition that is called unverifiable is possible at least: some     *)
(* book, with something out of sight, makes its message explain it, unless *)
(* the message takes away the last visible level.                          *)
THEOREM UnverifiablesArePossible == Spec => UnverifiablePossible
<1>1. Init => JudgingInv
  BY JudgingInvInit
<1>2. JudgingInv /\ [Next]_vars => JudgingInv'
  BY JudgingInvNext
<1>3. JudgingInv /\ [Next]_vars =>
        [JudgedAs("Unverifiable") => Explained \/ TakesLastVisible]_vars
  <2>1. SUFFICES ASSUME JudgingInv, [Next]_vars, JudgedAs("Unverifiable"),
                        ~TakesLastVisible
                 PROVE  Explained
    OBVIOUS
  <2>2. /\ m' \in Message /\ m' \in Messages /\ Meaningful(m')
        /\ row_before \in Rows /\ row_before' \in Rows
        /\ Judge(m', row_before, row_before').classification = "Unverifiable"
    BY <2>1, JudgingInvNext DEF JudgedAs
  <2>3. ~(/\ row_before[SideOf(m')] # <<>>
          /\ m'.price = Last(row_before[SideOf(m')]).price)
    BY <2>1 DEF TakesLastVisible
  <2>4. QED
    BY <2>2, <2>3, UnverifiableIsPossible DEF Explained
<1>4. QED
  BY <1>1, <1>2, <1>3, PTL DEF Spec, UnverifiablePossible
=============================================================================
