----------------------------- MODULE RowProofs -----------------------------
(***************************************************************************)
(* Theorems about LobsterBookRow, for every line, every depth and every    *)
(* width of size_t: the parser never reads past its line, what it returns  *)
(* is a ladder, and it returns it exactly when the line says so.           *)
(***************************************************************************)
EXTENDS LobsterBookRow, SequenceTheorems, TLAPS

(* The count of fields does not wrap for a depth within the limit.         *)
LEMMA FieldsDoNotWrap ==
  ASSUME NEW d \in Nat, DepthInRange(d)
  PROVE  ExpectedFields(d) = 4 * d
<1>1. SizeMax \in Nat
  BY DepthsAssumption
<1>2. 4 * (SizeMax \div 4) <= SizeMax
  BY <1>1
<1>3. d * 4 \in 0 .. SizeMax
  BY <1>1, <1>2 DEF DepthInRange
<1>4. (d * 4) % (SizeMax + 1) = d * 4
  BY <1>1, <1>3
<1>5. QED
  BY <1>4 DEF ExpectedFields

(* Arguments, and what the check of the line leaves behind.                *)
Called ==
  /\ depth \in Nat
  /\ line \in Lines \cup {<<>>}

LineInv ==
  /\ Called
  /\ status = "reading" => Len(line) = 4 * depth

LEMMA LineInit == Init => LineInv
BY DepthsAssumption DEF Init, LineInv, Called

LEMMA LineNext == LineInv /\ [Next]_vars => LineInv'
<1> SUFFICES ASSUME LineInv, [Next]_vars PROVE LineInv'
  OBVIOUS
<1>1. CASE CheckLine
  <2>1. Called'
    BY <1>1 DEF CheckLine, LineInv, Called
  <2>2. ASSUME status' = "reading" PROVE Len(line) = 4 * depth
    <3>1. /\ DepthInRange(depth)
          /\ FieldsIn(line) = ExpectedFields(depth)
          /\ depth \in Nat /\ depth > 0
      BY <1>1, <2>2 DEF CheckLine, LineInv, Called
    <3>2. FieldsIn(line) = 4 * depth
      BY <3>1, FieldsDoNotWrap
    <3>3. line # <<>>
      BY <3>1, <3>2 DEF FieldsIn
    <3>4. QED
      BY <3>2, <3>3 DEF FieldsIn
  <2>3. QED
    BY <1>1, <2>1, <2>2 DEF LineInv, CheckLine
<1>2. CASE ReadNothing \/ ReadLevel \/ RefuseLevel \/ Return \/ UNCHANGED vars
  BY <1>2 DEF LineInv, Called, ReadNothing, ReadLevel, RefuseLevel, Return, vars
<1>3. QED
  BY <1>1, <1>2 DEF Next

(* parse_lobster_book_row never reads a field that its line does not have, *)
(* however large the depth and however wide size_t.                        *)
THEOREM NeverReadsPastLine == Spec => []ReadsInsideLine
<1>1. LineInv => ReadsInsideLine
  BY DEF LineInv, Called, ReadsInsideLine
<1>2. QED
  BY <1>1, LineInit, LineNext, PTL DEF Spec

----------------------------------------------------------------------------
(* The row under construction.                                             *)

Places == [price : Nat \ {0}, quantity : Nat \ {0}]

(* A side of the row is a ladder with at most as many levels as were read. *)
SideSound(side, r, read) ==
  /\ r[side] \in Seq(Places)
  /\ Len(r[side]) <= read
  /\ \A i \in 2 .. Len(r[side]) :
       Deeper(side, r[side][i].price, r[side][i - 1].price)

RowInv ==
  /\ LineInv
  /\ status \in {"called", "reading", "returned", "thrown"}
  /\ level \in 0 .. depth
  /\ DOMAIN row = BookSide
  /\ \A side \in BookSide : SideSound(side, row, level)
  /\ sentinel_seen \in [BookSide -> BOOLEAN]

LEMMA RowInit == Init => RowInv
<1> SUFFICES ASSUME Init PROVE RowInv
  OBVIOUS
<1>1. LineInv
  BY LineInit
<1>2. \A side \in BookSide : row[side] = <<>>
  BY DEF Init, EmptyRow
<1>3. /\ <<>> \in Seq(Places)
      /\ Len(<<>>) = 0
  BY EmptySeq
<1>4. ASSUME NEW side \in BookSide PROVE SideSound(side, row, level)
  <2>1. row[side] = <<>> /\ level = 0
    BY <1>2 DEF Init
  <2>2. 2 .. 0 = {}
    OBVIOUS
  <2>3. QED
    BY <1>3, <2>1, <2>2 DEF SideSound
<1>5. QED
  BY <1>1, <1>4 DEF Init, RowInv, EmptyRow, LineInv, Called

(* A field of a line is an integer or no integer.                          *)
LEMMA FieldsTyped ==
  ASSUME LineInv, status = "reading", level \in Nat, level < depth,
         NEW side \in BookSide
  PROVE  /\ Price(side, level) \in Int \cup {NotAnInteger}
         /\ Size(side, level) \in Int \cup {NotAnInteger}
<1>1. /\ depth \in Nat
      /\ Len(line) = 4 * depth
      /\ line \in Seq(Int \cup {NotAnInteger})
  BY EmptySeq, LinesAssumption DEF LineInv, Called
<1>2. \A i \in 1 .. 4 * depth : line[i] \in Int \cup {NotAnInteger}
  BY <1>1, LenProperties
<1>3. \A k \in 1 .. 4 : 4 * level + k \in 1 .. 4 * depth
  BY <1>1
<1>4. QED
  BY <1>2, <1>3 DEF Price, Size

LEMMA ReadLevelSound ==
  ASSUME RowInv, ReadLevel, NEW side \in BookSide
  PROVE  SideSound(side, row', level')
<1> DEFINE price == Price(side, level)
           size == Size(side, level)
           place == [price |-> price, quantity |-> size]
           levels == row[side]
<1>1. /\ level \in Nat /\ level' = level + 1
      /\ status = "reading" /\ level < depth
      /\ Sound(side, price, size)
      /\ levels \in Seq(Places) /\ Len(levels) <= level /\ Len(levels) \in Nat
      /\ \A i \in 2 .. Len(levels) : Deeper(side, levels[i].price, levels[i - 1].price)
  BY LenProperties DEF RowInv, LineInv, Called, ReadLevel, SideSound
<1>2. row'[side] = IF price = EmptyPrice[side] THEN levels ELSE Append(levels, place)
  BY DEF ReadLevel
<1>3. CASE price = EmptyPrice[side]
  BY <1>1, <1>2, <1>3 DEF SideSound
<1>4. CASE price # EmptyPrice[side]
  <2>1. /\ price \in Nat \ {0}
        /\ size \in Nat \ {0}
        /\ levels # <<>> => Deeper(side, price, Last(levels).price)
    BY <1>1, <1>4, FieldsTyped DEF Sound, Sized, RowInv
  <2>2. place \in Places
    BY <2>1 DEF Places
  <2>3. /\ Append(levels, place) \in Seq(Places)
        /\ Len(Append(levels, place)) = Len(levels) + 1
        /\ \A i \in 1 .. Len(levels) : Append(levels, place)[i] = levels[i]
        /\ Append(levels, place)[Len(levels) + 1] = place
    BY <1>1, <2>2, AppendProperties
  <2>4. ASSUME NEW i \in 2 .. Len(levels) + 1
        PROVE  Deeper(side, Append(levels, place)[i].price,
                            Append(levels, place)[i - 1].price)
    <3>1. CASE i <= Len(levels)
      BY <1>1, <2>3, <3>1
    <3>2. CASE i = Len(levels) + 1
      <4>1. levels # <<>> /\ Last(levels) = levels[Len(levels)]
        BY <1>1, <3>2, EmptySeq DEF Last
      <4>2. /\ Append(levels, place)[i].price = price
            /\ Append(levels, place)[i - 1] = levels[Len(levels)]
        BY <1>1, <2>3, <3>2
      <4>3. QED
        BY <2>1, <4>1, <4>2
    <3>3. QED
      BY <1>1, <3>1, <3>2
  <2>5. QED
    BY <1>1, <1>2, <1>4, <2>3, <2>4 DEF SideSound
<1>5. QED
  BY <1>3, <1>4

LEMMA RowNext == RowInv /\ [Next]_vars => RowInv'
<1> SUFFICES ASSUME RowInv, [Next]_vars PROVE RowInv'
  OBVIOUS
<1>1. LineInv'
  BY LineNext DEF RowInv
<1>2. CASE ReadLevel
  <2>1. \A side \in BookSide : SideSound(side, row', level')
    BY <1>2, ReadLevelSound
  <2>2. /\ level' \in 0 .. depth' /\ depth \in Nat
        /\ DOMAIN row' = BookSide
        /\ status' = status
        /\ sentinel_seen' \in [BookSide -> BOOLEAN]
    BY <1>2 DEF ReadLevel, RowInv, LineInv, Called
  <2>3. QED
    BY <1>1, <2>1, <2>2 DEF RowInv
<1>3. CASE ReadNothing \/ CheckLine \/ RefuseLevel \/ Return \/ UNCHANGED vars
  <2>1. /\ UNCHANGED <<depth, level, row, sentinel_seen>>
        /\ status' \in {"called", "reading", "returned", "thrown"}
    BY <1>3 DEF ReadNothing, CheckLine, RefuseLevel, Return, vars, RowInv
  <2>2. QED
    BY <1>1, <2>1 DEF RowInv, SideSound
<1>4. QED
  BY <1>2, <1>3 DEF Next

LEMMA RowInvHolds == Spec => []RowInv
BY RowInit, RowNext, PTL DEF Spec

(* The locals of parse_lobster_book_row keep their types: no more levels   *)
(* than were read, none of them without a price or a size.                 *)
THEOREM RowTypeCorrect == Spec => []TypeOK
<1>1. RowInv => TypeOK
  BY DEF RowInv, SideSound, TypeOK, Places
<1>2. QED
  BY <1>1, RowInvHolds, PTL

(* What is returned is a ladder on both sides: strictly deeper from level  *)
(* to level, and not more than depth of them.                              *)
ReturnsLadders ==
  status = "returned" => \A side \in BookSide : SideSound(side, row, depth)

THEOREM RowIsLadder == Spec => []ReturnsLadders
<1>1. RowInv => ReturnsLadders
  <2> SUFFICES ASSUME RowInv, NEW side \in BookSide
               PROVE  SideSound(side, row, depth)
    BY DEF ReturnsLadders
  <2>1. SideSound(side, row, level) /\ level <= depth /\ level \in Nat /\ depth \in Nat
    BY DEF RowInv, LineInv, Called
  <2>2. Len(row[side]) \in Nat
    BY <2>1, LenProperties DEF SideSound
  <2>3. QED
    BY <2>1, <2>2 DEF SideSound
<1>2. QED
  BY <1>1, RowInvHolds, PTL
----------------------------------------------------------------------------
(* What the row under construction has to do with its line.                *)

(* Place i of the line holds a level.                                      *)
Filled(side, i) ==
  /\ Price(side, i) \in Int \ {kEmptyAskPrice} /\ Price(side, i) > 0
  /\ Size(side, i) \in Int /\ Size(side, i) > 0
  /\ i > 0 => Deeper(side, Price(side, i), Price(side, i - 1))

Marked(side, i) == Price(side, i) = EmptyPrice[side] /\ Size(side, i) = 0

(* The levels are those of the places read, without the marked places,     *)
(* which come last.                                                        *)
Tells(side, levels, read, seen) ==
  /\ levels \in Seq(Places)
  /\ Len(levels) <= read
  /\ seen <=> Len(levels) < read
  /\ \A i \in 1 .. Len(levels) :
       /\ Filled(side, i - 1)
       /\ levels[i] = [price |-> Price(side, i - 1), quantity |-> Size(side, i - 1)]
  /\ \A i \in Len(levels) .. read - 1 : Marked(side, i)

LEMMA LadderIs ==
  ASSUME NEW side, NEW n
  PROVE  Ladder(side, n) <=> /\ \A i \in 0 .. n - 1 : Filled(side, i)
                             /\ \A i \in n .. depth - 1 : Marked(side, i)
BY DEF Ladder, Filled, Marked

LEMMA MarksDiffer ==
  ASSUME NEW side \in BookSide
  PROVE  /\ EmptyPrice[side] \in Int /\ EmptyPrice[Other(side)] \in Int
         /\ EmptyPrice[side] # EmptyPrice[Other(side)]
         /\ kEmptyAskPrice \in {EmptyPrice[side], EmptyPrice[Other(side)]}
         /\ \A p \in Int : p > 0 /\ p # kEmptyAskPrice =>
              p # EmptyPrice[side] /\ p # EmptyPrice[Other(side)]
         /\ side = "bids" => EmptyPrice[side] < 0
         /\ side = "asks" => EmptyPrice[side] = kEmptyAskPrice
BY SentinelsAssumption DEF BookSide, EmptyPrice, Other

(* No place is both.                                                       *)
LEMMA FilledNotMarked ==
  ASSUME NEW side \in BookSide, NEW i, Filled(side, i)
  PROVE  ~Marked(side, i)
BY MarksDiffer DEF Filled, Marked

(* What the loop asks of a place is that it fits the places before it.     *)
LEMMA SoundMeans ==
  ASSUME RowInv, status = "reading", level < depth, NEW side \in BookSide,
         Tells(side, row[side], level, sentinel_seen[side])
  PROVE  Sound(side, Price(side, level), Size(side, level)) <=>
           \/ Marked(side, level)
           \/ Filled(side, level) /\ ~sentinel_seen[side]
<1> DEFINE price == Price(side, level)
           size == Size(side, level)
           levels == row[side]
<1>1. /\ level \in Nat /\ levels \in Seq(Places) /\ Len(levels) \in Nat
      /\ levels = <<>> <=> Len(levels) = 0
      /\ price \in Int \cup {NotAnInteger}
      /\ size \in Int \cup {NotAnInteger}
      /\ NotAnInteger \notin Int
  BY FieldsTyped, NotAnIntegerAssumption, LenProperties, EmptySeq
     DEF RowInv, LineInv, Called, Tells
<1>2. CASE price = EmptyPrice[side]
  <2>1. ~Filled(side, level)
    BY <1>2, MarksDiffer DEF Filled
  <2>2. QED
    BY <1>1, <1>2, <2>1, MarksDiffer DEF Sound, Marked
<1>3. CASE price # EmptyPrice[side] /\ sentinel_seen[side]
  BY <1>3 DEF Sound, NoGap, Marked
<1>4. CASE price # EmptyPrice[side] /\ ~sentinel_seen[side]
  <2>1. Len(levels) = level
    BY <1>1, <1>4 DEF Tells
  <2>2. level > 0 => Last(levels).price = Price(side, level - 1)
    <3>1. ASSUME level > 0
          PROVE  levels[level].price = Price(side, level - 1)
      <4>1. level \in 1 .. Len(levels)
        BY <1>1, <2>1, <3>1
      <4>2. levels[level] = [price    |-> Price(side, level - 1),
                             quantity |-> Size(side, level - 1)]
        BY <4>1 DEF Tells
      <4>3. QED
        BY <4>2
    <3>2. QED
      BY <2>1, <3>1 DEF Last
  <2>3. (levels # <<>> => Deeper(side, price, Last(levels).price))
          <=> (level > 0 => Deeper(side, price, Price(side, level - 1)))
    BY <1>1, <2>1, <2>2
  <2>4. Sound(side, price, size) <=>
          /\ price # NotAnInteger /\ size # NotAnInteger
          /\ size >= 0
          /\ price # EmptyPrice[Other(side)]
          /\ price > 0
          /\ size > 0
          /\ level > 0 => Deeper(side, price, Price(side, level - 1))
    BY <1>4, <2>3 DEF Sound, Sized, NoGap
  <2>5. Filled(side, level) <=>
          /\ price \in Int \ {kEmptyAskPrice} /\ price > 0
          /\ size \in Int /\ size > 0
          /\ level > 0 => Deeper(side, price, Price(side, level - 1))
    BY DEF Filled
  <2>6. ~Marked(side, level)
    BY <1>4 DEF Marked
  <2> DEFINE deeper == level > 0 => Deeper(side, price, Price(side, level - 1))
  <2> HIDE DEF price, size, deeper
  <2>7. QED
    BY <1>1, <1>4, <2>4, <2>5, <2>6, MarksDiffer DEF price, size, deeper
<1>5. QED
  BY <1>2, <1>3, <1>4
LEMMA ReadLevelTells ==
  ASSUME RowInv, ReadLevel, NEW side \in BookSide,
         Tells(side, row[side], level, sentinel_seen[side])
  PROVE  Tells(side, row'[side], level', sentinel_seen'[side])
<1> DEFINE price == Price(side, level)
           size == Size(side, level)
           place == [price |-> price, quantity |-> size]
           levels == row[side]
           n == Len(levels)
<1>1. /\ level \in Nat /\ level' = level + 1
      /\ levels \in Seq(Places) /\ n \in Nat /\ n <= level
      /\ row'[side] = IF price = EmptyPrice[side] THEN levels
                      ELSE Append(levels, place)
      /\ sentinel_seen'[side]
           = (sentinel_seen[side] \/ price = EmptyPrice[side])
      /\ row'[side] \in Seq(Places)
  BY LenProperties, ReadLevelSound
     DEF RowInv, LineInv, Called, Tells, ReadLevel, SideSound
<1>2. Marked(side, level) \/ (Filled(side, level) /\ ~sentinel_seen[side])
  BY SoundMeans DEF ReadLevel
<1>3. CASE Marked(side, level)
  <2>1. row'[side] = levels /\ sentinel_seen'[side]
    BY <1>1, <1>3 DEF Marked
  <2>2. \A i \in n .. level' - 1 : Marked(side, i)
    <3>1. \A i \in n .. level' - 1 : i \in n .. level - 1 \/ i = level
      BY <1>1
    <3>2. QED
      BY <1>3, <3>1 DEF Tells
  <2>3. n <= level' /\ n < level'
    BY <1>1
  <2>4. \A i \in 1 .. n :
          /\ Filled(side, i - 1)
          /\ levels[i] = [price    |-> Price(side, i - 1),
                          quantity |-> Size(side, i - 1)]
    BY DEF Tells
  <2> HIDE DEF levels
  <2>5. QED
    BY <1>1, <2>1, <2>2, <2>3, <2>4 DEF Tells
<1>4. CASE Filled(side, level) /\ ~sentinel_seen[side]
  <2>1. price # EmptyPrice[side] /\ n = level
    BY <1>1, <1>4, MarksDiffer DEF Filled, Tells
  <2>2. place \in Places
    BY <1>4 DEF Filled, Places
  <2>3. /\ row'[side] = Append(levels, place) /\ ~sentinel_seen'[side]
        /\ Len(row'[side]) = level'
        /\ \A i \in 1 .. n : row'[side][i] = levels[i]
        /\ row'[side][level'] = place
    <3>1. row'[side] = Append(levels, place) /\ ~sentinel_seen'[side]
      BY <1>1, <1>4, <2>1
    <3>2. /\ Len(Append(levels, place)) = n + 1
          /\ \A i \in 1 .. n : Append(levels, place)[i] = levels[i]
          /\ Append(levels, place)[n + 1] = place
      BY <1>1, <2>2, AppendProperties
    <3> HIDE DEF place, levels
    <3>3. QED
      BY <1>1, <2>1, <3>1, <3>2
  <2>4. ASSUME NEW i \in 1 .. level'
        PROVE  /\ Filled(side, i - 1)
               /\ row'[side][i] = [price    |-> Price(side, i - 1),
                                   quantity |-> Size(side, i - 1)]
    <3>1. CASE i \in 1 .. n
      BY <2>3, <3>1 DEF Tells
    <3>2. CASE i = level'
      <4>1. i - 1 = level
        BY <1>1, <3>2
      <4>2. QED
        BY <1>4, <2>3, <3>2, <4>1
    <3>3. QED
      BY <1>1, <2>1, <3>1, <3>2
  <2>5. \A i \in level' .. level' - 1 : Marked(side, i)
    BY <1>1
  <2>6. level' \in Nat
    BY <1>1
  <2> HIDE DEF place, levels
  <2>7. QED
    BY <1>1, <2>3, <2>4, <2>5, <2>6 DEF Tells
<1>5. QED
  BY <1>2, <1>3, <1>4

(* A place the loop refuses makes it impossible to read the line as one    *)
(* ladder, however many levels it were to have.                            *)
LEMMA RefusedIsNoLadder ==
  ASSUME RowInv, status = "reading", level < depth, NEW side \in BookSide,
         Tells(side, row[side], level, sentinel_seen[side]),
         ~Sound(side, Price(side, level), Size(side, level)),
         NEW n \in 0 .. depth
  PROVE  ~Ladder(side, n)
<1> DEFINE levels == row[side]
<1>1. /\ level \in Nat /\ depth \in Nat /\ n \in Nat
      /\ levels \in Seq(Places) /\ Len(levels) \in Nat
  BY LenProperties DEF RowInv, LineInv, Called, Tells
<1>2. /\ ~Marked(side, level)
      /\ Filled(side, level) => sentinel_seen[side]
  BY SoundMeans
<1>3. SUFFICES ASSUME Ladder(side, n) PROVE FALSE
  OBVIOUS
<1>4. /\ \A i \in 0 .. n - 1 : Filled(side, i)
      /\ \A i \in n .. depth - 1 : Marked(side, i)
  BY <1>3, LadderIs
<1>5. level < n
  <2>1. level \in n .. depth - 1 \/ level < n
    BY <1>1
  <2>2. QED
    BY <1>2, <1>4, <2>1
<1>6. sentinel_seen[side]
  BY <1>1, <1>2, <1>4, <1>5
<1>7. Len(levels) \in Len(levels) .. level - 1 /\ Len(levels) \in 0 .. n - 1
  BY <1>1, <1>5, <1>6 DEF Tells
<1>8. Marked(side, Len(levels)) /\ Filled(side, Len(levels))
  BY <1>4, <1>7 DEF Tells
<1>9. QED
  BY <1>8, FilledNotMarked

LadderLine ==
  IF depth = 0 THEN line = <<>>
  ELSE /\ depth <= SizeMax \div 4
       /\ Len(line) = 4 * depth
       /\ \A side \in BookSide : \E n \in 0 .. depth : Ladder(side, n)

TellInv ==
  /\ RowInv
  /\ row = [side \in BookSide |-> row[side]]
  /\ \A side \in BookSide :
       Tells(side, row[side], level, sentinel_seen[side])
  /\ status = "called" => level = 0
  /\ status = "reading" => depth # 0
  /\ status = "returned" => level = depth
  /\ status = "returned" /\ depth = 0 => line = <<>> /\ row = EmptyRow
  /\ status = "returned" /\ depth # 0 => Len(line) = 4 * depth
  /\ status = "thrown" => ~LadderLine

LEMMA TellInit == Init => TellInv
<1> SUFFICES ASSUME Init PROVE TellInv
  OBVIOUS
<1>1. /\ \A side \in BookSide : row[side] = <<>> /\ ~sentinel_seen[side]
      /\ level = 0 /\ status = "called"
  BY DEF Init, EmptyRow
<1>2. ASSUME NEW side \in BookSide
      PROVE  Tells(side, row[side], level, sentinel_seen[side])
  <2> DEFINE levels == row[side]
             seen == sentinel_seen[side]
  <2>1. levels \in Seq(Places) /\ Len(levels) = 0
    BY <1>1, EmptySeq
  <2>2. 1 .. Len(levels) = {} /\ Len(levels) .. level - 1 = {}
    BY <1>1, <2>1
  <2>3. (seen <=> Len(levels) < level) /\ Len(levels) <= level
    BY <1>1, <2>1
  <2> HIDE DEF levels, seen
  <2>4. Tells(side, levels, level, seen)
    BY <2>1, <2>2, <2>3 DEF Tells
  <2>5. QED
    BY <2>4 DEF levels, seen
<1>3. QED
  BY <1>1, <1>2, RowInit DEF TellInv, Init, EmptyRow

LEMMA TellsKept ==
  ASSUME UNCHANGED line, NEW side \in BookSide,
         Tells(side, row'[side], level', sentinel_seen'[side])
  PROVE  Tells(side, row[side], level, sentinel_seen[side])'
BY DEF Tells, Filled, Marked, Price, Size

LEMMA TellNext == TellInv /\ [Next]_vars => TellInv'
<1> SUFFICES ASSUME TellInv, [Next]_vars PROVE TellInv'
  OBVIOUS
<1>1. /\ RowInv' /\ RowInv /\ UNCHANGED <<line, depth>>
      /\ depth \in Nat
  BY RowNext DEF TellInv, RowInv, LineInv, Called, Next, ReadNothing,
                 CheckLine, ReadLevel, RefuseLevel, Return, vars
<1>2. LadderLine' <=> LadderLine
  BY <1>1 DEF LadderLine, Ladder, Price, Size
<1>3. CASE ReadLevel
  <2>1. \A side \in BookSide :
          Tells(side, row[side], level, sentinel_seen[side])'
    BY <1>1, <1>3, ReadLevelTells, TellsKept DEF TellInv
  <2>2. /\ status' = "reading" /\ status = "reading"
        /\ row' = [side \in BookSide |-> row'[side]]
    BY <1>3 DEF ReadLevel
  <2>3. QED
    BY <1>1, <2>1, <2>2 DEF TellInv
<1>4. CASE ReadNothing \/ CheckLine \/ RefuseLevel \/ Return \/ UNCHANGED vars
  <2>1. UNCHANGED <<level, row, sentinel_seen>>
    BY <1>4 DEF ReadNothing, CheckLine, RefuseLevel, Return, vars
  <2>2. \A side \in BookSide :
          Tells(side, row[side], level, sentinel_seen[side])'
    BY <1>1, <2>1, TellsKept DEF TellInv
  <2>3. CASE ReadNothing
    <3>1. /\ status = "called" /\ depth = 0 /\ level = 0
          /\ status' = IF line = <<>> THEN "returned" ELSE "thrown"
      BY <2>3 DEF ReadNothing, TellInv
    <3>2. row = EmptyRow
      <4>1. ASSUME NEW side \in BookSide PROVE row[side] = <<>>
        <5>1. row[side] \in Seq(Places) /\ Len(row[side]) <= 0
          BY <3>1 DEF TellInv, Tells
        <5>2. Len(row[side]) = 0
          BY <5>1, LenProperties
        <5>3. QED
          BY <5>1, <5>2, EmptySeq
      <4>2. QED
        BY <4>1 DEF TellInv, EmptyRow
    <3>3. QED
      BY <1>1, <1>2, <2>1, <2>2, <3>1, <3>2 DEF TellInv, LadderLine
  <2>4. CASE CheckLine
    <3>1. /\ depth # 0 /\ status = "called" /\ level = 0
          /\ status' \in {"reading", "thrown"}
          /\ status' = "thrown" =>
               ~(DepthInRange(depth) /\ FieldsIn(line) = ExpectedFields(depth))
      BY <1>1, <2>4 DEF CheckLine, TellInv
    <3>2. status' = "thrown" => ~LadderLine
      <4>1. SUFFICES ASSUME LadderLine
                     PROVE  DepthInRange(depth)
                            /\ FieldsIn(line) = ExpectedFields(depth)
        BY <3>1
      <4>2. depth <= SizeMax \div 4 /\ Len(line) = 4 * depth
        BY <3>1, <4>1 DEF LadderLine
      <4>3. ExpectedFields(depth) = 4 * depth
        BY <1>1, <4>2, FieldsDoNotWrap DEF DepthInRange
      <4>4. line # <<>>
        BY <1>1, <3>1, <4>2, EmptySeq
      <4>5. QED
        BY <4>2, <4>3, <4>4 DEF DepthInRange, FieldsIn
    <3>3. QED
      BY <1>1, <1>2, <2>1, <2>2, <3>1, <3>2 DEF TellInv
  <2>5. CASE RefuseLevel
    <3>1. status = "reading" /\ level < depth /\ status' = "thrown"
      BY <2>5 DEF RefuseLevel
    <3>2. PICK side \in BookSide :
            ~Sound(side, Price(side, level), Size(side, level))
      BY <2>5 DEF RefuseLevel
    <3>3. \A n \in 0 .. depth : ~Ladder(side, n)
      BY <1>1, <3>1, <3>2, RefusedIsNoLadder DEF TellInv
    <3>4. depth # 0
      BY <1>1, <3>1 DEF RowInv
    <3>5. ~LadderLine
      BY <3>3, <3>4 DEF LadderLine
    <3>6. QED
      BY <1>1, <1>2, <2>1, <2>2, <3>1, <3>5 DEF TellInv
  <2>6. CASE Return
    <3>1. status = "reading" /\ level = depth /\ status' = "returned"
      BY <2>6 DEF Return
    <3>2. Len(line) = 4 * depth
      BY <1>1, <3>1 DEF RowInv, LineInv
    <3>3. depth # 0
      BY <3>1 DEF TellInv
    <3>4. QED
      BY <1>1, <1>2, <2>1, <2>2, <3>1, <3>2, <3>3 DEF TellInv
  <2>7. CASE UNCHANGED vars
    BY <1>1, <1>2, <2>1, <2>2, <2>7 DEF TellInv, vars
  <2>8. QED
    BY <1>4, <2>3, <2>4, <2>5, <2>6, <2>7
<1>5. QED
  BY <1>3, <1>4 DEF Next

(* parse_lobster_book_row returns a row exactly for the lines that are two *)
(* ladders followed by marked places, and the row is then what the line    *)
(* says; it throws for every other line.                                   *)
THEOREM RowIsWhatTheLineSays == Spec => []RowExact
<1>1. TellInv => RowExact
  <2> SUFFICES ASSUME TellInv PROVE RowExact
    OBVIOUS
  <2>1. ASSUME status = "returned", depth # 0, NEW side \in BookSide
        PROVE  ReadAs(side, row[side])
    <3> DEFINE levels == row[side]
    <3>1. /\ Tells(side, levels, depth, sentinel_seen[side])
          /\ Len(levels) \in Nat
      BY <2>1, LenProperties DEF TellInv, Tells
    <3>2. \A i \in 0 .. Len(levels) - 1 : Filled(side, i)
      <4>1. ASSUME NEW i \in 0 .. Len(levels) - 1
            PROVE  Filled(side, i)
        <5>1. i + 1 \in 1 .. Len(levels) /\ (i + 1) - 1 = i
          BY <3>1
        <5>2. QED
          BY <3>1, <5>1 DEF Tells
      <4>2. QED
        BY <4>1
    <3>3. Ladder(side, Len(levels))
      BY <3>1, <3>2, LadderIs DEF Tells
    <3>4. DOMAIN levels = 1 .. Len(levels)
      BY <3>1, LenProperties DEF Tells
    <3>5. QED
      BY <3>1, <3>3, <3>4 DEF ReadAs, Tells
  <2>2. ASSUME status = "returned", depth # 0
        PROVE  /\ Len(line) = 4 * depth
               /\ \A side \in BookSide : ReadAs(side, row[side])
    BY <2>1, <2>2 DEF TellInv
  <2>3. status = "returned" /\ depth = 0 => line = <<>> /\ row = EmptyRow
    BY DEF TellInv
  <2>4. status = "thrown" => ~LadderLine
    BY DEF TellInv
  <2>5. QED
    BY <2>2, <2>3, <2>4 DEF RowExact, LadderLine
<1>2. QED
  BY <1>1, TellInit, TellNext, PTL DEF Spec
=============================================================================
