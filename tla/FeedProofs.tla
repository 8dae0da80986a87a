---------------------------- MODULE FeedProofs -----------------------------
(***************************************************************************)
(* Theorems about ReplayValidation and PairedFeed, for all messages,       *)
(* prices, quantities, depths and bounds.                                  *)
(*                                                                         *)
(* For any two files, whatever their lines hold and whether or not they    *)
(* have to do with each other (ValidationSpec): the book keeps the         *)
(* invariants of OrderBook, the verdict on every row is exact, the         *)
(* counters tell one story, and the first place of the first row that did  *)
(* not match is the one that is reported.                                  *)
(*                                                                         *)
(* For the files that an exchange writes (FeedSpec, which implements       *)
(* ValidationSpec): a book driven by a feed that lacks nothing after its   *)
(* first row mirrors the exchange, and no mismatch comes before something  *)
(* was missing.                                                            *)
(***************************************************************************)
EXTENDS PairedFeed, ReplayProofs

----------------------------------------------------------------------------
(* The validators use the book through its operations only.                *)

LEMMA ValidationIsCall ==
  ASSUME ValidationStep PROVE [Next]_vars
<1>1. CallerUses => Next
  BY UsedAssumption DEF CallerUses, Next
<1>2. ApplySubmission => Next
  BY DEF ApplySubmission, NewOrderMatches, NewOrderReturns, Next, CallStep
<1>3. Start \/ CompareRow \/ ThrowOnMessage \/ ThrowOnRow \/ ReturnSummary
        => UNCHANGED vars
  BY DEF Start, CompareRow, ThrowOnMessage, ThrowOnRow, ReturnSummary,
         Throw, Return
<1>4. QED
  BY <1>1, <1>2, <1>3 DEF ValidationStep

LEMMA ValidationCalls ==
  [ValidationNext]_<<vars, replayVars, validationVars>> => [Next]_vars
<1>1. ReadFiles => [Next]_vars
  BY ApplyIsCall DEF ReadFiles, ReadPair
<1>2. QED
  BY <1>1, ValidationIsCall DEF ValidationNext

(* validate_lobster_replay leaves a sound book, whatever the files hold:   *)
(* messages about orders that are not there, crossing submissions, rows of *)
(* another day.                                                            *)
THEOREM ValidationKeepsBookSound == ValidationSpec => []BookInv
<1>1. ValidationInit => BookInv
  BY InvInit DEF ValidationInit
<1>2. BookInv /\ [ValidationNext]_<<vars, replayVars, validationVars>> => BookInv'
  BY InvNext, ValidationCalls
<1>3. QED
  BY <1>1, <1>2, PTL DEF ValidationSpec

----------------------------------------------------------------------------
(* The line that waits to be compared.                                     *)

LineInv ==
  /\ depth \in Nat
  /\ pending \in {NoLine, BadLine} \cup BookRow

LEMMA LineIsOne ==
  ASSUME NEW line \in BookRow \cup {BadLine}
  PROVE  line # NoLine
<1>1. "bids" \in DOMAIN line \/ "illegible" \in DOMAIN line
  BY DEF BookRow, BadLine
<1>2. DOMAIN NoLine = {}
  BY DEF NoLine
<1>3. QED
  BY <1>1, <1>2

LEMMA LineInvNext ==
  LineInv /\ [ValidationNext]_<<vars, replayVars, validationVars>> => LineInv'
<1> SUFFICES ASSUME LineInv,
                    [ValidationNext]_<<vars, replayVars, validationVars>>
             PROVE  LineInv'
  OBVIOUS
<1>1. CASE ReadFiles
  BY <1>1 DEF ReadFiles, ReadPair, LineInv
<1>2. depth' = depth /\ pending' \in {pending, NoLine} => LineInv'
  BY DEF LineInv
<1>3. CASE ValidationStep
  BY <1>2, <1>3
  DEF ValidationStep, CallerUses, Start, ApplySubmission, CompareRow,
      ThrowOnMessage, ThrowOnRow, ReturnSummary, validationVars
<1>4. QED
  BY <1>1, <1>2, <1>3 DEF ValidationNext, validationVars

----------------------------------------------------------------------------
(* The first mismatch.                                                     *)

Shaped(v) ==
  v = [rows_compared |-> v.rows_compared, matching_rows |-> v.matching_rows,
       mismatching_rows |-> v.mismatching_rows,
       missing_level_mismatches |-> v.missing_level_mismatches,
       price_mismatches |-> v.price_mismatches,
       quantity_mismatches |-> v.quantity_mismatches,
       first_mismatch |-> v.first_mismatch]

(* A first mismatch is kept exactly when rows mismatched.                  *)
FirstInv ==
  /\ Shaped(validation)
  /\ validation.rows_compared \in Nat
  /\ validation.mismatching_rows \in Nat
  /\ validation.first_mismatch = NoMismatch <=> validation.mismatching_rows = 0

LEMMA EmptyValidationFirst ==
  /\ Shaped(EmptyValidation)
  /\ EmptyValidation.rows_compared = 0
  /\ EmptyValidation.mismatching_rows = 0
  /\ EmptyValidation.first_mismatch = NoMismatch
BY DEF EmptyValidation, Shaped

LEMMA MismatchIsOne ==
  ASSUME NEW bids, NEW asks
  PROVE  MismatchAt(bids, asks) # NoMismatch
<1>1. "row" \in DOMAIN MismatchAt(bids, asks)
  BY DEF MismatchAt
<1>2. DOMAIN NoMismatch = {}
  BY DEF NoMismatch
<1>3. QED
  BY <1>1, <1>2

(* The two sides of a row as they are compared.                            *)
BidsCompared ==
  compare_lobster_side("bids", pending.bids, SideSnapshot("Buy", depth))
AsksCompared ==
  compare_lobster_side("asks", pending.asks, SideSnapshot("Sell", depth))

(* What comparing a row does to the members.                               *)
LEMMA CompareRowMembers ==
  ASSUME FirstInv, CompareRow
  PROVE  LET v == validation
             w == validation'
             bids == BidsCompared
             asks == AsksCompared
         IN  /\ Shaped(w)
             /\ w.rows_compared = v.rows_compared + 1
             /\ w.matching_rows =
                  v.matching_rows + IF RowAgrees(bids, asks) THEN 1 ELSE 0
             /\ w.mismatching_rows = v.mismatching_rows + RowsWrong(bids, asks)
             /\ w.missing_level_mismatches =
                  v.missing_level_mismatches + bids.missing + asks.missing
             /\ w.price_mismatches = v.price_mismatches + bids.prices + asks.prices
             /\ w.quantity_mismatches =
                  v.quantity_mismatches + bids.quantities + asks.quantities
             /\ w.first_mismatch = first_mismatch(bids, asks)
<1> DEFINE bids == BidsCompared
           asks == AsksCompared
           matching == validation.matching_rows
                         + IF RowAgrees(bids, asks) THEN 1 ELSE 0
           missing == validation.missing_level_mismatches
                        + bids.missing + asks.missing
           prices == validation.price_mismatches + bids.prices + asks.prices
           quantities == validation.quantity_mismatches + bids.quantities
                           + asks.quantities
           one == validation.mismatching_rows + RowsWrong(bids, asks)
           first == first_mismatch(bids, asks)
<1>1. validation' = [validation EXCEPT
        !.rows_compared = @ + 1,
        !.matching_rows = matching,
        !.mismatching_rows = one,
        !.missing_level_mismatches = missing,
        !.price_mismatches = prices,
        !.quantity_mismatches = quantities,
        !.first_mismatch = first]
  BY DEF CompareRow, BidsCompared, AsksCompared, snapshot
<1> HIDE DEF matching, missing, prices, quantities, one, first
<1>2. /\ Shaped(validation')
      /\ validation'.rows_compared = validation.rows_compared + 1
      /\ validation'.matching_rows = matching
      /\ validation'.mismatching_rows = one
      /\ validation'.missing_level_mismatches = missing
      /\ validation'.price_mismatches = prices
      /\ validation'.quantity_mismatches = quantities
      /\ validation'.first_mismatch = first
  BY <1>1 DEF FirstInv, Shaped
<1>3. QED
  BY <1>2 DEF matching, missing, prices, quantities, one, first

(* What a step does to the verdicts: it compares a row, gives them up with *)
(* an exception, or leaves them alone.                                     *)
Concludes ==
  CompareRow \/ validation' = EmptyValidation \/ UNCHANGED validation

LEMMA ValidationConcludes ==
  [ValidationNext]_<<vars, replayVars, validationVars>> => Concludes
BY DEF ValidationNext, ReadFiles, ReadPair, ValidationStep, CallerUses, Start,
       ApplySubmission, ThrowOnMessage, ThrowOnRow, ReturnSummary,
       validationVars, Concludes

LEMMA FirstInvNext ==
  ASSUME FirstInv, Concludes PROVE FirstInv'
<1>1. CASE CompareRow
  <2> DEFINE agrees == RowAgrees(BidsCompared, AsksCompared)
             at == MismatchAt(BidsCompared, AsksCompared)
  <2>1. /\ Shaped(validation')
        /\ validation'.rows_compared \in Nat
        /\ validation'.mismatching_rows =
             validation.mismatching_rows + IF agrees THEN 0 ELSE 1
        /\ validation'.first_mismatch =
             IF agrees \/ validation.first_mismatch # NoMismatch
             THEN validation.first_mismatch ELSE at
    BY <1>1, CompareRowMembers DEF FirstInv, RowsWrong, first_mismatch
  <2>2. at # NoMismatch
    BY MismatchIsOne
  <2> HIDE DEF agrees, at
  <2>3. QED
    BY <2>1, <2>2 DEF FirstInv
<1>2. CASE validation' = EmptyValidation
  BY <1>2, EmptyValidationFirst DEF FirstInv
<1>3. CASE UNCHANGED validation
  BY <1>3 DEF FirstInv
<1>4. QED
  BY <1>1, <1>2, <1>3 DEF Concludes

----------------------------------------------------------------------------
(* What a comparison of the two sides finds.                               *)

SameRows(expected, actual) ==
  /\ Len(expected) = Len(actual)
  /\ \A i \in 1 .. Len(expected) :
       /\ expected[i].price = actual[i].price
       /\ expected[i].quantity = actual[i].quantity

LEMMA JOfTwo ==
  ASSUME NEW a \in Nat, NEW b \in Nat
  PROVE  /\ J!Min({a, b}) = IF a <= b THEN a ELSE b
         /\ J!Max({a, b}) = IF a <= b THEN b ELSE a
<1>1. /\ J!Min({a, b}) = Min({a, b})
      /\ J!Max({a, b}) = Max({a, b})
  BY DEF Min, J!Min, Max, J!Max
<1>2. QED
  BY <1>1, OfTwo

LEMMA CardinalityIsOne == \A S : J!Cardinality(S) = Cardinality(S)
BY DEF Cardinality, J!Cardinality

(* Ladders that differ in nothing but the prices and quantities they show. *)
Laddered(rows) ==
  /\ Len(rows) \in Nat
  /\ DOMAIN rows = 1 .. Len(rows)
  /\ rows = [i \in 1 .. Len(rows) |-> rows[i]]
  /\ \A i \in 1 .. Len(rows) :
       rows[i] = [price |-> rows[i].price, quantity |-> rows[i].quantity]

LEMMA LineLaddered ==
  ASSUME NEW rows \in Seq(Shown)
  PROVE  Laddered(rows)
<1>1. Len(rows) \in Nat /\ rows \in [1 .. Len(rows) -> Shown]
  BY SeqIsFunction
<1>2. ASSUME NEW i \in 1 .. Len(rows)
      PROVE  rows[i] = [price |-> rows[i].price, quantity |-> rows[i].quantity]
  <2>1. rows[i] \in Shown
    BY <1>1
  <2>2. QED
    BY <2>1 DEF Shown
<1>3. QED
  BY <1>1, <1>2 DEF Laddered

LEMMA SnapshotLaddered ==
  ASSUME BookInv, pc = "idle", depth \in Nat, NEW side \in Side
  PROVE  Laddered(SideSnapshot(side, depth))
<1> DEFINE rows == SideSnapshot(side, depth)
           n == Cardinality(DOMAIN levels[side])
           count == IF depth <= n THEN depth ELSE n
           prices == InMapOrder(side, DOMAIN levels[side])
           row(i) == [price |-> prices[i],
                      quantity |-> Walked(levels[side][prices[i]].head)]
<1>1. /\ n \in Nat /\ Len(rows) = count /\ DOMAIN rows = 1 .. count
  BY SnapshotShape
<1>2. rows = [i \in 1 .. Min({depth, Len(prices)}) |-> row(i)]
  BY DEF SideSnapshot
<1> HIDE DEF rows, n
<1>3. Len(rows) \in Nat /\ DOMAIN rows = 1 .. Len(rows)
  BY <1>1
<1> HIDE DEF prices
<1>4. rows = [i \in 1 .. Len(rows) |-> row(i)]
  BY <1>2, <1>3
<1>5. ASSUME NEW i \in 1 .. Len(rows)
      PROVE  rows[i] = [price |-> rows[i].price, quantity |-> rows[i].quantity]
  <2> DEFINE p == prices[i]
             q == Walked(levels[side][p].head)
  <2>1. rows[i] = [price |-> p, quantity |-> q]
    BY <1>4
  <2> HIDE DEF p, q
  <2>2. QED
    BY <2>1
<1>6. rows = [i \in 1 .. Len(rows) |-> rows[i]]
  BY <1>4
<1>7. QED
  BY <1>3, <1>5, <1>6 DEF Laddered, rows

LEMMA SameLadders ==
  ASSUME NEW a, NEW b, Laddered(a), Laddered(b)
  PROVE  SameRows(a, b) <=> a = b
<1>1. ASSUME SameRows(a, b)
      PROVE  a = b
  <2>1. Len(a) = Len(b) /\ \A i \in 1 .. Len(a) : a[i] = b[i]
    BY <1>1 DEF SameRows, Laddered
  <2>2. QED
    BY <2>1 DEF Laddered
<1>2. a = b => SameRows(a, b)
  BY DEF SameRows
<1>3. QED
  BY <1>1, <1>2

LEMMA SideCompared ==
  ASSUME NEW side, NEW expected, NEW actual,
         Laddered(expected), Laddered(actual)
  PROVE  LET c == compare_lobster_side(side, expected, actual)
         IN  /\ c.missing \in Nat /\ c.prices \in Nat /\ c.quantities \in Nat
             /\ J!Agrees(c) <=> SameRows(expected, actual)
             /\ J!Agrees(c) <=> c.missing = 0 /\ c.prices = 0 /\ c.quantities = 0
             /\ c.side = side
             /\ J!Agrees(c) \/ J!FirstDifference(expected, actual, c.first)
<1> DEFINE most == J!Max({Len(expected), Len(actual)})
           both == 1 .. J!Min({Len(expected), Len(actual)})
           missing == 1 .. most \ both
           prices == {i \in both : expected[i].price # actual[i].price}
           quantities == {i \in both : expected[i].quantity # actual[i].quantity}
           wrong == missing \cup prices \cup quantities
           c == compare_lobster_side(side, expected, actual)
<1>0. Len(expected) \in Nat /\ Len(actual) \in Nat
  BY DEF Laddered
<1> USE <1>0
<1>1. /\ c.side = side
      /\ c.first = IF wrong = {} THEN J!NoLevel ELSE J!Min(wrong)
      /\ c.missing = Cardinality(missing)
      /\ c.prices = Cardinality(prices)
      /\ c.quantities = Cardinality(quantities)
  <2> DEFINE first == IF wrong = {} THEN J!NoLevel ELSE J!Min(wrong)
  <2>1. c = [side |-> side, first |-> first, missing |-> Cardinality(missing),
             prices |-> Cardinality(prices),
             quantities |-> Cardinality(quantities)]
    BY CardinalityIsOne DEF compare_lobster_side, J!Comparison
  <2> HIDE DEF c, missing, prices, quantities, first
  <2>2. /\ c.side = side
        /\ c.first = first
        /\ c.missing = Cardinality(missing)
        /\ c.prices = Cardinality(prices)
        /\ c.quantities = Cardinality(quantities)
    BY <2>1
  <2>3. QED
    BY <2>2 DEF first
<1>2. /\ most \in Nat
      /\ both \subseteq 1 .. most
      /\ (1 .. Len(expected)) \cup (1 .. Len(actual)) = 1 .. most
      /\ (1 .. Len(expected)) \cap (1 .. Len(actual)) = both
      /\ missing = {} => Len(expected) = Len(actual)
      /\ Len(expected) = Len(actual) => missing = {} /\ both = 1 .. Len(expected)
  <2>1. /\ J!Min({Len(expected), Len(actual)}) =
             IF Len(expected) <= Len(actual) THEN Len(expected) ELSE Len(actual)
        /\ most = IF Len(expected) <= Len(actual) THEN Len(actual) ELSE Len(expected)
    BY JOfTwo
  <2> HIDE DEF most
  <2>2. most \in Nat /\ both \subseteq 1 .. most
    BY <2>1
  <2>3. ASSUME Len(expected) # Len(actual) PROVE most \in missing
    BY <2>1, <2>3
  <2>4. /\ (1 .. Len(expected)) \cup (1 .. Len(actual)) = 1 .. most
        /\ (1 .. Len(expected)) \cap (1 .. Len(actual)) = both
    BY <2>1
  <2>5. QED
    BY <2>1, <2>2, <2>3, <2>4
<1> HIDE DEF most, c
<1>3. /\ missing \in SUBSET (1 .. most)
      /\ prices \in SUBSET (1 .. most)
      /\ quantities \in SUBSET (1 .. most)
  BY <1>2
<1>10. \A i : i \in wrong <=> J!DiffersAt(expected, actual, i)
  <2>1. ASSUME NEW i \in both
        PROVE  expected[i] # actual[i] <=>
                 \/ expected[i].price # actual[i].price
                 \/ expected[i].quantity # actual[i].quantity
    <3>1. i \in 1 .. Len(expected) /\ i \in 1 .. Len(actual)
      BY <1>2
    <3>2. /\ expected[i] = [price |-> expected[i].price,
                            quantity |-> expected[i].quantity]
          /\ actual[i] = [price |-> actual[i].price,
                          quantity |-> actual[i].quantity]
      BY <3>1 DEF Laddered
    <3>3. QED
      BY <3>2
  <2> DEFINE differ == {i \in both : expected[i] # actual[i]}
  <2>2. prices \cup quantities = differ
    BY <2>1
  <2>3. /\ DOMAIN expected \cup DOMAIN actual = 1 .. most
        /\ DOMAIN expected \cap DOMAIN actual = both
    BY <1>2 DEF Laddered
  <2>4. ASSUME NEW i
        PROVE  J!DiffersAt(expected, actual, i) <=>
                 i \in 1 .. most /\ (i \in both => expected[i] # actual[i])
    BY <2>3 DEF J!DiffersAt
  <2>5. wrong = missing \cup differ
    BY <2>2
  <2>6. both \subseteq 1 .. most
    BY <1>2
  <2> HIDE DEF both, wrong
  <2>7. QED
    BY <2>4, <2>5, <2>6
<1> HIDE DEF missing, prices, quantities
<1>4. wrong # {} => /\ J!Min(wrong) \in wrong
                   /\ J!Min(wrong) \in 1 .. most
                   /\ \A i \in 1 .. J!Min(wrong) - 1 : i \notin wrong
  <2>1. wrong \subseteq 1 .. most
    BY <1>3
  <2>2. wrong \subseteq Nat
    BY <2>1, <1>2
  <2> HIDE DEF wrong
  <2>3. J!Min(wrong) = Min(wrong)
    BY DEF Min, J!Min
  <2>4. ASSUME wrong # {}
        PROVE  /\ J!Min(wrong) \in wrong
               /\ \A i \in wrong : J!Min(wrong) <= i
    BY <2>2, <2>3, <2>4, MinIsIn
  <2>5. ASSUME NEW m \in wrong, \A i \in wrong : m <= i
        PROVE  m \in 1 .. most /\ \A i \in 1 .. m - 1 : i \notin wrong
    BY <1>2, <2>1, <2>5
  <2>6. QED
    BY <2>4, <2>5
<1>5. J!Agrees(c) <=> wrong = {}
  <2> HIDE DEF wrong
  <2>1. wrong # {} => J!Min(wrong) \in 1 .. most
    BY <1>4
  <2>2. QED
    BY <1>1, <1>2, <2>1 DEF J!Agrees, J!NoLevel
<1>6. c.missing \in Nat /\ c.prices \in Nat /\ c.quantities \in Nat
  BY <1>1, <1>2, <1>3, PartOfInterval
<1>7. wrong = {} <=> c.missing = 0 /\ c.prices = 0 /\ c.quantities = 0
  BY <1>1, <1>2, <1>3, PartOfInterval
<1>8. wrong = {} <=> SameRows(expected, actual)
  BY <1>2 DEF SameRows, prices, quantities
<1>9. wrong # {} => J!FirstDifference(expected, actual, c.first)
  <2> HIDE DEF wrong
  <2>1. SUFFICES ASSUME wrong # {}
                 PROVE  J!FirstDifference(expected, actual, c.first)
    OBVIOUS
  <2>2. /\ c.first \in wrong
        /\ \A i \in 1 .. c.first - 1 : i \notin wrong
    BY <1>1, <1>4, <2>1
  <2>3. QED
    BY <1>10, <2>2 DEF J!FirstDifference
<1>11. c.side = side
  BY <1>1
<1> HIDE DEF wrong
<1>12. QED
  BY <1>5, <1>6, <1>7, <1>8, <1>9, <1>11 DEF c

----------------------------------------------------------------------------
(* A view of a side is the only one of its depth.                          *)

(* A price has a place of its own among others.                            *)
LEMMA PlaceIsOwn ==
  ASSUME NEW side \in Side, NEW S \in SUBSET Int, IsFiniteSet(S),
         NEW p \in S, NEW q \in S, Better(side, p, q)
  PROVE  Cardinality(AheadOfPrice(side, S, p))
           # Cardinality(AheadOfPrice(side, S, q))
<1> DEFINE P == AheadOfPrice(side, S, p)
           Q == AheadOfPrice(side, S, q)
<1>1. p \in Int /\ q \in Int
  OBVIOUS
<1>2. P \cup {p} \subseteq Q /\ p \notin P
  <2>1. ASSUME NEW r \in P PROVE r \in Q
    <3>1. r \in S /\ r \in Int /\ Better(side, r, p)
      BY <2>1 DEF AheadOfPrice
    <3>2. Better(side, r, q)
      BY <1>1, <3>1 DEF Better
    <3>3. QED
      BY <3>1, <3>2 DEF AheadOfPrice
  <2>2. p \in Q /\ p \notin P
    BY <1>1 DEF AheadOfPrice, Better
  <2>3. QED
    BY <2>1, <2>2
<1>3. IsFiniteSet(P) /\ IsFiniteSet(Q)
  BY FS_Subset DEF AheadOfPrice
<1> HIDE DEF P, Q
<1>4. Cardinality(P \cup {p}) = Cardinality(P) + 1
  BY <1>2, <1>3, FS_AddElement
<1>5. Cardinality(P \cup {p}) <= Cardinality(Q)
  BY <1>2, <1>3, FS_Subset
<1>6. Cardinality(P) \in Nat /\ Cardinality(Q) \in Nat
  BY <1>3, FS_CardinalityType
<1>7. Cardinality(P) # Cardinality(Q)
  BY <1>4, <1>5, <1>6
<1>8. QED
  BY <1>7 DEF P, Q

LEMMA SamePlace ==
  ASSUME NEW side \in Side, NEW S \in SUBSET Int, IsFiniteSet(S),
         NEW p \in S, NEW q \in S,
         Cardinality(AheadOfPrice(side, S, p))
           = Cardinality(AheadOfPrice(side, S, q))
  PROVE  p = q
<1>1. p = q \/ Better(side, p, q) \/ Better(side, q, p)
  BY DEF Better
<1>2. QED
  BY <1>1, PlaceIsOwn

(* The prices at which orders rest on a side of the book.                  *)
RestingPrices(side) == {Slot(id).price : id \in RestingOn(side)}

LEMMA ViewFacts ==
  ASSUME NEW side, NEW rows, NEW d, ViewOf(side, rows, d)
  PROVE  /\ Len(rows) = Min({d, Cardinality(RestingPrices(side))})
         /\ \A i \in DOMAIN rows :
              /\ rows[i].price \in RestingPrices(side)
              /\ rows[i].quantity =
                   SumFunctionOnSet([id \in RestingOn(side) |-> Slot(id).quantity],
                                    RestingAt(side, rows[i].price))
              /\ Cardinality(AheadOfPrice(side, RestingPrices(side), rows[i].price))
                   = i - 1
BY DEF ViewOf, RestingPrices, RestingOn, RestingAt, AheadOfPrice

LEMMA ViewsAreSame ==
  ASSUME BookInv, pc = "idle", NEW side \in Side, NEW d,
         NEW a, NEW b, ViewOf(side, a, d), ViewOf(side, b, d),
         DOMAIN a = 1 .. Len(a), DOMAIN b = 1 .. Len(b)
  PROVE  SameRows(a, b)
<1>1. /\ RestingPrices(side) \in SUBSET Int
      /\ IsFiniteSet(RestingPrices(side))
  BY PricesAtRest DEF RestingPrices
<1>2. Len(a) = Len(b)
  BY ViewFacts
<1>3. ASSUME NEW i \in 1 .. Len(a)
      PROVE  a[i].price = b[i].price /\ a[i].quantity = b[i].quantity
  <2> DEFINE p == a[i].price
             q == b[i].price
             S == RestingPrices(side)
             total(r) == SumFunctionOnSet(
                           [id \in RestingOn(side) |-> Slot(id).quantity],
                           RestingAt(side, r))
  <2>1. i \in DOMAIN a /\ i \in DOMAIN b
    BY <1>2
  <2>2. /\ p \in S /\ Cardinality(AheadOfPrice(side, S, p)) = i - 1
        /\ a[i].quantity = total(p)
    BY <2>1, ViewFacts
  <2>3. /\ q \in S /\ Cardinality(AheadOfPrice(side, S, q)) = i - 1
        /\ b[i].quantity = total(q)
    BY <2>1, ViewFacts
  <2> HIDE DEF p, q, S, total
  <2>4. p = q
    BY <1>1, <2>2, <2>3, SamePlace DEF S
  <2>5. QED
    BY <2>2, <2>3, <2>4 DEF p, q
<1>4. QED
  BY <1>2, <1>3 DEF SameRows

LEMMA ViewIsShared ==
  ASSUME NEW side, NEW d, NEW a, NEW b, ViewOf(side, a, d), SameRows(a, b),
         DOMAIN a = 1 .. Len(a), DOMAIN b = 1 .. Len(b)
  PROVE  ViewOf(side, b, d)
<1>1. /\ Len(b) = Len(a) /\ DOMAIN b = DOMAIN a
      /\ \A i \in DOMAIN b : /\ b[i].price = a[i].price
                             /\ b[i].quantity = a[i].quantity
  BY DEF SameRows
<1>2. ASSUME NEW i \in DOMAIN b
      PROVE  /\ b[i].price \in RestingPrices(side)
             /\ b[i].quantity =
                  SumFunctionOnSet([id \in RestingOn(side) |-> Slot(id).quantity],
                                   RestingAt(side, b[i].price))
             /\ Cardinality(AheadOfPrice(side, RestingPrices(side), b[i].price))
                  = i - 1
  <2> DEFINE p == a[i].price
             S == RestingPrices(side)
             total(r) == SumFunctionOnSet(
                           [id \in RestingOn(side) |-> Slot(id).quantity],
                           RestingAt(side, r))
  <2>1. i \in DOMAIN a
    BY <1>1
  <2>2. /\ p \in S /\ Cardinality(AheadOfPrice(side, S, p)) = i - 1
        /\ a[i].quantity = total(p)
    BY <2>1, ViewFacts
  <2>3. b[i].price = p /\ b[i].quantity = a[i].quantity
    BY <1>1
  <2> HIDE DEF p, S, total
  <2>4. /\ b[i].price \in S /\ b[i].quantity = total(b[i].price)
        /\ Cardinality(AheadOfPrice(side, S, b[i].price)) = i - 1
    BY <2>2, <2>3
  <2>5. QED
    BY <2>4 DEF S, total
<1>3. Len(b) = Min({d, Cardinality(RestingPrices(side))})
  BY <1>1, ViewFacts
<1>4. QED
  BY <1>2, <1>3 DEF ViewOf, RestingPrices, RestingOn, RestingAt, AheadOfPrice

----------------------------------------------------------------------------
(* The verdict on a row.                                                   *)

LEMMA SideVerdict ==
  ASSUME ViewInv, pc = "idle", depth \in Nat, NEW side \in Side, NEW name,
         NEW rows \in Seq(Shown)
  PROVE  LET actual == SideSnapshot(side, depth)
             c == compare_lobster_side(name, rows, actual)
         IN  /\ c.missing \in Nat /\ c.prices \in Nat /\ c.quantities \in Nat
             /\ J!Agrees(c) <=> c.missing = 0 /\ c.prices = 0 /\ c.quantities = 0
             /\ J!Agrees(c) <=> ViewOf(side, rows, depth)
             /\ J!Agrees(c) <=> rows = actual
             /\ J!Agrees(c) \/ J!FirstDifference(rows, actual, c.first)
             /\ c.side = name
<1> DEFINE actual == SideSnapshot(side, depth)
           c == compare_lobster_side(name, rows, actual)
<1>1. BookInv
  BY DEF ViewInv
<1>2. Laddered(rows)
  BY LineLaddered
<1>3. Laddered(actual)
  BY <1>1, SnapshotLaddered
<1>4. ViewOf(side, actual, depth)
  BY SideExact
<1> HIDE DEF actual
<1>5. /\ DOMAIN rows = 1 .. Len(rows)
      /\ DOMAIN actual = 1 .. Len(actual)
  BY <1>2, <1>3 DEF Laddered
<1>6. /\ c.missing \in Nat /\ c.prices \in Nat /\ c.quantities \in Nat
      /\ J!Agrees(c) <=> SameRows(rows, actual)
      /\ J!Agrees(c) <=> c.missing = 0 /\ c.prices = 0 /\ c.quantities = 0
      /\ J!Agrees(c) \/ J!FirstDifference(rows, actual, c.first)
      /\ c.side = name
  BY <1>2, <1>3, SideCompared
<1>7. SameRows(rows, actual) <=> rows = actual
  BY <1>2, <1>3, SameLadders
<1>8. ASSUME ViewOf(side, rows, depth) PROVE SameRows(rows, actual)
  BY <1>1, <1>4, <1>5, <1>8, ViewsAreSame
<1>9. ASSUME rows = actual PROVE ViewOf(side, rows, depth)
  BY <1>4, <1>9
<1>10. QED
  BY <1>6, <1>7, <1>8, <1>9 DEF actual

LEMMA WaitingRow ==
  ASSUME LineInv, pending \notin {NoLine, BadLine}
  PROVE  /\ depth \in Nat
         /\ pending.bids \in Seq(Shown)
         /\ pending.asks \in Seq(Shown)
BY DEF LineInv, BookRow

LEMMA RowVerdict ==
  ASSUME ViewInv, LineInv, CompareRow
  PROVE  LET bids == BidsCompared
             asks == AsksCompared
         IN  /\ bids.missing \in Nat /\ bids.prices \in Nat
             /\ bids.quantities \in Nat
             /\ asks.missing \in Nat /\ asks.prices \in Nat
             /\ asks.quantities \in Nat
             /\ RowAgrees(bids, asks) <=>
                  /\ bids.missing = 0 /\ bids.prices = 0 /\ bids.quantities = 0
                  /\ asks.missing = 0 /\ asks.prices = 0 /\ asks.quantities = 0
             /\ RowAgrees(bids, asks) <=>
                  /\ ViewOf("Buy", pending.bids, depth)
                  /\ ViewOf("Sell", pending.asks, depth)
<1>1. pc = "idle" /\ pending \notin {NoLine, BadLine}
  BY DEF CompareRow
<1>2. /\ depth \in Nat
      /\ pending.bids \in Seq(Shown)
      /\ pending.asks \in Seq(Shown)
  BY <1>1, WaitingRow
<1>3. "Buy" \in Side /\ "Sell" \in Side
  BY DEF Side
<1>4. LET c == BidsCompared
      IN  /\ c.missing \in Nat /\ c.prices \in Nat /\ c.quantities \in Nat
          /\ J!Agrees(c) <=> c.missing = 0 /\ c.prices = 0 /\ c.quantities = 0
          /\ J!Agrees(c) <=> ViewOf("Buy", pending.bids, depth)
  BY <1>1, <1>2, <1>3, SideVerdict DEF BidsCompared
<1>5. LET c == AsksCompared
      IN  /\ c.missing \in Nat /\ c.prices \in Nat /\ c.quantities \in Nat
          /\ J!Agrees(c) <=> c.missing = 0 /\ c.prices = 0 /\ c.quantities = 0
          /\ J!Agrees(c) <=> ViewOf("Sell", pending.asks, depth)
  BY <1>1, <1>2, <1>3, SideVerdict DEF AsksCompared
<1>6. QED
  BY <1>4, <1>5 DEF RowAgrees

(* The place of a mismatch: the first level of the first side that differs *)
(* from the snapshot.                                                      *)
PlaceOfMismatch(at) ==
  LET actual == snapshot(depth)
  IN  IF pending.bids # actual.bids
      THEN /\ at.side = "bids"
           /\ J!FirstDifference(pending.bids, actual.bids, at.level)
      ELSE /\ at.side = "asks"
           /\ J!FirstDifference(pending.asks, actual.asks, at.level)

LEMMA MismatchPlaced ==
  ASSUME ViewInv, LineInv, CompareRow, ~RowAgrees(BidsCompared, AsksCompared)
  PROVE  PlaceOfMismatch(MismatchAt(BidsCompared, AsksCompared))
<1> DEFINE bids == BidsCompared
           asks == AsksCompared
           buy == SideSnapshot("Buy", depth)
           sell == SideSnapshot("Sell", depth)
           first == IF J!Agrees(bids) THEN asks ELSE bids
           at == MismatchAt(bids, asks)
<1>1. pc = "idle" /\ pending \notin {NoLine, BadLine}
  BY DEF CompareRow
<1>2. /\ depth \in Nat
      /\ pending.bids \in Seq(Shown)
      /\ pending.asks \in Seq(Shown)
  BY <1>1, WaitingRow
<1>3. "Buy" \in Side /\ "Sell" \in Side
  BY DEF Side
<1>4. /\ J!Agrees(bids) <=> pending.bids = buy
      /\ J!Agrees(bids) \/ J!FirstDifference(pending.bids, buy, bids.first)
      /\ bids.side = "bids"
  BY <1>1, <1>2, <1>3, SideVerdict DEF BidsCompared
<1>5. /\ J!Agrees(asks) <=> pending.asks = sell
      /\ J!Agrees(asks) \/ J!FirstDifference(pending.asks, sell, asks.first)
      /\ asks.side = "asks"
  BY <1>1, <1>2, <1>3, SideVerdict DEF AsksCompared
<1>6. at.side = first.side /\ at.level = first.first
  BY DEF MismatchAt
<1>7. snapshot(depth).bids = buy /\ snapshot(depth).asks = sell
  BY DEF snapshot
<1>8. ~J!Agrees(bids) \/ ~J!Agrees(asks)
  BY DEF RowAgrees
<1> HIDE DEF bids, asks, buy, sell, at
<1>9. IF pending.bids # buy
      THEN at.side = "bids" /\ J!FirstDifference(pending.bids, buy, at.level)
      ELSE at.side = "asks" /\ J!FirstDifference(pending.asks, sell, at.level)
  <2>1. CASE J!Agrees(bids)
    BY <1>4, <1>5, <1>6, <1>8, <2>1
  <2>2. CASE ~J!Agrees(bids)
    BY <1>4, <1>6, <2>2
  <2>3. QED
    BY <2>1, <2>2
<1>10. QED
  BY <1>7, <1>9 DEF PlaceOfMismatch, bids, asks, at

----------------------------------------------------------------------------
(* What is counted.                                                        *)

CountInv ==
  /\ summary \in Summary
  /\ validation.matching_rows \in Nat
  /\ validation.missing_level_mismatches \in Nat
  /\ validation.price_mismatches \in Nat
  /\ validation.quantity_mismatches \in Nat
  /\ ValidationConsistent

(* One message more.                                                       *)
CountsOne(s) ==
  s \in Summary /\ s.events_processed = summary.events_processed + 1

LEMMA EventCounts ==
  ASSUME summary \in Summary, NEW c \in Types
  PROVE  CountsOne(Event(c))
<1>1. PICK first \in Summary :
        /\ Gained(summary, first, "events_processed", 1)
        /\ Event(c) \in Summary
        /\ Gained(first, Event(c), c, 1)
  BY EventMembers
<1>2. c # "events_processed"
  BY DEF Types
<1>3. QED
  BY <1>1, <1>2, Members DEF Gained, CountsOne

LEMMA GainCounts ==
  ASSUME summary \in Summary, NEW s, CountsOne(s),
         NEW c \in Counters \ {"events_processed"}, NEW n \in Int
  PROVE  CountsOne(Gain(s, c, n))
<1>1. s \in Summary
  BY DEF CountsOne
<1>2. Gain(s, c, n) \in Summary /\ Gained(s, Gain(s, c, n), c, n)
  BY <1>1, GainMembers
<1>3. QED
  BY <1>1, <1>2, Members DEF Gained, CountsOne

(* Every message is counted as an event, whatever comes of it.             *)
LEMMA ApplyCountsOne ==
  ASSUME summary \in Summary, NEW message \in Messages, Apply(message)
  PROVE  CountsOne(summary')
<1>1. CASE NewOrder(message)
  <2>1. CASE summary' = Event("new_orders")
    BY <2>1, EventCounts DEF Types
  <2>2. CASE summary' = [summary EXCEPT !.events_processed = @ + 1]
    <3>1. summary' = Gain(summary, "events_processed", 1)
      BY <2>2 DEF Gain
    <3>2. "events_processed" \in Counters
      BY DEF Counters
    <3>3. /\ summary' \in Summary
          /\ Gained(summary, summary', "events_processed", 1)
      BY <3>1, <3>2, GainMembers
    <3>4. QED
      BY <3>3 DEF Gained, CountsOne
  <2>3. QED
    BY <1>1, <2>1, <2>2 DEF NewOrder
<1>2. CASE PartialCancel(message)
  <2>1. PICK n \in {0, 1} :
          summary' = Gain(Event("partial_cancels"), "successful_cancels", n)
    BY <1>2 DEF PartialCancel, CountPartialCancel, Gain
  <2>2. CountsOne(Event("partial_cancels"))
    BY EventCounts DEF Types
  <2>3. QED
    BY <2>1, <2>2, GainCounts DEF Counters
<1>3. CASE Deletion(message)
  <2>1. \/ summary' = Event("deletions")
        \/ summary' = Gain(Event("deletions"), "successful_cancels", 1)
    BY <1>3 DEF Deletion, Gain
  <2>2. CountsOne(Event("deletions"))
    BY EventCounts DEF Types
  <2>3. QED
    BY <2>1, <2>2, GainCounts DEF Counters
<1>4. CASE Execution(message)
  <2> DEFINE sized == Gain(Event("executions"), "executed_quantity", message.size)
  <2>1. PICK n \in {0, 1} :
          summary' = Gain(sized, "successful_execution_reductions", n)
    BY <1>4 DEF Execution, CountExecution, Gain
  <2>2. CountsOne(Event("executions"))
    BY EventCounts DEF Types
  <2>3. message.size \in Int
    BY MessagesAssumption, QuantitiesAssumption
  <2>4. CountsOne(sized)
    BY <2>2, <2>3, GainCounts DEF Counters
  <2>5. QED
    BY <2>1, <2>4, GainCounts DEF Counters
<1>5. CASE Skipped(message)
  <2>1. PICK c \in {"hidden_executions", "cross_trades", "auxiliary"} :
          summary' = Event(c)
    BY <1>5 DEF Skipped
  <2>2. QED
    BY <2>1, EventCounts DEF Types
<1>6. QED
  BY <1>1, <1>2, <1>3, <1>4, <1>5 DEF Apply

LEMMA SubmissionCountsNone ==
  ASSUME summary \in Summary, ApplySubmission
  PROVE  /\ summary' \in Summary
         /\ summary'.events_processed = summary.events_processed
<1>1. CASE NewOrderMatches
  BY <1>1 DEF NewOrderMatches, replayVars
<1>2. CASE NewOrderReturns
  <2>1. summary' = Gain(summary, "new_orders", 1)
    BY <1>2 DEF NewOrderReturns, Gain
  <2>2. "new_orders" \in Counters
    BY DEF Counters
  <2>3. summary' \in Summary /\ Gained(summary, summary', "new_orders", 1)
    BY <2>1, <2>2, GainMembers
  <2>4. QED
    BY <2>3, Members DEF Gained
<1>3. QED
  BY <1>1, <1>2 DEF ApplySubmission

LEMMA SomeCounted ==
  ASSUME NEW a \in Nat, NEW b \in Nat, NEW c \in Nat, NEW d \in Nat,
         NEW e \in Nat, NEW f \in Nat,
         ~(a = 0 /\ c = 0 /\ e = 0 /\ b = 0 /\ d = 0 /\ f = 0)
  PROVE  a + b + c + d + e + f > 0
OBVIOUS

(* The counters after a row: the row agrees when nothing of it is counted, *)
(* and is the first to differ when none was before.                        *)
LEMMA CompareRowCounts ==
  ASSUME CountInv, FirstInv, ViewInv, LineInv, CompareRow
  PROVE  CountInv'
<1> DEFINE v == validation
           bids == BidsCompared
           asks == AsksCompared
           agrees == RowAgrees(bids, asks)
           at == MismatchAt(bids, asks)
           differences == v.missing_level_mismatches + v.price_mismatches
                            + v.quantity_mismatches
<1>1. /\ bids.missing \in Nat /\ bids.prices \in Nat /\ bids.quantities \in Nat
      /\ asks.missing \in Nat /\ asks.prices \in Nat /\ asks.quantities \in Nat
      /\ agrees <=>
           /\ bids.missing = 0 /\ bids.prices = 0 /\ bids.quantities = 0
           /\ asks.missing = 0 /\ asks.prices = 0 /\ asks.quantities = 0
  BY RowVerdict
<1>2. /\ v'.rows_compared = v.rows_compared + 1
      /\ v'.matching_rows = v.matching_rows + IF agrees THEN 1 ELSE 0
      /\ v'.mismatching_rows = v.mismatching_rows + IF agrees THEN 0 ELSE 1
      /\ v'.missing_level_mismatches =
           v.missing_level_mismatches + bids.missing + asks.missing
      /\ v'.price_mismatches = v.price_mismatches + bids.prices + asks.prices
      /\ v'.quantity_mismatches =
           v.quantity_mismatches + bids.quantities + asks.quantities
      /\ v'.first_mismatch = IF agrees \/ v.first_mismatch # NoMismatch
                             THEN v.first_mismatch ELSE at
  BY CompareRowMembers DEF RowsWrong, first_mismatch
<1>3. at # NoMismatch
  BY MismatchIsOne
<1>4. pending # NoLine /\ pending' = NoLine /\ summary' = summary
  BY DEF CompareRow, replayVars
<1>5. /\ summary \in Summary
      /\ summary.events_processed = v.rows_compared + 1
      /\ v.rows_compared = v.matching_rows + v.mismatching_rows
      /\ v.mismatching_rows <= differences
      /\ v.first_mismatch = NoMismatch <=> differences = 0
      /\ v.first_mismatch = NoMismatch <=> v.mismatching_rows = 0
      /\ v.rows_compared \in Nat /\ v.matching_rows \in Nat
      /\ v.mismatching_rows \in Nat
      /\ v.missing_level_mismatches \in Nat /\ v.price_mismatches \in Nat
      /\ v.quantity_mismatches \in Nat
  BY <1>4 DEF CountInv, FirstInv, ValidationConsistent
<1> HIDE DEF bids, asks, at
<1>6. summary' \in Summary /\ summary'.events_processed = v'.rows_compared
  BY <1>2, <1>4, <1>5
<1>7. /\ v'.matching_rows \in Nat /\ v'.missing_level_mismatches \in Nat
      /\ v'.price_mismatches \in Nat /\ v'.quantity_mismatches \in Nat
  BY <1>1, <1>2, <1>5
<1>8. v'.rows_compared = v'.matching_rows + v'.mismatching_rows
  BY <1>2, <1>5
<1>9. /\ v'.mismatching_rows <= differences'
      /\ v'.first_mismatch = NoMismatch <=> differences' = 0
      /\ v'.first_mismatch = NoMismatch <=> v'.mismatching_rows = 0
  <2>1. CASE agrees
    <3>1. /\ v'.mismatching_rows = v.mismatching_rows
          /\ v'.missing_level_mismatches = v.missing_level_mismatches
          /\ v'.price_mismatches = v.price_mismatches
          /\ v'.quantity_mismatches = v.quantity_mismatches
          /\ v'.first_mismatch = v.first_mismatch
      BY <1>1, <1>2, <1>5, <2>1
    <3>2. QED
      BY <1>5, <3>1
  <2>2. CASE ~agrees
    <3>1. /\ v'.mismatching_rows = v.mismatching_rows + 1
          /\ differences' = differences + (bids.missing + asks.missing)
                              + (bids.prices + asks.prices)
                              + (bids.quantities + asks.quantities)
      BY <1>1, <1>2, <1>5, <2>2
    <3>2. v'.first_mismatch # NoMismatch
      BY <1>2, <1>3, <2>2
    <3>3. bids.missing + asks.missing + bids.prices + asks.prices
            + bids.quantities + asks.quantities > 0
      <4> DEFINE a == bids.missing
                 b == asks.missing
                 c == bids.prices
                 d == asks.prices
                 e == bids.quantities
                 f == asks.quantities
      <4>1. ~(a = 0 /\ c = 0 /\ e = 0 /\ b = 0 /\ d = 0 /\ f = 0)
        BY <1>1, <2>2, Zenon
      <4>2. a \in Nat /\ b \in Nat /\ c \in Nat /\ d \in Nat /\ e \in Nat /\ f \in Nat
        BY <1>1
      <4> HIDE DEF a, b, c, d, e, f
      <4>3. a + b + c + d + e + f > 0
        BY <4>1, <4>2, SomeCounted
      <4>4. QED
        BY <4>3 DEF a, b, c, d, e, f
    <3> HIDE DEF differences
    <3>4. differences \in Nat
      BY <1>5 DEF differences
    <3>5. differences' \in Nat /\ differences' >= differences + 1
      <4>1. /\ bids.missing \in Nat /\ bids.prices \in Nat
            /\ bids.quantities \in Nat
            /\ asks.missing \in Nat /\ asks.prices \in Nat
            /\ asks.quantities \in Nat
        BY <1>1
      <4>2. differences' = differences + (bids.missing + asks.missing)
                              + (bids.prices + asks.prices)
                              + (bids.quantities + asks.quantities)
        BY <3>1
      <4>3. QED
        BY <3>3, <3>4, <4>1, <4>2
    <3>6. v.mismatching_rows <= differences /\ v.mismatching_rows \in Nat
      BY <1>5 DEF differences
    <3>7. v'.mismatching_rows <= differences'
      BY <3>1, <3>4, <3>5, <3>6
    <3>8. v'.mismatching_rows # 0 /\ differences' # 0
      BY <3>1, <3>4, <3>5, <3>6
    <3>9. QED
      BY <3>2, <3>7, <3>8
  <2>3. QED
    BY <2>1, <2>2
<1>10. summary'.events_processed =
         v'.rows_compared + IF pending' = NoLine THEN 0 ELSE 1
  BY <1>2, <1>4, <1>5
<1>11. ValidationConsistent'
  BY <1>8, <1>9, <1>10 DEF ValidationConsistent
<1>12. QED
  BY <1>6, <1>7, <1>11 DEF CountInv

LEMMA CountInvNext ==
  ASSUME CountInv, FirstInv, ViewInv, LineInv,
         [ValidationNext]_<<vars, replayVars, validationVars>>
  PROVE  CountInv'
<1>1. ASSUME NEW message \in Messages, NEW line \in BookRow \cup {BadLine},
             ReadPair(message, line)
      PROVE  CountInv'
  <2>1. /\ Apply(message) /\ pending = NoLine /\ pending' # NoLine
        /\ validation' = validation
    BY <1>1, LineIsOne DEF ReadPair
  <2>2. CountsOne(summary')
    BY <2>1, ApplyCountsOne DEF CountInv
  <2>3. summary'.events_processed =
          validation'.rows_compared + IF pending' = NoLine THEN 0 ELSE 1
    BY <2>1, <2>2 DEF CountInv, CountsOne, ValidationConsistent, FirstInv
  <2>4. ValidationConsistent'
    BY <2>1, <2>3 DEF CountInv, ValidationConsistent
  <2>5. QED
    BY <2>1, <2>2, <2>4 DEF CountInv, CountsOne
<1>2. ASSUME UNCHANGED <<pending, validation>>, summary' \in Summary,
             summary'.events_processed = summary.events_processed
      PROVE  CountInv'
  BY <1>2 DEF CountInv, ValidationConsistent
<1>3. CASE ApplySubmission
  BY <1>2, <1>3, SubmissionCountsNone
  DEF CountInv, ApplySubmission, validationVars
<1>4. CASE CompareRow
  BY <1>4, CompareRowCounts
<1>5. CASE ThrowOnMessage \/ ThrowOnRow
  <2>1. /\ summary' = EmptySummary /\ validation' = EmptyValidation
        /\ pending' = NoLine
    BY <1>5 DEF ThrowOnMessage, ThrowOnRow, Throw
  <2>2. QED
    BY <2>1, EmptyAccounted
    DEF EmptyValidation, CountInv, ValidationConsistent
<1>6. CASE CallerUses \/ Start \/ ReturnSummary
  BY <1>2, <1>6 DEF CallerUses, Start, ReturnSummary, Return, CountInv,
                    replayVars, validationVars
<1>7. CASE UNCHANGED <<vars, replayVars, validationVars>>
  BY <1>2, <1>7 DEF CountInv, replayVars, validationVars
<1>8. QED
  BY <1>1, <1>3, <1>4, <1>5, <1>6, <1>7
  DEF ValidationNext, ReadFiles, ValidationStep

----------------------------------------------------------------------------
(* The inductive invariant of validate_lobster_replay, for any two files.  *)
ValidatorInv == ViewInv /\ LineInv /\ FirstInv /\ CountInv

LEMMA ValidatorInvHolds == ValidationSpec => []ValidatorInv
<1>1. ValidationInit => ValidatorInv
  <2> SUFFICES ASSUME ValidationInit PROVE ValidatorInv
    OBVIOUS
  <2>1. summary = EmptySummary /\ validation = EmptyValidation
        /\ pending = NoLine /\ depth \in Depths /\ Init
    BY DEF ValidationInit
  <2>2. CountInv
    BY <2>1, EmptyAccounted DEF EmptyValidation, CountInv, ValidationConsistent
  <2>3. LineInv
    BY <2>1, DepthsAssumption DEF LineInv
  <2>4. FirstInv
    BY <2>1, EmptyValidationFirst DEF FirstInv
  <2>5. QED
    BY <2>1, <2>2, <2>3, <2>4, ViewInvInit DEF ValidatorInv
<1>2. ValidatorInv /\ [ValidationNext]_<<vars, replayVars, validationVars>>
        => ValidatorInv'
  BY ViewInvNext, ValidationCalls, LineInvNext, FirstInvNext,
     ValidationConcludes, CountInvNext DEF ValidatorInv
<1>3. QED
  BY <1>1, <1>2, PTL DEF ValidationSpec

(* What a step that is no comparison leaves of the verdicts.               *)
LEMMA OnlyRowsConclude ==
  ASSUME FirstInv, Concludes, ~CompareRow
  PROVE  /\ ~(validation'.rows_compared > validation.rows_compared)
         /\ validation' = EmptyValidation
              \/ validation'.first_mismatch = validation.first_mismatch
<1>1. CASE validation' = EmptyValidation
  BY <1>1, EmptyValidationFirst DEF FirstInv
<1>2. CASE UNCHANGED validation
  BY <1>2 DEF FirstInv
<1>3. QED
  BY <1>1, <1>2 DEF Concludes

(* What is given up is given up with an exception.                         *)
LEMMA GivenUpThrows ==
  ASSUME [ValidationNext]_<<vars, replayVars, validationVars>>, ~CompareRow
  PROVE  status' = "thrown" \/ UNCHANGED validation
BY DEF ValidationNext, ReadFiles, ReadPair, ValidationStep, CallerUses, Start,
       ApplySubmission, ThrowOnMessage, ThrowOnRow, ReturnSummary, Throw,
       validationVars

(* validate_lobster_replay reports the first place of the first row that   *)
(* did not match, and nothing that comes after it, whatever the two files  *)
(* hold.                                                                   *)
THEOREM FirstMismatchReported == ValidationSpec => FirstRowKept
<1> DEFINE actual == snapshot(depth)
           first == validation'.first_mismatch
           kept ==
             validation'.first_mismatch # validation.first_mismatch
               /\ status' # "thrown" =>
               /\ validation.mismatching_rows = 0
               /\ first.row = validation'.rows_compared
               /\ IF pending.bids # actual.bids
                  THEN /\ first.side = "bids"
                       /\ J!FirstDifference(pending.bids, actual.bids, first.level)
                  ELSE /\ first.side = "asks"
                       /\ J!FirstDifference(pending.asks, actual.asks, first.level)
<1>1. ASSUME ValidatorInv,
             [ValidationNext]_<<vars, replayVars, validationVars>>
      PROVE  kept
  <2>1. SUFFICES ASSUME validation'.first_mismatch # validation.first_mismatch,
                        status' # "thrown"
                 PROVE  /\ validation.mismatching_rows = 0
                        /\ first.row = validation'.rows_compared
                        /\ PlaceOfMismatch(first)
    BY DEF PlaceOfMismatch
  <2>2. CompareRow
    BY <1>1, <2>1, GivenUpThrows
  <2> DEFINE at == MismatchAt(BidsCompared, AsksCompared)
  <2>3. ViewInv /\ LineInv /\ FirstInv
    BY <1>1 DEF ValidatorInv
  <2>4. /\ validation'.rows_compared = validation.rows_compared + 1
        /\ first = first_mismatch(BidsCompared, AsksCompared)
    BY <2>2, <2>3, CompareRowMembers
  <2>5. /\ validation.first_mismatch = NoMismatch
        /\ first = at
        /\ ~RowAgrees(BidsCompared, AsksCompared)
    BY <2>1, <2>4 DEF first_mismatch
  <2>6. at.row = validation.rows_compared + 1
    BY DEF MismatchAt
  <2>7. PlaceOfMismatch(at)
    BY <2>2, <2>3, <2>5, MismatchPlaced
  <2>8. validation.mismatching_rows = 0
    BY <2>3, <2>5 DEF FirstInv
  <2> HIDE DEF at
  <2>9. QED
    BY <2>4, <2>5, <2>6, <2>7, <2>8
<1>2. ValidatorInv /\ [ValidationNext]_<<vars, replayVars, validationVars>>
        => [kept]_<<vars, replayVars, validationVars>>
  BY <1>1
<1> HIDE DEF actual, first
<1>3. QED
  BY <1>2, ValidatorInvHolds, PTL
  DEF ValidationSpec, FirstRowKept, actual, first

(* A row is counted as matching exactly when it shows what the book holds, *)
(* whatever the two files hold.                                            *)
THEOREM VerdictsAreExact == ValidationSpec => VerdictExact
<1> DEFINE exact ==
      validation'.rows_compared > validation.rows_compared =>
        (validation'.matching_rows > validation.matching_rows <=>
           /\ ViewOf("Buy", pending.bids, depth)
           /\ ViewOf("Sell", pending.asks, depth))
<1>1. ASSUME ValidatorInv,
             [ValidationNext]_<<vars, replayVars, validationVars>>
      PROVE  exact
  <2>1. CASE CompareRow
    <3> DEFINE n == validation.matching_rows
               agrees == RowAgrees(BidsCompared, AsksCompared)
    <3>1. n \in Nat /\ validation'.matching_rows = n + IF agrees THEN 1 ELSE 0
      BY <1>1, <2>1, CompareRowMembers DEF ValidatorInv, CountInv
    <3>2. agrees <=> /\ ViewOf("Buy", pending.bids, depth)
                     /\ ViewOf("Sell", pending.asks, depth)
      BY <1>1, <2>1, RowVerdict DEF ValidatorInv
    <3>3. CASE agrees
      <4>1. validation'.matching_rows > n
        BY <3>1, <3>3
      <4>2. QED
        BY <3>2, <3>3, <4>1
    <3>4. CASE ~agrees
      <4>1. ~(validation'.matching_rows > n)
        BY <3>1, <3>4
      <4>2. QED
        BY <3>2, <3>4, <4>1
    <3>5. QED
      BY <3>3, <3>4
  <2>2. CASE ~CompareRow
    BY <1>1, <2>2, OnlyRowsConclude, ValidationConcludes DEF ValidatorInv
  <2>3. QED
    BY <2>1, <2>2
<1>2. ValidatorInv /\ [ValidationNext]_<<vars, replayVars, validationVars>>
        => [exact]_<<vars, replayVars, validationVars>>
  BY <1>1
<1>3. QED
  BY <1>2, ValidatorInvHolds, PTL DEF ValidationSpec, VerdictExact

(* The counters of validate_lobster_replay tell one story, whatever the    *)
(* two files hold.                                                         *)
THEOREM ValidationAgrees == ValidationSpec => []ValidationConsistent
<1>1. ValidatorInv => ValidationConsistent
  BY DEF ValidatorInv, CountInv
<1>2. QED
  BY <1>1, ValidatorInvHolds, PTL

----------------------------------------------------------------------------
(* PairedFeed: the files that an exchange writes.                          *)

LEMMA FeedIsCall == [FeedNext]_allVars => [Next]_vars
<1>1. ASSUME NEW message \in Messages, FeedPair(message)
      PROVE  Apply(message)
  BY <1>1 DEF FeedPair, ReadPair
<1>2. ASSUME NEW message \in Messages, LosePair(message)
      PROVE  UNCHANGED vars
  BY <1>2 DEF LosePair
<1>3. UNCHANGED allVars => UNCHANGED vars
  BY DEF allVars
<1>4. QED
  BY <1>1, <1>2, <1>3, ApplyIsCall, ValidationIsCall DEF FeedNext

----------------------------------------------------------------------------
(* The market.                                                             *)

Placed == [side : Side, price : Prices, quantity : Int, seen : BOOLEAN]

MarketInv ==
  /\ market \in [DOMAIN market -> Placed]
  /\ \A id \in DOMAIN market : market[id].quantity > 0
  /\ NotCrossing(market)

(* What a message does to the market: an order comes, leaves or shrinks.   *)
OthersStay(id) == \A j \in DOMAIN market \ {id} : market'[j] = market[j]

Comes(message, seen) ==
  LET id == message.order_id
  IN  /\ message.size > 0
      /\ id \notin DOMAIN market
      /\ DOMAIN market' = DOMAIN market \cup {id}
      /\ OthersStay(id)
      /\ market'[id].side = lobster_direction_to_side(message.direction)
      /\ market'[id].price = message.price
      /\ market'[id].quantity = message.size
      /\ market'[id].seen = seen

Leaves(message) ==
  LET id == message.order_id
  IN  /\ id \in DOMAIN market
      /\ message.size = market[id].quantity
      /\ DOMAIN market' = DOMAIN market \ {id}
      /\ OthersStay(id)

Shrinks(message) ==
  LET id == message.order_id
  IN  /\ id \in DOMAIN market
      /\ 0 < message.size /\ message.size < market[id].quantity
      /\ DOMAIN market' = DOMAIN market
      /\ OthersStay(id)
      /\ market'[id].side = market[id].side
      /\ market'[id].price = market[id].price
      /\ market'[id].quantity = market[id].quantity - message.size
      /\ market'[id].seen = market[id].seen

MarketTurns(message, seen) ==
  \/ message.type = 1 /\ Comes(message, seen)
  \/ message.type \in 2 .. 4 /\ Leaves(message)
  \/ message.type \in {2, 4} /\ Shrinks(message)
  \/ message.type \in 5 .. 7 /\ market' = market

(* Orders that keep their sides and prices do not come to cross.           *)
LEMMA NotCrossingKept ==
  ASSUME NotCrossing(market),
         DOMAIN market' \subseteq DOMAIN market,
         \A j \in DOMAIN market' : /\ market'[j].side = market[j].side
                                   /\ market'[j].price = market[j].price
  PROVE  NotCrossing(market)'
BY DEF NotCrossing, Crosses

LEMMA OrderComes ==
  ASSUME MarketInv, NEW message \in Messages, NEW seen \in BOOLEAN,
         message.type = 1, CanHappen(message), market' = Happened(message, seen)
  PROVE  Comes(message, seen) /\ MarketInv'
<1> DEFINE id == message.order_id
           side == lobster_direction_to_side(message.direction)
           o(b) == [side |-> side, price |-> message.price,
                    quantity |-> message.size, seen |-> b]
           after == Insert(market, id, o(TRUE))
<1>1. /\ id \notin DOMAIN market
      /\ message.size > 0 /\ message.size \in Int
      /\ message.price \in Prices
      /\ side \in Side
      /\ NotCrossing(after)
  BY MessagesAssumption, QuantitiesAssumption
     DEF CanHappen, Happened, Side, lobster_direction_to_side
<1>2. market' = Insert(market, id, o(seen))
  BY DEF Happened
<1>3. /\ DOMAIN market' = DOMAIN market \cup {id}
      /\ OthersStay(id)
      /\ market'[id] = o(seen)
  BY <1>2 DEF Insert, OthersStay
<1>4. /\ DOMAIN after = DOMAIN market \cup {id}
      /\ \A j \in DOMAIN market : after[j] = market[j]
      /\ after[id] = o(TRUE)
  BY <1>1 DEF Insert
<1>5. o(seen) \in Placed
  BY <1>1 DEF Placed
<1>6. /\ o(seen).side = side
      /\ o(seen).price = message.price
      /\ o(seen).quantity = message.size
      /\ o(seen).seen = seen
      /\ o(TRUE).side = side
      /\ o(TRUE).price = message.price
  OBVIOUS
<1> HIDE DEF o, after
<1>7. \A j \in DOMAIN market' : /\ market'[j].side = after[j].side
                                /\ market'[j].price = after[j].price
  <2>1. /\ market'[id].side = after[id].side
        /\ market'[id].price = after[id].price
    BY <1>3, <1>4, <1>6
  <2>2. \A j \in DOMAIN market' \ {id} : market'[j] = after[j]
    BY <1>1, <1>3, <1>4 DEF OthersStay
  <2>3. QED
    BY <2>1, <2>2
<1>8. NotCrossing(market)'
  BY <1>1, <1>3, <1>4, <1>7 DEF NotCrossing, Crosses
<1>9. market' \in [DOMAIN market' -> Placed]
  <2>1. market' = [j \in DOMAIN market' |-> market'[j]]
    BY <1>2 DEF Insert
  <2>2. \A j \in DOMAIN market' : market'[j] \in Placed
    BY <1>1, <1>3, <1>5 DEF MarketInv, OthersStay
  <2>3. QED
    BY <2>1, <2>2
<1>10. \A j \in DOMAIN market' : market'[j].quantity > 0
  BY <1>1, <1>3, <1>6 DEF MarketInv, OthersStay
<1>11. QED
  BY <1>1, <1>3, <1>6, <1>8, <1>9, <1>10 DEF Comes, MarketInv

LEMMA OrderLeavesOrShrinks ==
  ASSUME MarketInv, NEW message \in Messages, NEW seen \in BOOLEAN,
         message.type \in 2 .. 4, CanHappen(message),
         market' = Happened(message, seen)
  PROVE  /\ Leaves(message) \/ (message.type \in {2, 4} /\ Shrinks(message))
         /\ MarketInv'
<1> DEFINE id == message.order_id
           q == market[id].quantity
<1>1. /\ id \in DOMAIN market
      /\ message.size > 0 /\ message.size \in Int
      /\ market[id] \in Placed /\ q \in Int /\ q > 0
      /\ About(message, market[id])
      /\ message.type # 1
  <2>1. message.type \in Int /\ message.size \in Int
    BY MessagesAssumption, QuantitiesAssumption
  <2>2. message.type # 1 /\ ~(message.type \in 5 .. 7)
    BY <2>1
  <2>3. /\ message.size > 0
        /\ id \in DOMAIN market
        /\ About(message, market[id])
    BY <2>2 DEF CanHappen
  <2>4. QED
    BY <2>1, <2>2, <2>3 DEF MarketInv, Placed
<1>2. CASE message.size = q
  <2>1. market' = Erase(market, id)
    BY <1>1, <1>2 DEF Happened
  <2>2. /\ DOMAIN market' = DOMAIN market \ {id}
        /\ OthersStay(id)
        /\ market' \in [DOMAIN market' -> Placed]
    BY <2>1 DEF Erase, Restrict, OthersStay, MarketInv
  <2>3. Leaves(message)
    BY <1>1, <1>2, <2>2 DEF Leaves
  <2>4. NotCrossing(market)'
    BY <2>2, NotCrossingKept DEF OthersStay, MarketInv
  <2>5. QED
    BY <2>2, <2>3, <2>4 DEF MarketInv, OthersStay
<1>3. CASE message.size # q
  <2>1. message.type \in {2, 4} /\ message.size < q
    <3>1. message.type \in {2, 3, 4}
      OBVIOUS
    <3>2. message.type = 2 => message.size < q
      BY <1>1 DEF About
    <3>3. message.type = 3 => message.size = q
      BY <1>1 DEF About
    <3>4. message.type = 4 => message.size <= q
      BY <1>1 DEF About
    <3>5. QED
      BY <1>1, <1>3, <3>1, <3>2, <3>3, <3>4
  <2>2. market' = [market EXCEPT ![id].quantity = q - message.size]
    BY <1>1, <1>3 DEF Happened
  <2> DEFINE smaller == [market[id] EXCEPT !.quantity = q - message.size]
  <2>3. /\ DOMAIN market' = DOMAIN market
        /\ OthersStay(id)
        /\ market'[id] = smaller
        /\ market' = [j \in DOMAIN market' |-> market'[j]]
    BY <1>1, <2>2 DEF OthersStay, MarketInv
  <2>4. /\ smaller.side = market[id].side
        /\ smaller.price = market[id].price
        /\ smaller.quantity = q - message.size
        /\ smaller.seen = market[id].seen
        /\ smaller \in Placed
    BY <1>1 DEF Placed
  <2> HIDE DEF smaller
  <2>5. Shrinks(message)
    BY <1>1, <2>1, <2>3, <2>4 DEF Shrinks
  <2>6. \A j \in DOMAIN market : /\ market'[j].side = market[j].side
                                 /\ market'[j].price = market[j].price
                                 /\ market'[j].quantity > 0
                                 /\ market'[j] \in Placed
    BY <1>1, <2>1, <2>3, <2>4 DEF OthersStay, MarketInv
  <2>7. NotCrossing(market)'
    BY <2>3, <2>6, NotCrossingKept DEF MarketInv
  <2>8. QED
    BY <2>1, <2>3, <2>5, <2>6, <2>7 DEF MarketInv
<1>4. QED
  BY <1>2, <1>3

LEMMA ExchangeTurns ==
  ASSUME MarketInv, NEW message \in Messages, NEW seen \in BOOLEAN,
         CanHappen(message), market' = Happened(message, seen)
  PROVE  MarketTurns(message, seen) /\ MarketInv'
<1>1. CASE message.type = 1
  BY <1>1, OrderComes DEF MarketTurns
<1>2. CASE message.type \in 2 .. 4
  BY <1>2, OrderLeavesOrShrinks DEF MarketTurns
<1>3. CASE message.type \in 5 .. 7
  <2>1. market' = market
    BY <1>3 DEF Happened
  <2>2. MarketInv'
    BY <2>1 DEF MarketInv, NotCrossing
  <2>3. QED
    BY <1>3, <2>1, <2>2 DEF MarketTurns
<1>4. \/ message.type = 1
      \/ message.type \in 2 .. 4
      \/ message.type \in 5 .. 7
  BY DEF CanHappen
<1>5. QED
  BY <1>1, <1>2, <1>3, <1>4

----------------------------------------------------------------------------
(* The rows of the exchange.                                               *)

PlacedAt(side, p) ==
  {id \in DOMAIN market : market[id].side = side /\ market[id].price = p}
PlacedPrices(side) == {p \in Prices : PlacedAt(side, p) # {}}
PlacedQuantity == [id \in DOMAIN market |-> market[id].quantity]

(* What MarketInv does not need and the rows do: a finite market, and the  *)
(* row that waits is that of the market as it is.                          *)
RowsInv ==
  /\ depth \in Nat
  /\ IsFiniteSet(DOMAIN market)
  /\ pending \in {NoLine, BadLine, Row(market)}

LEMMA PlacedFinite ==
  ASSUME MarketInv, RowsInv, NEW side
  PROVE  IsFiniteSet(PlacedPrices(side)) /\ PlacedPrices(side) \in SUBSET Int
<1> DEFINE all == {market[id].price : id \in DOMAIN market}
           g == [id \in DOMAIN market |-> market[id].price]
<1>1. g \in Surjection(DOMAIN market, all)
  BY DEF Surjection
<1>2. IsFiniteSet(all)
  BY <1>1, FS_Surjection DEF RowsInv
<1>3. PlacedPrices(side) \subseteq all
  BY DEF PlacedPrices, PlacedAt
<1>4. PlacedPrices(side) \in SUBSET Int
  BY PricesAssumption DEF PlacedPrices
<1>5. QED
  BY <1>2, <1>3, <1>4, FS_Subset

LEMMA ShownShape ==
  ASSUME MarketInv, RowsInv, NEW side \in Side
  PROVE  LET rows == ShownSide(side, market)
             book == PlacedPrices(side)
         IN  /\ rows \in Seq(Shown)
             /\ Len(rows) \in Nat
             /\ Len(rows) = Min({depth, Cardinality(book)})
             /\ DOMAIN rows = 1 .. Len(rows)
             /\ \A i \in DOMAIN rows :
                  /\ rows[i].price \in book
                  /\ rows[i].quantity =
                       SumFunctionOnSet(PlacedQuantity, PlacedAt(side, rows[i].price))
                  /\ Cardinality(AheadOfPrice(side, book, rows[i].price)) = i - 1
<1> DEFINE rows == ShownSide(side, market)
           book == PlacedPrices(side)
           prices == InMapOrder(side, book)
           n == Cardinality(book)
           visible == IF depth <= n THEN depth ELSE n
           total(p) == SumFunctionOnSet(PlacedQuantity, PlacedAt(side, p))
           row(i) == [price |-> prices[i], quantity |-> total(prices[i])]
<1>1. rows = [i \in 1 .. Min({depth, Len(prices)}) |-> row(i)]
  BY DEF ShownSide, PlacedPrices, PlacedAt, PlacedQuantity
<1>2. /\ n \in Nat /\ Len(prices) = n
      /\ prices \in [1 .. n -> book]
      /\ \A i \in 1 .. n :
           Cardinality(AheadOfPrice(side, book, prices[i])) = i - 1
  <2>1. prices = InMapOrder(side, book) /\ n = Cardinality(book)
    OBVIOUS
  <2>2. IsFiniteSet(book) /\ book \in SUBSET Int
    BY PlacedFinite
  <2> HIDE DEF prices, book, n
  <2>3. QED
    BY <2>1, <2>2, InMapOrderIs
<1>3. depth \in Nat
  BY DEF RowsInv
<1>4. Min({depth, n}) = visible /\ visible \in Nat
  BY <1>2, <1>3, OfTwo
<1>5. rows = [i \in 1 .. visible |-> row(i)]
  BY <1>1, <1>2, <1>4
<1> HIDE DEF rows
<1>6. DOMAIN rows = 1 .. visible /\ \A i \in 1 .. visible : rows[i] = row(i)
  BY <1>5
<1>7. Len(rows) = visible
  <2>1. rows \in [1 .. visible -> {row(i) : i \in 1 .. visible}]
    BY <1>5
  <2>2. QED
    BY <1>4, <2>1, FunctionIsSeq
<1>8. ASSUME NEW i \in DOMAIN rows
      PROVE  /\ rows[i].price \in book
             /\ rows[i].quantity = total(rows[i].price)
             /\ Cardinality(AheadOfPrice(side, book, rows[i].price)) = i - 1
  <2>1. i \in 1 .. visible /\ i \in 1 .. n
    <3> HIDE DEF n
    <3>1. QED
      BY <1>2, <1>3, <1>6
  <2> DEFINE p == prices[i]
             t == total(p)
  <2>2. rows[i] = [price |-> p, quantity |-> t]
    BY <1>6, <2>1
  <2>3. p \in book /\ Cardinality(AheadOfPrice(side, book, p)) = i - 1
    BY <1>2, <2>1
  <2> HIDE DEF p, t
  <2>4. rows[i].price = p /\ rows[i].quantity = t
    BY <2>2
  <2> HIDE DEF book, total
  <2>5. QED
    BY <2>3, <2>4 DEF t
<1>9. rows \in Seq(Shown)
  <2>1. ASSUME NEW i \in 1 .. visible PROVE row(i) \in Shown
    <3> DEFINE p == prices[i]
               at == PlacedAt(side, p)
    <3>1. p \in Int
      <4>1. i \in 1 .. n
        BY <1>2, <1>3
      <4> HIDE DEF n, prices
      <4>2. QED
        BY <1>2, <4>1, PlacedFinite
    <3>2. total(p) \in Int
      <4>1. IsFiniteSet(at)
        BY FS_Subset DEF RowsInv, PlacedAt
      <4>2. \A id \in at : PlacedQuantity[id] \in Int
        BY DEF MarketInv, Placed, PlacedAt, PlacedQuantity
      <4> HIDE DEF at
      <4>3. SumFunctionOnSet(PlacedQuantity, at) \in Int
        BY <4>1, <4>2, SumType
      <4>4. QED
        BY <4>3 DEF at
    <3> HIDE DEF p, total
    <3>3. QED
      BY <3>1, <3>2 DEF Shown, p
  <2>2. rows \in [1 .. visible -> Shown]
    BY <1>5, <2>1
  <2>3. QED
    BY <1>4, <2>2, FunctionIsSeq
<1>10. QED
  BY <1>4, <1>6, <1>7, <1>8, <1>9 DEF rows

LEMMA TurnKeepsFinite ==
  ASSUME IsFiniteSet(DOMAIN market), NEW message, NEW seen,
         MarketTurns(message, seen)
  PROVE  IsFiniteSet(DOMAIN market')
<1> DEFINE id == message.order_id
<1>1. \/ DOMAIN market' = DOMAIN market \cup {id}
      \/ DOMAIN market' = DOMAIN market \ {id}
      \/ DOMAIN market' = DOMAIN market
  BY DEF MarketTurns, Comes, Leaves, Shrinks
<1>2. IsFiniteSet(DOMAIN market \cup {id})
  BY FS_AddElement
<1>3. IsFiniteSet(DOMAIN market \ {id})
  BY FS_Subset
<1>4. QED
  BY <1>1, <1>2, <1>3

LEMMA RowsInvNext ==
  ASSUME RowsInv, MarketInv, [FeedNext]_allVars
  PROVE  RowsInv'
<1>1. ASSUME NEW message \in Messages, FeedPair(message)
      PROVE  RowsInv'
  <2>1. /\ CanHappen(message) /\ market' = Happened(message, TRUE)
        /\ depth' = depth
        /\ pending' \in {Row(market'), BadLine}
    BY <1>1 DEF FeedPair, ReadPair
  <2>2. IsFiniteSet(DOMAIN market')
    BY <2>1, ExchangeTurns, TurnKeepsFinite DEF RowsInv
  <2>3. Row(market)' = Row(market')
    BY <2>1 DEF Row, ShownSide
  <2>4. QED
    BY <2>1, <2>2, <2>3 DEF RowsInv
<1>2. ASSUME NEW message \in Messages, LosePair(message)
      PROVE  RowsInv'
  <2>1. /\ CanHappen(message) /\ market' = Happened(message, FALSE)
        /\ depth' = depth /\ pending' = NoLine
    BY <1>2 DEF LosePair, validationVars
  <2>2. IsFiniteSet(DOMAIN market')
    BY <2>1, ExchangeTurns, TurnKeepsFinite DEF RowsInv
  <2>3. QED
    BY <2>1, <2>2 DEF RowsInv
<1>3. ASSUME UNCHANGED market, depth' = depth, pending' \in {pending, NoLine}
      PROVE  RowsInv'
  <2>1. Row(market)' = Row(market)
    BY <1>3 DEF Row, ShownSide
  <2>2. QED
    BY <1>3, <2>1 DEF RowsInv
<1>4. CASE ValidationStep /\ UNCHANGED feedVars
  <2>1. UNCHANGED market /\ depth' = depth /\ pending' \in {pending, NoLine}
    BY <1>4 DEF ValidationStep, CallerUses, Start, ApplySubmission, CompareRow,
            ThrowOnMessage, ThrowOnRow, ReturnSummary, validationVars,
            feedVars, exchangeVars
  <2>2. QED
    BY <1>3, <2>1
<1>5. CASE UNCHANGED allVars
  BY <1>3, <1>5 DEF allVars, validationVars, feedVars, exchangeVars
<1>6. QED
  BY <1>1, <1>2, <1>4, <1>5 DEF FeedNext

LEMMA RowsInvInit == FeedInit => RowsInv
<1> SUFFICES ASSUME FeedInit PROVE RowsInv
  OBVIOUS
<1>1. IsFiniteSet(DOMAIN market)
  BY DEF FeedInit
<1>2. QED
  BY <1>1, DepthsAssumption DEF FeedInit, ValidationInit, RowsInv

LEMMA MarketInvNext ==
  ASSUME MarketInv, [FeedNext]_allVars
  PROVE  MarketInv'
<1>1. ASSUME NEW message \in Messages, FeedPair(message) \/ LosePair(message)
      PROVE  MarketInv'
  <2>1. PICK seen \in BOOLEAN :
          CanHappen(message) /\ market' = Happened(message, seen)
    BY <1>1 DEF FeedPair, LosePair
  <2>2. QED
    BY <2>1, ExchangeTurns
<1>2. CASE UNCHANGED market
  BY <1>2 DEF MarketInv, NotCrossing
<1>3. ValidationStep /\ UNCHANGED feedVars => UNCHANGED market
  BY DEF feedVars, exchangeVars
<1>4. UNCHANGED allVars => UNCHANGED market
  BY DEF allVars, feedVars, exchangeVars
<1>5. QED
  BY <1>1, <1>2, <1>3, <1>4 DEF FeedNext

LEMMA MarketInvInit == FeedInit => MarketInv
<1> SUFFICES ASSUME FeedInit PROVE MarketInv
  OBVIOUS
<1>1. /\ market \in [DOMAIN market -> Listed]
      /\ NotCrossing(market)
      /\ \A id \in DOMAIN market : market[id].quantity > 0
  BY DEF FeedInit
<1>2. Listed \subseteq Placed
  BY QuantitiesAssumption DEF Listed, Placed
<1>3. QED
  BY <1>1, <1>2 DEF MarketInv

LEMMA RowTyped ==
  ASSUME MarketInv, RowsInv
  PROVE  Row(market) \in BookRow
<1>1. "Buy" \in Side /\ "Sell" \in Side
  BY DEF Side
<1>2. /\ ShownSide("Buy", market) \in Seq(Shown)
      /\ ShownSide("Sell", market) \in Seq(Shown)
  BY <1>1, ShownShape
<1>3. QED
  BY <1>2 DEF Row, BookRow

RowsTyped == Row(market) \in BookRow

(* What the validators promise for any two files holds for those of an     *)
(* exchange: its rows are rows, and what it loses is no step of theirs.    *)
THEOREM FeedIsValidation == FeedSpec => ValidationSpec
<1> DEFINE RInv == MarketInv /\ RowsInv
<1>1. FeedInit => ValidationInit /\ RInv
  BY MarketInvInit, RowsInvInit DEF FeedInit
<1>2. RInv /\ [FeedNext]_allVars => RInv'
  BY MarketInvNext, RowsInvNext
<1>3. RInv => RowsTyped
  BY RowTyped DEF RowsTyped
<1>4. ASSUME [FeedNext]_allVars, RowsTyped'
      PROVE  [ValidationNext]_<<vars, replayVars, validationVars>>
  <2>1. ASSUME NEW message \in Messages, FeedPair(message)
        PROVE  ReadFiles
    <3>1. PICK line \in {Row(market'), BadLine} : ReadPair(message, line)
      BY <2>1 DEF FeedPair
    <3>2. Row(market)' = Row(market')
      <4>1. depth' = depth
        BY <3>1 DEF ReadPair
      <4>2. QED
        BY <4>1 DEF Row, ShownSide
    <3>3. line \in BookRow \cup {BadLine}
      BY <1>4, <3>2 DEF RowsTyped
    <3>4. QED
      BY <3>1, <3>3 DEF ReadFiles
  <2>2. ASSUME NEW message \in Messages, LosePair(message)
        PROVE  UNCHANGED <<vars, replayVars, validationVars>>
    BY <2>2 DEF LosePair
  <2>3. UNCHANGED allVars => UNCHANGED <<vars, replayVars, validationVars>>
    BY DEF allVars
  <2>4. QED
    BY <1>4, <2>1, <2>2, <2>3 DEF FeedNext, ValidationNext
<1> HIDE DEF RInv
<1>5. [FeedNext]_allVars /\ RowsTyped'
        => [ValidationNext]_<<vars, replayVars, validationVars>>
  BY <1>4
<1>6. QED
  BY <1>1, <1>2, <1>3, <1>5, PTL DEF FeedSpec, ValidationSpec

----------------------------------------------------------------------------
(* The mirror.                                                             *)

(* The orders of the market whose submissions the feed has.                *)
Seen == {id \in DOMAIN market : market[id].seen}

(* The book holds the orders of ids, with what is left of each.            *)
Mirrors(ids) ==
  /\ DOMAIN order_location = ids
  /\ \A id \in ids : /\ Slot(id).side = market[id].side
                     /\ Slot(id).price = market[id].price
                     /\ Slot(id).quantity = market[id].quantity

(* A submission that is being applied: its order is in the market, but not *)
(* yet in the book, and nothing of it has been traded.                     *)
Arriving ==
  /\ pc = "match"
  /\ order.id \in Seen
  /\ remaining = order.quantity
  /\ market[order.id].side = order.side
  /\ market[order.id].price = order.price
  /\ market[order.id].quantity = order.quantity
  /\ Mirrors(Seen \ {order.id})

Follows == IF pc = "idle" THEN Mirrors(Seen) ELSE Arriving

(* Where the validator stands, as far as the mirror depends on it.         *)
PhaseInv ==
  /\ status \in {"called", "refused"} =>
       validation.rows_compared = 0 /\ pending = NoLine
  /\ status \in {"called", "reading"} /\ validation.rows_compared = 0
       /\ pending = NoLine => Seen = {}
  /\ status \notin {"called", "reading"} => pc = "idle"
  /\ status = "reading" /\ pc # "idle" => pending # NoLine
  /\ pending # NoLine => status = "reading"

MirrorInv ==
  gaps \subseteq {1} /\ status \notin {"called", "refused"} => Follows

FeedInv == BookInv /\ FirstInv /\ MarketInv /\ PhaseInv /\ MirrorInv

(* The order id is the same after a step.                                  *)
SameOrder(id) ==
  /\ Slot(id)'.side = Slot(id).side
  /\ Slot(id)'.price = Slot(id).price
  /\ Slot(id)'.quantity = Slot(id).quantity

(* The book's side of an order that comes, leaves or shrinks.              *)
LEMMA BookKeeps ==
  ASSUME UNCHANGED bookVars
  PROVE  /\ order_location' = order_location
         /\ \A id \in DOMAIN order_location : SameOrder(id)
BY DEF bookVars, SameOrder, Slot

LEMMA BookLoses ==
  ASSUME BookInv, NEW id, CanCancel(id), RemoveOrder(id)
  PROVE  /\ DOMAIN order_location' = DOMAIN order_location \ {id}
         /\ \A j \in DOMAIN order_location \ {id} : SameOrder(j)
<1> DEFINE i == order_location[id]
<1>1. /\ i \in Located /\ Unlinks(i)
      /\ \A s \in Slots : pool'[s].quantity = pool[s].quantity
  BY RemoveOrderUnlinks
<1>2. /\ DOMAIN order_location' = DOMAIN order_location \ {id}
      /\ \A j \in DOMAIN order_location \ {id} :
           order_location'[j] = order_location[j]
  BY DEF RemoveOrder, Erase, Restrict
<1>3. \A j \in DOMAIN order_location : order_location[j] \in Slots
  BY LocatedFacts DEF BookInv
<1>4. QED
  BY <1>1, <1>2, <1>3 DEF Unlinks, SameOrder, Slot

LEMMA BookShrinks ==
  ASSUME BookInv, NEW id, NEW quantity \in Quantities, ReduceOrder(id, quantity)
  PROVE  /\ id \in DOMAIN order_location
         /\ DOMAIN order_location' = DOMAIN order_location
         /\ Slot(id)'.side = Slot(id).side
         /\ Slot(id)'.price = Slot(id).price
         /\ Slot(id)'.quantity = Slot(id).quantity - quantity
         /\ \A j \in DOMAIN order_location \ {id} : SameOrder(j)
<1> DEFINE i == order_location[id]
<1>1. /\ SameLists
      /\ id \in DOMAIN order_location /\ i \in Slots
      /\ pool'[i].quantity = pool[i].quantity - quantity
      /\ \A s \in Slots \ {i} : pool'[s] = pool[s]
  BY ReduceOrderSameLists DEF BookInv
<1>2. \A j \in DOMAIN order_location \ {id} : order_location[j] \in Slots \ {i}
  BY <1>1, LocatedFacts DEF BookInv
<1>3. order_location' = order_location
  BY <1>1 DEF SameLists
<1>4. \A j \in DOMAIN order_location \ {id} : SameOrder(j)
  BY <1>1, <1>2, <1>3 DEF SameOrder, Slot
<1>5. QED
  BY <1>1, <1>3, <1>4 DEF SameLists, Slot

LEMMA BookGains ==
  ASSUME BookInv, RestRemainder
  PROVE  /\ DOMAIN order_location' = DOMAIN order_location \cup {order.id}
         /\ pool'[order_location'[order.id]].side = order.side
         /\ pool'[order_location'[order.id]].price = order.price
         /\ pool'[order_location'[order.id]].quantity = remaining
         /\ \A j \in DOMAIN order_location : SameOrder(j)
<1> DEFINE i == AllocatedSlot
<1>1. order.id \notin DOMAIN order_location
  BY DEF BookInv, SweepAtHead, RestRemainder
<1>2. i \notin Located
  BY <1>1, RestAccounted DEF BookInv
<1>3. /\ DOMAIN order_location' = DOMAIN order_location \cup {order.id}
      /\ order_location'[order.id] = i
      /\ \A j \in DOMAIN order_location : order_location'[j] = order_location[j]
  BY <1>1 DEF RestRemainder, Insert
<1>4. /\ pool'[i].side = order.side
      /\ pool'[i].price = order.price
      /\ pool'[i].quantity = remaining
  BY DEF RestRemainder, AppendedPool
<1>5. ASSUME NEW j \in DOMAIN order_location
      PROVE  SameOrder(j)
  <2> DEFINE s == order_location[j]
  <2>1. s \in Slots /\ s # i /\ pool[s] \in OrderNode
    BY <1>2, LocatedFacts DEF BookInv
  <2>2. /\ pool'[s].side = pool[s].side
        /\ pool'[s].price = pool[s].price
        /\ pool'[s].quantity = pool[s].quantity
    BY <2>1 DEF RestRemainder, AppendedPool, OrderNode
  <2>3. QED
    BY <1>3, <2>2 DEF SameOrder, Slot
<1>6. QED
  BY <1>3, <1>4, <1>5

(* The orders of the feed after a turn of the market.                      *)
LEMMA SeenTurns ==
  ASSUME NEW message, NEW seen \in BOOLEAN
  PROVE  LET id == message.order_id
         IN  /\ Comes(message, seen) =>
                  Seen' = IF seen THEN Seen \cup {id} ELSE Seen
             /\ Leaves(message) => Seen' = Seen \ {id}
             /\ Shrinks(message) => Seen' = Seen
<1> DEFINE id == message.order_id
<1>1. ASSUME Comes(message, seen)
      PROVE  Seen' = IF seen THEN Seen \cup {id} ELSE Seen
  BY <1>1 DEF Comes, OthersStay, Seen
<1>2. ASSUME Leaves(message)
      PROVE  Seen' = Seen \ {id}
  BY <1>2 DEF Leaves, OthersStay, Seen
<1>3. ASSUME Shrinks(message)
      PROVE  Seen' = Seen
  BY <1>3 DEF Shrinks, OthersStay, Seen
<1>4. QED
  BY <1>1, <1>2, <1>3

LEMMA NewOrderMirrored ==
  ASSUME Mirrors(Seen), NEW message \in Messages, NewOrder(message),
         Comes(message, TRUE)
  PROVE  pc' # "idle" /\ Arriving'
<1> DEFINE id == message.order_id
           o == [id |-> id, price |-> message.price,
                 side |-> lobster_direction_to_side(message.direction),
                 quantity |-> message.size]
<1>1. /\ id \notin Seen /\ Seen' = Seen \cup {id}
      /\ message.size > 0
      /\ OthersStay(id)
      /\ DOMAIN order_location = Seen
  BY SeenTurns DEF Comes, Seen, Mirrors
<1>2. message.size \in Int
  BY MessagesAssumption, QuantitiesAssumption
<1>3. AddOrder(o)
  BY <1>1, <1>2 DEF NewOrder, RejectOrder
<1>4. /\ pc' = "match" /\ order' = o /\ remaining' = message.size
      /\ order_location' = order_location
      /\ \A j \in DOMAIN order_location : SameOrder(j)
  BY <1>3, BookKeeps DEF AddOrder
<1>5. /\ order'.id = id
      /\ order'.side = lobster_direction_to_side(message.direction)
      /\ order'.price = message.price
      /\ order'.quantity = message.size
  BY <1>4
<1>6. /\ market'[id].side = lobster_direction_to_side(message.direction)
      /\ market'[id].price = message.price
      /\ market'[id].quantity = message.size
  BY DEF Comes
<1>7. Mirrors(Seen \ {order.id})'
  <2>1. /\ Seen' \ {order'.id} = Seen
        /\ \A j \in Seen : market'[j] = market[j]
    BY <1>1, <1>5 DEF OthersStay, Seen
  <2>2. QED
    BY <1>1, <1>4, <2>1 DEF Mirrors, SameOrder
<1>8. QED
  BY <1>1, <1>4, <1>5, <1>6, <1>7 DEF Arriving

(* The book and the market lose the same order, or the market one that the *)
(* feed does not have.                                                     *)
LEMMA LeavingMirrored ==
  ASSUME Mirrors(Seen), NEW message, Leaves(message),
         LET id == message.order_id
         IN  /\ DOMAIN order_location' = DOMAIN order_location \ {id}
             /\ \A j \in DOMAIN order_location \ {id} : SameOrder(j)
  PROVE  Mirrors(Seen)'
<1> DEFINE id == message.order_id
<1>1. Seen' = Seen \ {id} /\ \A j \in Seen \ {id} : market'[j] = market[j]
  BY SeenTurns DEF Leaves, OthersStay, Seen
<1>2. QED
  BY <1>1 DEF Mirrors, SameOrder

LEMMA ReductionMirrored ==
  ASSUME BookInv, Mirrors(Seen), NEW message \in Messages,
         reduce_order(message.order_id, message.size),
         Leaves(message) \/ Shrinks(message), MarketInv
  PROVE  pc' = "idle" /\ Mirrors(Seen)'
<1> DEFINE id == message.order_id
           n == message.size
<1>1. /\ n \in Quantities /\ n \in Int /\ n > 0
      /\ id \in DOMAIN market
      /\ DOMAIN order_location = Seen
      /\ id \in Seen => Slot(id).quantity = market[id].quantity
  BY MessagesAssumption, QuantitiesAssumption
     DEF Leaves, Shrinks, MarketInv, Mirrors
<1>2. pc' = "idle"
  BY ReduceAddsNone
<1>3. CASE ReduceOrder(id, n)
  <2>1. /\ id \in Seen
        /\ n < Slot(id).quantity
    BY <1>1, <1>3, ReduceOrderSameLists DEF BookInv, Slot
  <2>2. Shrinks(message)
    BY <1>1, <2>1 DEF Leaves
  <2>3. Seen' = Seen
    BY <2>2, SeenTurns
  <2>4. /\ market'[id].side = market[id].side
        /\ market'[id].price = market[id].price
        /\ market'[id].quantity = market[id].quantity - n
        /\ \A j \in Seen \ {id} : market'[j] = market[j]
    BY <2>2 DEF Shrinks, OthersStay, Seen
  <2>5. /\ DOMAIN order_location' = Seen
        /\ Slot(id)'.side = Slot(id).side
        /\ Slot(id)'.price = Slot(id).price
        /\ Slot(id)'.quantity = Slot(id).quantity - n
        /\ \A j \in Seen \ {id} : SameOrder(j)
    BY <1>1, <1>3, BookShrinks
  <2>6. Mirrors(Seen)'
    BY <2>1, <2>3, <2>4, <2>5 DEF Mirrors, SameOrder
  <2>7. QED
    BY <1>2, <2>6
<1>4. CASE ReduceToNothing(id, n)
  <2>1. /\ id \in Seen /\ n = Slot(id).quantity
        /\ CanCancel(id) /\ RemoveOrder(id)
    BY <1>1, <1>4 DEF ReduceToNothing, ReduceResult
  <2>2. Leaves(message)
    BY <1>1, <2>1 DEF Shrinks
  <2>3. QED
    BY <1>2, <2>1, <2>2, BookLoses, LeavingMirrored
<1>5. CASE ReduceRefused(id, n)
  <2>1. id \notin Seen
    <3>1. SUFFICES ASSUME id \in Seen PROVE FALSE
      OBVIOUS
    <3>2. n <= Slot(id).quantity /\ Slot(id).quantity \in Int
      BY <1>1, <3>1 DEF Leaves, Shrinks, MarketInv, Placed
    <3>3. ReduceResult(id, n) \in {"Reduced", "Removed"}
      BY <1>1, <3>1, <3>2 DEF ReduceResult
    <3>4. CanCancel(id)
      <4>1. order_location[id] \in Located
        BY <1>1, <3>1, LocatedFacts DEF BookInv
      <4>2. QED
        BY <1>1, <3>1, <4>1 DEF BookInv, LevelsThreaded, CanCancel, Slot
    <3>5. QED
      BY <1>5, <3>3, <3>4 DEF ReduceRefused
  <2>2. /\ order_location' = order_location
        /\ \A j \in DOMAIN order_location : SameOrder(j)
    BY <1>5, BookKeeps DEF ReduceRefused, vars
  <2>3. CASE Leaves(message)
    BY <1>1, <1>2, <2>1, <2>2, <2>3, LeavingMirrored
  <2>4. CASE Shrinks(message)
    <3>1. Seen' = Seen /\ \A j \in Seen : market'[j] = market[j]
      BY <2>1, <2>4, SeenTurns DEF Shrinks, OthersStay, Seen
    <3>2. QED
      BY <1>2, <2>2, <3>1 DEF Mirrors, SameOrder
  <2>5. QED
    BY <2>3, <2>4
<1>6. QED
  BY <1>3, <1>4, <1>5 DEF reduce_order

LEMMA DeletionMirrored ==
  ASSUME BookInv, Mirrors(Seen), NEW message, Deletion(message),
         Leaves(message)
  PROVE  pc' = "idle" /\ Mirrors(Seen)'
<1> DEFINE id == message.order_id
<1>1. CASE CancelOrder(id)
  <2>1. CanCancel(id) /\ RemoveOrder(id) /\ pc' = "idle"
    BY <1>1 DEF CancelOrder, RemoveOrder, callVars
  <2>2. QED
    BY <2>1, BookLoses, LeavingMirrored
<1>2. CASE CancelMissing(id)
  <2>1. id \notin DOMAIN order_location
    <3>1. SUFFICES ASSUME id \in DOMAIN order_location PROVE CanCancel(id)
      BY <1>2 DEF CancelMissing
    <3>2. order_location[id] \in Located
      BY <3>1, LocatedFacts DEF BookInv
    <3>3. QED
      BY <3>1, <3>2 DEF BookInv, LevelsThreaded, CanCancel, Slot
  <2>2. /\ order_location' = order_location
        /\ \A j \in DOMAIN order_location : SameOrder(j)
        /\ pc' = "idle"
    BY <1>2, BookKeeps DEF CancelMissing, vars, callVars
  <2>3. QED
    BY <2>1, <2>2, LeavingMirrored
<1>3. QED
  BY <1>1, <1>2 DEF Deletion

LEMMA ApplyReads ==
  ASSUME NEW message, Apply(message)
  PROVE  pc = "idle" /\ status = "reading" /\ status' = "reading"
BY DEF Apply, NewOrder, PartialCancel, CountPartialCancel, Deletion,
       Execution, CountExecution, Skipped, ReadsRow

LEMMA ApplyMirrored ==
  ASSUME BookInv, MarketInv, Mirrors(Seen),
         NEW message \in Messages, Apply(message), MarketTurns(message, TRUE)
  PROVE  Follows'
<1>1. CASE NewOrder(message)
  <2>1. Comes(message, TRUE)
    <3>1. message.type = 1
      BY <1>1 DEF NewOrder
    <3>2. /\ ~(message.type \in 2 .. 4)
          /\ ~(message.type \in {2, 4})
          /\ ~(message.type \in 5 .. 7)
      BY <3>1
    <3>3. QED
      BY <3>2 DEF MarketTurns
  <2>2. QED
    BY <1>1, <2>1, NewOrderMirrored DEF Follows
<1>2. CASE PartialCancel(message)
  <2>1. Leaves(message) \/ Shrinks(message)
    BY <1>2 DEF PartialCancel, CountPartialCancel, MarketTurns
  <2>2. QED
    BY <1>2, <2>1, ReductionMirrored DEF PartialCancel, Follows
<1>3. CASE Deletion(message)
  <2>1. Leaves(message)
    BY <1>3 DEF Deletion, MarketTurns
  <2>2. QED
    BY <1>3, <2>1, DeletionMirrored DEF Follows
<1>4. CASE Execution(message)
  <2>1. Leaves(message) \/ Shrinks(message)
    BY <1>4 DEF Execution, CountExecution, MarketTurns
  <2>2. QED
    BY <1>4, <2>1, ReductionMirrored DEF Execution, Follows
<1>5. CASE Skipped(message)
  <2>1. market' = market
    <3>1. message.type \in 5 .. 7
      BY <1>5 DEF Skipped
    <3>2. /\ ~(message.type \in 2 .. 4)
          /\ ~(message.type \in {2, 4})
          /\ message.type # 1
      BY <3>1
    <3>3. QED
      BY <3>1, <3>2 DEF MarketTurns
  <2>2. pc' = "idle" /\ UNCHANGED bookVars
    BY <1>5, ApplyReads DEF Apply, Skipped, vars, callVars
  <2>3. QED
    BY <2>1, <2>2 DEF Follows, Mirrors, Seen, bookVars, Slot
<1>6. QED
  BY <1>1, <1>2, <1>3, <1>4, <1>5 DEF Apply

LEMMA LinesDiffer ==
  ASSUME NEW orders
  PROVE  Row(orders) # NoLine /\ BadLine # NoLine
<1>1. "bids" \in DOMAIN Row(orders)
  BY DEF Row
<1>2. "illegible" \in DOMAIN BadLine
  BY DEF BadLine
<1>3. DOMAIN NoLine = {}
  BY DEF NoLine
<1>4. QED
  BY <1>1, <1>2, <1>3

LEMMA FeedPairInv ==
  ASSUME FeedInv, NEW message \in Messages, FeedPair(message)
  PROVE  MarketInv' /\ PhaseInv' /\ MirrorInv'
<1>1. /\ Apply(message)
      /\ pc = "idle" /\ status = "reading" /\ status' = "reading"
      /\ gaps' = gaps /\ validation' = validation
      /\ CanHappen(message) /\ market' = Happened(message, TRUE)
  BY ApplyReads DEF FeedPair, ReadPair
<1>2. MarketTurns(message, TRUE) /\ MarketInv'
  BY <1>1, ExchangeTurns DEF FeedInv
<1>3. PhaseInv'
  <2>1. pending' # NoLine
    BY LinesDiffer DEF FeedPair, ReadPair
  <2>2. QED
    BY <1>1, <2>1 DEF PhaseInv
<1>4. MirrorInv'
  <2>1. SUFFICES ASSUME gaps \subseteq {1} PROVE Follows'
    BY <1>1 DEF MirrorInv
  <2>2. Mirrors(Seen)
    BY <1>1, <2>1 DEF FeedInv, MirrorInv, Follows
  <2>3. QED
    BY <1>1, <1>2, <2>2, ApplyMirrored DEF FeedInv
<1>5. QED
  BY <1>2, <1>3, <1>4

(* What is lost before the first row is an order the feed does not have.   *)
LEMMA LosePairInv ==
  ASSUME FeedInv, NEW message \in Messages, LosePair(message)
  PROVE  MarketInv' /\ PhaseInv' /\ MirrorInv'
<1>1. /\ status = "reading" /\ pc = "idle" /\ pending = NoLine
      /\ UNCHANGED <<status, pc, pending, validation, bookVars>>
      /\ CanHappen(message) /\ market' = Happened(message, FALSE)
      /\ gaps' = gaps \cup {validation.rows_compared + 1}
  BY DEF LosePair, ReadsRow, vars, callVars, replayVars, validationVars,
         NextRow
<1>2. MarketTurns(message, FALSE) /\ MarketInv'
  BY <1>1, ExchangeTurns DEF FeedInv
<1>3. ASSUME Seen = {} PROVE Seen' = {}
  BY <1>2, <1>3, SeenTurns DEF MarketTurns, Seen
<1>4. PhaseInv'
  BY <1>1, <1>3 DEF FeedInv, PhaseInv
<1>5. MirrorInv'
  <2>1. SUFFICES ASSUME gaps' \subseteq {1} PROVE Follows'
    BY DEF MirrorInv
  <2>2. validation.rows_compared = 0
    BY <1>1, <2>1 DEF FeedInv, FirstInv
  <2>3. Seen = {} /\ Seen' = {}
    BY <1>1, <1>3, <2>2 DEF FeedInv, PhaseInv
  <2>4. Mirrors(Seen)
    BY <1>1, <2>1 DEF FeedInv, MirrorInv, Follows
  <2>5. Mirrors(Seen)'
    BY <1>1, <2>3, <2>4 DEF Mirrors, bookVars
  <2>6. QED
    BY <1>1, <2>5 DEF Follows
<1>6. QED
  BY <1>2, <1>4, <1>5

(* A submission that arrives meets no order: its market does not cross.    *)
LEMMA ArrivingMeetsNone ==
  ASSUME BookInv, MarketInv, Arriving
  PROVE  ~MatchLevel
<1> DEFINE opposite == Opposite(order.side)
<1>1. SUFFICES ASSUME NEW p \in DOMAIN levels[opposite], Crosses(order, p)
               PROVE  FALSE
  BY DEF MatchLevel
<1>2. opposite \in Side /\ opposite # order.side
  BY DEF BookInv, TypeOK, Arriving, Order, Side, Opposite
<1>3. PICK s \in Slots : OnLevel(s, opposite, p)
  <2>1. levels[opposite][p].count # 0
    BY <1>2 DEF BookInv, NothingExhausted, Arriving
  <2>2. Cardinality({s \in Slots : OnLevel(s, opposite, p)}) # 0
    BY <1>2, <2>1, LevelFacts DEF BookInv
  <2>3. {s \in Slots : OnLevel(s, opposite, p)} # {}
    BY <2>2, FS_EmptySet
  <2>4. QED
    BY <2>3
<1> DEFINE id == pool[s].id
<1>4. /\ id \in DOMAIN order_location
      /\ Slot(id).side = opposite /\ Slot(id).price = p
  BY <1>3, LocatedFacts DEF OnLevel, Slot, BookInv
<1>5. /\ id \in DOMAIN market
      /\ market[id].side = opposite /\ market[id].price = p
      /\ order.id \in DOMAIN market
      /\ market[order.id].side = order.side
      /\ market[order.id].price = order.price
  BY <1>4 DEF Arriving, Mirrors, Seen
<1>6. ~Crosses(market[order.id], market[id].price)
  BY <1>2, <1>5 DEF MarketInv, NotCrossing
<1>7. QED
  BY <1>1, <1>5, <1>6 DEF Crosses

LEMMA ArrivingRests ==
  ASSUME BookInv, MarketInv, Arriving, RestRemainder, UNCHANGED market
  PROVE  pc' = "idle" /\ Mirrors(Seen)'
<1>1. Seen' = Seen /\ pc' = "idle"
  BY DEF Seen, RestRemainder
<1>2. /\ DOMAIN order_location' = Seen
      /\ pool'[order_location'[order.id]].side = order.side
      /\ pool'[order_location'[order.id]].price = order.price
      /\ pool'[order_location'[order.id]].quantity = remaining
      /\ \A j \in Seen \ {order.id} : SameOrder(j)
  BY BookGains DEF Arriving, Mirrors
<1>3. QED
  BY <1>1, <1>2 DEF Arriving, Mirrors, SameOrder, Slot

LEMMA SubmissionMirrored ==
  ASSUME BookInv, MarketInv, Follows, CallStep, UNCHANGED market
  PROVE  Follows'
<1>1. pc # "idle"
  BY DEF CallStep, MatchLevel, FillPart, FillWhole, EndLevel, ReturnFilled,
         RestRemainder
<1>2. Arriving
  BY <1>1 DEF Follows
<1>3. remaining # 0
  <2>1. order.id \in DOMAIN market
    BY <1>2 DEF Arriving, Seen
  <2>2. QED
    BY <1>2, <2>1 DEF Arriving, MarketInv
<1>4. RestRemainder
  BY <1>2, <1>3, ArrivingMeetsNone
     DEF CallStep, FillPart, FillWhole, EndLevel, ReturnFilled, Arriving
<1>5. QED
  BY <1>2, <1>4, ArrivingRests DEF Follows

LEMMA SameMarketInv ==
  ASSUME MarketInv, UNCHANGED market
  PROVE  MarketInv'
BY DEF MarketInv, NotCrossing

LEMMA SameFollows ==
  ASSUME Follows, UNCHANGED <<vars, market>>
  PROVE  Follows'
BY DEF Follows, Arriving, Mirrors, Seen, Slot, vars, bookVars, callVars

(* The book that is taken is empty, as is what the feed has told of.       *)
LEMMA StartInv ==
  ASSUME FeedInv, Start, UNCHANGED feedVars
  PROVE  PhaseInv' /\ MirrorInv'
<1>1. /\ status = "called" /\ pc = "idle" /\ pc' = "idle"
      /\ status' \in {"reading", "refused"}
      /\ status' = "reading" => order_count = 0
      /\ UNCHANGED <<vars, market, pending, validation>>
  BY DEF Start, Accepts, validationVars, feedVars, exchangeVars, vars, callVars
<1>2. /\ Seen' = Seen /\ Seen = {}
      /\ validation.rows_compared = 0 /\ pending = NoLine
  BY <1>1 DEF Seen, FeedInv, PhaseInv
<1>3. PhaseInv'
  BY <1>1, <1>2 DEF PhaseInv
<1>4. MirrorInv'
  <2>1. SUFFICES ASSUME status' = "reading" PROVE Mirrors(Seen)'
    BY <1>1 DEF MirrorInv, Follows
  <2>2. DOMAIN order_location = {}
    BY <1>1, <2>1, IndexFinite, FS_EmptySet DEF order_count, FeedInv, BookInv
  <2>3. QED
    BY <1>1, <1>2, <2>2 DEF Mirrors, vars, bookVars
<1>5. QED
  BY <1>3, <1>4

LEMMA CallerUsesInv ==
  ASSUME FeedInv, CallerUses, UNCHANGED feedVars
  PROVE  PhaseInv' /\ MirrorInv'
<1>1. /\ status = "called" /\ status' = "called"
      /\ UNCHANGED <<pending, validation, market>>
  BY DEF CallerUses, replayVars, validationVars, feedVars, exchangeVars
<1>2. QED
  BY <1>1 DEF FeedInv, PhaseInv, MirrorInv, Seen

LEMMA ApplySubmissionInv ==
  ASSUME FeedInv, ApplySubmission, UNCHANGED feedVars
  PROVE  PhaseInv' /\ MirrorInv'
<1>1. /\ status = "reading" /\ status' = "reading"
      /\ UNCHANGED <<pending, validation, market, gaps>>
      /\ CallStep
  BY DEF ApplySubmission, NewOrderMatches, NewOrderReturns, replayVars,
         validationVars, feedVars, exchangeVars, CallStep
<1>2. pc # "idle"
  BY <1>1 DEF CallStep, MatchLevel, FillPart, FillWhole, EndLevel,
              ReturnFilled, RestRemainder
<1>3. pending # NoLine
  BY <1>1, <1>2 DEF FeedInv, PhaseInv
<1>4. PhaseInv'
  BY <1>1, <1>3 DEF PhaseInv
<1>5. MirrorInv'
  <2>1. SUFFICES ASSUME gaps \subseteq {1} PROVE Follows'
    BY <1>1 DEF MirrorInv
  <2>2. Follows
    BY <1>1, <2>1 DEF FeedInv, MirrorInv
  <2>3. QED
    BY <1>1, <2>2, SubmissionMirrored DEF FeedInv
<1>6. QED
  BY <1>4, <1>5

(* Steps that only turn the validator's own pages.                         *)
LEMMA PageInv ==
  ASSUME FeedInv, UNCHANGED feedVars,
         \/ CompareRow
         \/ ThrowOnMessage
         \/ ThrowOnRow
         \/ ReturnSummary
  PROVE  PhaseInv' /\ MirrorInv'
<1>1. /\ UNCHANGED vars /\ UNCHANGED <<market, gaps>>
      /\ pc = "idle" /\ status \notin {"called", "refused"}
      /\ \/ status' \in {"thrown", "returned"} /\ pending' = NoLine
         \/ CompareRow /\ status' = status
  <2>1. CASE CompareRow
    BY <2>1
    DEF CompareRow, FeedInv, PhaseInv, replayVars, feedVars, exchangeVars
  <2>2. CASE ThrowOnMessage \/ ReturnSummary
    BY <2>2 DEF ThrowOnMessage, ReturnSummary, Throw, ReadsRow, Return,
                feedVars, exchangeVars, validationVars
  <2>3. CASE ThrowOnRow
    BY <2>3, LinesDiffer
    DEF ThrowOnRow, FeedInv, PhaseInv, feedVars, exchangeVars
  <2>4. QED
    BY <2>1, <2>2, <2>3
<1>2. PhaseInv'
  <2>1. CASE status' \in {"thrown", "returned"} /\ pending' = NoLine
    BY <1>1, <2>1 DEF PhaseInv, vars, callVars
  <2>2. CASE CompareRow /\ status' = status
    <3>1. validation'.rows_compared # 0
      BY <2>2, CompareRowMembers DEF FeedInv, FirstInv
    <3>2. pending' = NoLine
      BY <2>2 DEF CompareRow
    <3>3. QED
      BY <1>1, <2>2, <3>1, <3>2 DEF FeedInv, PhaseInv, vars, callVars
  <2>3. QED
    BY <1>1, <2>1, <2>2
<1>3. MirrorInv'
  <2>1. SUFFICES ASSUME gaps \subseteq {1} PROVE Follows'
    BY <1>1 DEF MirrorInv
  <2>2. Follows
    BY <1>1, <2>1 DEF FeedInv, MirrorInv
  <2>3. QED
    BY <1>1, <2>2, SameFollows
<1>4. QED
  BY <1>2, <1>3

LEMMA FeedConcludes == [FeedNext]_allVars => Concludes
BY DEF FeedNext, FeedPair, ReadPair, LosePair, ValidationStep, CallerUses,
       Start, ApplySubmission, ThrowOnMessage, ThrowOnRow, ReturnSummary,
       allVars, validationVars, Concludes

LEMMA FeedInvNext == FeedInv /\ [FeedNext]_allVars => FeedInv'
<1> SUFFICES ASSUME FeedInv, [FeedNext]_allVars PROVE FeedInv'
  OBVIOUS
<1>1. BookInv' /\ FirstInv'
  BY FeedIsCall, InvNext, FeedConcludes, FirstInvNext DEF FeedInv
<1>2. MarketInv' /\ PhaseInv' /\ MirrorInv'
  <2>1. CASE \E message \in Messages : FeedPair(message) \/ LosePair(message)
    BY <2>1, FeedPairInv, LosePairInv
  <2>2. CASE ValidationStep /\ UNCHANGED feedVars
    <3>1. MarketInv'
      BY <2>2, SameMarketInv DEF FeedInv, feedVars, exchangeVars
    <3>2. QED
      BY <2>2, <3>1, StartInv, CallerUsesInv, ApplySubmissionInv, PageInv
      DEF ValidationStep
  <2>3. CASE UNCHANGED allVars
    <3>1. UNCHANGED <<vars, market, gaps, status, pending, validation>>
      BY <2>3 DEF allVars, replayVars, validationVars, feedVars, exchangeVars
    <3>2. MarketInv'
      BY <3>1, SameMarketInv DEF FeedInv
    <3>3. PhaseInv'
      BY <3>1 DEF FeedInv, PhaseInv, Seen, vars, callVars
    <3>4. MirrorInv'
      BY <3>1, SameFollows DEF FeedInv, MirrorInv
    <3>5. QED
      BY <3>2, <3>3, <3>4
  <2>4. QED
    BY <2>1, <2>2, <2>3 DEF FeedNext
<1>3. QED
  BY <1>1, <1>2 DEF FeedInv

LEMMA FeedInvInit == FeedInit => FeedInv
<1> SUFFICES ASSUME FeedInit PROVE FeedInv
  OBVIOUS
<1>1. BookInv /\ FirstInv
  BY InvInit, EmptyValidationFirst DEF FeedInit, ValidationInit, FirstInv
<1>2. \A id \in DOMAIN market : ~market[id].seen
  BY DEF FeedInit
<1>4. MarketInv
  BY MarketInvInit
<1>5. PhaseInv /\ MirrorInv
  BY <1>2, EmptyValidationFirst
     DEF FeedInit, ValidationInit, Init, PhaseInv, MirrorInv, Seen
<1>6. QED
  BY <1>1, <1>4, <1>5 DEF FeedInv

(* For every exchange, every feed of it and every number of orders that    *)
(* rest before its first row, the book of validate_lobster_replay mirrors  *)
(* what the feed has told of, up to the first message that is missing.     *)
THEOREM FeedMirrorsExchange == FeedSpec => []MirrorsExchange
<1>1. FeedInv => MirrorsExchange
  BY DEF FeedInv, MirrorInv, Follows, Mirrors, Seen, MirrorsExchange
<1>2. QED
  BY <1>1, FeedInvInit, FeedInvNext, PTL DEF FeedSpec

(* A book that holds the whole market shows the rows of the exchange.      *)
LEMMA MirrorShows ==
  ASSUME BookInv, MarketInv, RowsInv, Mirrors(DOMAIN market), NEW side \in Side
  PROVE  ViewOf(side, ShownSide(side, market), depth)
<1> DEFINE rows == ShownSide(side, market)
           resting == [id \in RestingOn(side) |-> Slot(id).quantity]
<1>1. \A id \in DOMAIN market : /\ id \in DOMAIN order_location
                                /\ Slot(id).side = market[id].side
                                /\ Slot(id).price = market[id].price
                                /\ Slot(id).quantity = market[id].quantity
  BY DEF Mirrors
<1>2. DOMAIN order_location = DOMAIN market
  BY DEF Mirrors
<1>3. \A p : RestingAt(side, p) = PlacedAt(side, p)
  BY <1>1, <1>2 DEF RestingAt, RestingOn, PlacedAt
<1>4. \A id \in DOMAIN market : market[id].price \in Prices
  BY DEF MarketInv, Placed
<1>5. RestingPrices(side) = PlacedPrices(side)
  <2>1. ASSUME NEW p \in RestingPrices(side) PROVE p \in PlacedPrices(side)
    <3>1. PICK id \in RestingOn(side) : p = Slot(id).price
      BY <2>1 DEF RestingPrices
    <3>2. id \in PlacedAt(side, p) /\ p \in Prices
      BY <1>1, <1>2, <1>4, <3>1 DEF RestingOn, PlacedAt
    <3>3. QED
      BY <3>2 DEF PlacedPrices
  <2>2. ASSUME NEW p \in PlacedPrices(side) PROVE p \in RestingPrices(side)
    <3>1. PICK id \in PlacedAt(side, p) : TRUE
      BY <2>2 DEF PlacedPrices
    <3>2. id \in RestingAt(side, p)
      BY <1>3, <3>1
    <3>3. QED
      BY <3>2 DEF RestingAt, RestingPrices
  <2>3. QED
    BY <2>1, <2>2
<1>6. ASSUME NEW p
      PROVE  SumFunctionOnSet(resting, RestingAt(side, p))
               = SumFunctionOnSet(PlacedQuantity, PlacedAt(side, p))
  <2> DEFINE at == PlacedAt(side, p)
  <2>1. IsFiniteSet(at)
    BY FS_Subset DEF RowsInv, PlacedAt
  <2>2. \A id \in at : resting[id] = PlacedQuantity[id]
    BY <1>1, <1>3 DEF RestingAt, PlacedAt, PlacedQuantity
  <2>3. RestingAt(side, p) = at
    BY <1>3
  <2> HIDE DEF at, resting
  <2>4. QED
    BY <2>1, <2>2, <2>3, SumSame DEF at
<1>7. /\ Len(rows) = Min({depth, Cardinality(RestingPrices(side))})
      /\ \A i \in DOMAIN rows :
           /\ rows[i].price \in RestingPrices(side)
           /\ rows[i].quantity =
                SumFunctionOnSet(resting, RestingAt(side, rows[i].price))
           /\ Cardinality(AheadOfPrice(side, RestingPrices(side), rows[i].price))
                = i - 1
  <2> DEFINE book == PlacedPrices(side)
             total(p) == SumFunctionOnSet(PlacedQuantity, PlacedAt(side, p))
             sum(p) == SumFunctionOnSet(resting, RestingAt(side, p))
  <2>1. /\ Len(rows) = Min({depth, Cardinality(book)})
        /\ \A i \in DOMAIN rows :
             /\ rows[i].price \in book
             /\ rows[i].quantity = total(rows[i].price)
             /\ Cardinality(AheadOfPrice(side, book, rows[i].price)) = i - 1
    BY ShownShape
  <2>2. \A p : sum(p) = total(p)
    BY <1>6
  <2>3. book = RestingPrices(side)
    BY <1>5
  <2> HIDE DEF rows, book, total, sum
  <2>4. /\ Len(rows) = Min({depth, Cardinality(book)})
        /\ \A i \in DOMAIN rows :
             /\ rows[i].price \in book
             /\ rows[i].quantity = sum(rows[i].price)
             /\ Cardinality(AheadOfPrice(side, book, rows[i].price)) = i - 1
    BY <2>1, <2>2
  <2>5. QED
    BY <2>3, <2>4 DEF sum
<1>8. QED
  BY <1>7 DEF ViewOf, RestingPrices, RestingOn, RestingAt, AheadOfPrice

----------------------------------------------------------------------------
(* No mismatch before something was missing.                               *)

(* A feed that lacks nothing has told of the whole market; what it lacks,  *)
(* it lacks before a row that is not compared yet, or was; and the first   *)
(* mismatch comes after such a row.                                        *)
AlarmInv ==
  /\ gaps = {} => Seen = DOMAIN market
  /\ validation.first_mismatch # NoMismatch =>
       \E row \in gaps : row <= validation.first_mismatch.row
  /\ status \in {"called", "reading"} =>
       \A row \in gaps : row \in Nat /\ row <= NextRow

(* What a message does to the market does not hide any of it.              *)
LEMMA AllSeenTurns ==
  ASSUME NEW message, MarketTurns(message, TRUE), Seen = DOMAIN market
  PROVE  Seen' = DOMAIN market'
<1>1. ASSUME Comes(message, TRUE)
      PROVE  Seen' = DOMAIN market'
  BY <1>1, SeenTurns DEF Comes
<1>2. ASSUME Leaves(message)
      PROVE  Seen' = DOMAIN market'
  BY <1>2, SeenTurns DEF Leaves
<1>3. ASSUME Shrinks(message)
      PROVE  Seen' = DOMAIN market'
  BY <1>3, SeenTurns DEF Shrinks
<1>4. ASSUME market' = market
      PROVE  Seen' = DOMAIN market'
  BY <1>4 DEF Seen
<1>5. QED
  BY <1>1, <1>2, <1>3, <1>4 DEF MarketTurns

(* A row of a feed that lacks nothing agrees with the book.                *)
LEMMA RowOfAll ==
  ASSUME FeedInv, ViewInv, RowsInv, AlarmInv, CompareRow, gaps = {}
  PROVE  RowAgrees(BidsCompared, AsksCompared)
<1>1. /\ pc = "idle" /\ pending \notin {NoLine, BadLine}
      /\ status \notin {"called", "refused"}
  BY DEF CompareRow, FeedInv, PhaseInv
<1>2. Mirrors(DOMAIN market)
  BY <1>1 DEF FeedInv, MirrorInv, Follows, AlarmInv
<1>3. /\ pending.bids = ShownSide("Buy", market)
      /\ pending.asks = ShownSide("Sell", market)
  BY <1>1 DEF RowsInv, Row
<1>4. "Buy" \in Side /\ "Sell" \in Side
  BY DEF Side
<1>5. /\ ViewOf("Buy", pending.bids, depth)
      /\ ViewOf("Sell", pending.asks, depth)
  BY <1>2, <1>3, <1>4, MirrorShows DEF FeedInv
<1>6. LineInv
  BY RowTyped DEF FeedInv, RowsInv, LineInv
<1>7. QED
  BY <1>5, <1>6, RowVerdict

LEMMA CompareRowAlarm ==
  ASSUME FeedInv, ViewInv, RowsInv, AlarmInv, CompareRow, UNCHANGED feedVars
  PROVE  AlarmInv'
<1> DEFINE v == validation
           agrees == RowAgrees(BidsCompared, AsksCompared)
           at == MismatchAt(BidsCompared, AsksCompared)
<1>1. /\ gaps' = gaps /\ market' = market /\ Seen' = Seen /\ status' = status
      /\ v.rows_compared \in Nat
      /\ v'.rows_compared = v.rows_compared + 1
  <2>1. FirstInv
    BY DEF FeedInv
  <2>2. v'.rows_compared = v.rows_compared + 1
    BY <2>1, CompareRowMembers
  <2>3. gaps' = gaps /\ market' = market /\ Seen' = Seen /\ status' = status
    BY DEF CompareRow, feedVars, exchangeVars, replayVars, Seen
  <2>4. QED
    BY <2>1, <2>2, <2>3 DEF FirstInv
<1>2. v'.first_mismatch = IF agrees \/ v.first_mismatch # NoMismatch
                          THEN v.first_mismatch ELSE at
  <2>1. FirstInv
    BY DEF FeedInv
  <2>2. v'.first_mismatch = first_mismatch(BidsCompared, AsksCompared)
    BY <2>1, CompareRowMembers
  <2>3. QED
    BY <2>2 DEF first_mismatch
<1>3. at.row = v.rows_compared + 1
  BY DEF MismatchAt
<1>4. status \in {"called", "reading"}
  BY DEF CompareRow, FeedInv, PhaseInv
<1>5. ASSUME v'.first_mismatch # NoMismatch
      PROVE  \E row \in gaps' : row <= v'.first_mismatch.row
  <2>1. CASE v'.first_mismatch = v.first_mismatch
    BY <1>1, <1>5, <2>1 DEF AlarmInv
  <2>2. CASE v'.first_mismatch = at /\ ~agrees
    <3>1. gaps # {}
      BY <2>2, RowOfAll
    <3>2. QED
      BY <1>1, <1>3, <1>4, <2>2, <3>1 DEF AlarmInv, NextRow
  <2>3. QED
    BY <1>2, <2>1, <2>2
<1>6. \A row \in gaps' : row \in Nat /\ row <= NextRow'
  BY <1>1, <1>4 DEF AlarmInv, NextRow
<1>7. QED
  BY <1>1, <1>5, <1>6 DEF AlarmInv

LEMMA AlarmInvNext ==
  ASSUME FeedInv, ViewInv, RowsInv, AlarmInv, [FeedNext]_allVars
  PROVE  AlarmInv'
<1>1. ASSUME NEW message \in Messages, FeedPair(message)
      PROVE  AlarmInv'
  <2>1. /\ gaps' = gaps /\ validation' = validation
        /\ Apply(message)
        /\ CanHappen(message) /\ market' = Happened(message, TRUE)
    BY <1>1 DEF FeedPair, ReadPair
  <2>2. status = "reading"
    BY <2>1, ApplyReads
  <2>3. MarketTurns(message, TRUE)
    BY <2>1, ExchangeTurns DEF FeedInv
  <2>4. gaps' = {} => Seen' = DOMAIN market'
    BY <2>1, <2>3, AllSeenTurns DEF AlarmInv
  <2>5. QED
    BY <2>1, <2>2, <2>4 DEF AlarmInv, NextRow
<1>2. ASSUME NEW message \in Messages, LosePair(message)
      PROVE  AlarmInv'
  <2>1. /\ gaps' = gaps \cup {NextRow} /\ validation' = validation
        /\ status = "reading"
    BY <1>2 DEF LosePair, ReadsRow, validationVars
  <2>2. NextRow \in Nat /\ NextRow' = NextRow
    BY <2>1 DEF NextRow, FeedInv, FirstInv
  <2>3. QED
    BY <2>1, <2>2 DEF AlarmInv
<1>3. ASSUME UNCHANGED <<market, gaps>>,
             status' \in {"called", "reading"} =>
               /\ status \in {"called", "reading"}
               /\ validation'.rows_compared = validation.rows_compared,
             validation'.first_mismatch \in {NoMismatch, validation.first_mismatch}
      PROVE  AlarmInv'
  <2>1. Seen' = Seen
    BY <1>3 DEF Seen
  <2>2. QED
    BY <1>3, <2>1 DEF AlarmInv, NextRow
<1>4. CASE CompareRow /\ UNCHANGED feedVars
  BY <1>4, CompareRowAlarm
<1>5. CASE ValidationStep /\ UNCHANGED feedVars /\ ~CompareRow
  <2>1. UNCHANGED <<market, gaps>>
    BY <1>5 DEF feedVars, exchangeVars
  <2>2. CASE ThrowOnMessage \/ ThrowOnRow
    <3>1. status' = "thrown" /\ validation' = EmptyValidation
      BY <2>2 DEF ThrowOnMessage, ThrowOnRow, Throw
    <3>2. QED
      BY <1>3, <2>1, <3>1, EmptyValidationFirst
  <2>3. CASE CallerUses \/ Start \/ ApplySubmission \/ ReturnSummary
    <3>1. /\ validation' = validation
          /\ status' \in {"called", "reading"} => status \in {"called", "reading"}
      BY <2>3 DEF CallerUses, Start, ApplySubmission, ReturnSummary, Return,
                  NewOrderMatches, NewOrderReturns, replayVars, validationVars
    <3>2. QED
      BY <1>3, <2>1, <3>1
  <2>4. QED
    BY <1>5, <2>2, <2>3 DEF ValidationStep
<1>6. CASE UNCHANGED allVars
  <2>1. UNCHANGED <<market, gaps, status, validation>>
    BY <1>6 DEF allVars, replayVars, validationVars, feedVars, exchangeVars
  <2>2. QED
    BY <1>3, <2>1
<1>7. QED
  BY <1>1, <1>2, <1>4, <1>5, <1>6 DEF FeedNext

LEMMA AlarmInvInit == FeedInit => AlarmInv
<1> SUFFICES ASSUME FeedInit PROVE AlarmInv
  OBVIOUS
<1>1. validation.first_mismatch = NoMismatch /\ validation.rows_compared = 0
  BY EmptyValidationFirst DEF FeedInit, ValidationInit
<1>2. gaps \subseteq {1}
  BY DEF FeedInit
<1>3. ASSUME gaps = {} PROVE Seen = DOMAIN market
  <2>1. market = EmptyMap
    BY <1>3 DEF FeedInit
  <2>2. QED
    BY <2>1 DEF EmptyMap, Seen
<1>4. QED
  BY <1>1, <1>2, <1>3 DEF AlarmInv, NextRow

VerdictInv == FeedInv /\ ViewInv /\ RowsInv /\ AlarmInv

LEMMA VerdictInvHolds == FeedSpec => []VerdictInv
<1>1. FeedInit => VerdictInv
  BY FeedInvInit, ViewInvInit, RowsInvInit, AlarmInvInit
  DEF FeedInit, ValidationInit, VerdictInv
<1>2. VerdictInv /\ [FeedNext]_allVars => VerdictInv'
  BY FeedInvNext, FeedIsCall, ViewInvNext, RowsInvNext, AlarmInvNext
  DEF VerdictInv, FeedInv
<1>3. QED
  BY <1>1, <1>2, PTL DEF FeedSpec

(* A mismatch of validate_lobster_replay never comes before something was  *)
(* missing, and a feed that lacks nothing ends with exit status 0.         *)
THEOREM NoAlarmIsFalse == FeedSpec => []NoFalseAlarm
<1>1. VerdictInv => NoFalseAlarm
  <2> SUFFICES ASSUME VerdictInv PROVE NoFalseAlarm
    OBVIOUS
  <2>1. validation.first_mismatch # NoMismatch =>
          \E row \in gaps : row <= validation.first_mismatch.row
    BY DEF VerdictInv, AlarmInv
  <2>2. ASSUME status = "returned", gaps = {} PROVE exit_status = 0
    <3>1. validation.mismatching_rows = 0
      BY <2>1, <2>2 DEF VerdictInv, FeedInv, FirstInv
    <3>2. QED
      BY <2>2, <3>1 DEF exit_status
  <2>3. QED
    BY <2>1, <2>2 DEF NoFalseAlarm
<1>2. QED
  BY <1>1, VerdictInvHolds, PTL
=============================================================================
