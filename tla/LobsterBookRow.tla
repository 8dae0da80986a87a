--------------------------- MODULE LobsterBookRow ---------------------------
(***************************************************************************)
(* parse_lobster_book_row: one line of a LOBSTER order-book file becomes   *)
(* the visible levels of the two sides of a book, or an exception.         *)
(*                                                                         *)
(* A line is the sequence of its fields, and a field is the integer that   *)
(* parse_book_integer reads in it or NotAnInteger when that throws.  The   *)
(* loop reads one level, four fields, per step.  All exceptions are        *)
(* std::runtime_error with different words, and are not told apart.        *)
(*                                                                         *)
(* A definition introduced by "Bug:" is not part of the model: it is what  *)
(* the one it stands before would be if the code had that bug.             *)
(***************************************************************************)
EXTENDS Integers, SequencesExt

CONSTANTS
  Depths,          \* the depths a caller may ask for
  Lines,           \* the lines it may pass
  NotAnInteger,    \* a field that is no integer of 64 bits
  kEmptyAskPrice,  \* price of an ask level that does not exist
  kEmptyBidPrice,  \* price of a bid level that does not exist
  SizeMax          \* numeric_limits<size_t>::max()

ASSUME DepthsAssumption == SizeMax \in Nat /\ Depths \subseteq 0 .. SizeMax
ASSUME NotAnIntegerAssumption == NotAnInteger \notin Int
ASSUME LinesAssumption == Lines \subseteq Seq(Int \cup {NotAnInteger}) \ {<<>>}
ASSUME SentinelsAssumption ==
  /\ kEmptyAskPrice \in Nat /\ kEmptyBidPrice \in Int
  /\ kEmptyAskPrice > 0 /\ kEmptyBidPrice < 0

VARIABLES
  depth, line,     \* the arguments
  status,          \* "called", "reading", "returned" or "thrown"
  level,           \* levels read so far, the loop's index
  row,             \* the row under construction
  sentinel_seen    \* ask_sentinel_seen and bid_sentinel_seen

vars == <<depth, line, status, level, row, sentinel_seen>>

----------------------------------------------------------------------------
BookSide == {"asks", "bids"}
Other(side) == IF side = "asks" THEN "bids" ELSE "asks"
EmptyPrice == [asks |-> kEmptyAskPrice, bids |-> kEmptyBidPrice]
Deeper(side, p, q) == IF side = "asks" THEN p > q ELSE p < q

EmptyRow == [side \in BookSide |-> <<>>]

(* split_csv_fields finds one field in an empty line, an empty one.        *)
FieldsIn(l) == IF l = <<>> THEN 1 ELSE Len(l)

(* The number of fields asked for, in size_t.                              *)
ExpectedFields(d) == (d * 4) % (SizeMax + 1)

(* What one iteration reads: price and size of each side, in file order.   *)
Price(side, i) == line[4 * i + (IF side = "asks" THEN 1 ELSE 3)]
Size(side, i) == line[4 * i + (IF side = "asks" THEN 2 ELSE 4)]

(* Bug: a level that follows a gap in the ladder is accepted.              *)
NoGapUnchecked(side) == TRUE

NoGap(side) == ~sentinel_seen[side]

(* Bug: a level with nothing in it is accepted.                            *)
SizedOrEmpty(size) == size >= 0

Sized(size) == size > 0

(* What a place must hold for the loop to go on.                           *)
Sound(side, price, size) ==
  /\ price # NotAnInteger /\ size # NotAnInteger
  /\ size >= 0
  /\ price # EmptyPrice[Other(side)]
  /\ IF price = EmptyPrice[side] THEN size = 0
     ELSE /\ price > 0
          /\ Sized(size)
          /\ NoGap(side)
          /\ row[side] # <<>> => Deeper(side, price, Last(row[side]).price)

----------------------------------------------------------------------------
Init ==
  /\ depth \in Depths
  /\ line \in Lines \cup {<<>>}
  /\ status = "called"
  /\ level = 0
  /\ row = EmptyRow
  /\ sentinel_seen = [side \in BookSide |-> FALSE]

(* Depth 0 takes an empty line only, and is done.                          *)
ReadNothing ==
  /\ status = "called"
  /\ depth = 0
  /\ status' = IF line = <<>> THEN "returned" ELSE "thrown"
  /\ UNCHANGED <<depth, line, level, row, sentinel_seen>>

(* Bug: no limit on the depth, so that the count of fields can wrap.       *)
DepthUnlimited(d) == TRUE

DepthInRange(d) == d <= SizeMax \div 4

(* Any other depth has a limit, and wants its number of fields.            *)
CheckLine ==
  /\ status = "called"
  /\ depth > 0
  /\ status' = IF DepthInRange(depth) /\ FieldsIn(line) = ExpectedFields(depth)
               THEN "reading" ELSE "thrown"
  /\ UNCHANGED <<depth, line, level, row, sentinel_seen>>

ReadLevel ==
  /\ status = "reading"
  /\ level < depth
  /\ \A side \in BookSide : Sound(side, Price(side, level), Size(side, level))
  /\ row' = [side \in BookSide |->
               IF Price(side, level) = EmptyPrice[side] THEN row[side]
               ELSE Append(row[side], [price    |-> Price(side, level),
                                       quantity |-> Size(side, level)])]
  /\ sentinel_seen' = [side \in BookSide |->
       sentinel_seen[side] \/ Price(side, level) = EmptyPrice[side]]
  /\ level' = level + 1
  /\ UNCHANGED <<depth, line, status>>

RefuseLevel ==
  /\ status = "reading"
  /\ level < depth
  /\ \E side \in BookSide : ~Sound(side, Price(side, level), Size(side, level))
  /\ status' = "thrown"
  /\ UNCHANGED <<depth, line, level, row, sentinel_seen>>

Return ==
  /\ status = "reading"
  /\ level = depth
  /\ status' = "returned"
  /\ UNCHANGED <<depth, line, level, row, sentinel_seen>>

Next == ReadNothing \/ CheckLine \/ ReadLevel \/ RefuseLevel \/ Return

Spec == Init /\ [][Next]_vars

----------------------------------------------------------------------------
(* Properties.                                                             *)

(* Types of the locals; the row holds one level at most per level read.    *)
TypeOK ==
  /\ status \in {"called", "reading", "returned", "thrown"}
  /\ level \in 0 .. depth
  /\ DOMAIN row = BookSide
  /\ \A side \in BookSide :
       /\ row[side] \in Seq([price : Nat \ {0}, quantity : Nat \ {0}])
       /\ Len(row[side]) <= level
  /\ sentinel_seen \in [BookSide -> BOOLEAN]

(* The loop never reads a field the line does not have, however large the  *)
(* depth: the number of fields asked for did not wrap around.              *)
ReadsInsideLine == status = "reading" => 4 * depth <= Len(line)

(* What a line should say, side by side: n levels with prices and sizes    *)
(* above zero, each strictly deeper in the book than the one before, and   *)
(* then only places that are marked empty.                                 *)
Ladder(side, n) ==
  /\ \A i \in 0 .. n - 1 :
       /\ Price(side, i) \in (Int \ {kEmptyAskPrice}) /\ Price(side, i) > 0
       /\ Size(side, i) \in Int /\ Size(side, i) > 0
       /\ i > 0 => Deeper(side, Price(side, i), Price(side, i - 1))
  /\ \A i \in n .. depth - 1 :
       Price(side, i) = EmptyPrice[side] /\ Size(side, i) = 0

ReadAs(side, levels) ==
  /\ Ladder(side, Len(levels))
  /\ \A i \in DOMAIN levels :
       levels[i] = [price |-> Price(side, i - 1), quantity |-> Size(side, i - 1)]

(* A line is accepted if and only if it is such a ladder on both sides,    *)
(* and the row is then what it says, level for level.                      *)
RowExact ==
  /\ status = "returned" =>
       IF depth = 0 THEN line = <<>> /\ row = EmptyRow
       ELSE /\ Len(line) = 4 * depth
            /\ \A side \in BookSide : ReadAs(side, row[side])
  /\ status = "thrown" =>
       ~ IF depth = 0 THEN line = <<>>
         ELSE /\ depth <= SizeMax \div 4
              /\ Len(line) = 4 * depth
              /\ \A side \in BookSide : \E n \in 0 .. depth : Ladder(side, n)
=============================================================================
