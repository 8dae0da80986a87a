------------------------- MODULE TransitionMeaning -------------------------
(***************************************************************************)
(* What the classifications of TransitionValidation claim, said in terms   *)
(* of whole books instead of ladders: a row shows the best levels of a     *)
(* book that may go on out of sight, and a message changes that book.      *)
(***************************************************************************)
EXTENDS TransitionValidation

CONSTANTS
  BookPrices,     \* where a side of a whole book may have levels
  BookQuantities  \* what may rest there

(* What the files mention may be in a book.                                *)
ASSUME BooksAssumption ==
  /\ BookPrices \subseteq Int /\ BookQuantities \subseteq Nat \ {0}
  /\ \A row \in Rows, side \in BookSide :
       \A i \in DOMAIN row[side] : /\ row[side][i].price \in BookPrices
                                  /\ row[side][i].quantity \in BookQuantities
  /\ \A message \in Messages :
       message.type \in 1 .. 4 /\ Meaningful(message) =>
         message.price \in BookPrices /\ message.size \in BookQuantities

SideBooks == UNION {[P -> BookQuantities] : P \in SUBSET BookPrices}

(* levels is what is visible of a side of the book.                        *)
Shows(side, book, levels) ==
  LET visible == {levels[i].price : i \in DOMAIN levels}
  IN  /\ visible \subseteq DOMAIN book
      /\ \A i \in DOMAIN levels : levels[i].quantity = book[levels[i].price]
      /\ Len(levels) < depth => visible = DOMAIN book
      /\ \A p \in visible, q \in DOMAIN book \ visible : Better(side, p, q)

(* What a message makes of the side of the book it is about; nothing, when *)
(* there is not enough at its price.                                       *)
After(message, book) ==
  LET p == message.price
  IN  IF message.type = 1
      THEN IF p \in DOMAIN book THEN {[book EXCEPT ![p] = @ + message.size]}
           ELSE {[q \in DOMAIN book \cup {p} |->
                    IF q = p THEN message.size ELSE book[q]]}
      ELSE IF p \notin DOMAIN book THEN {}
      ELSE IF message.size < book[p] THEN {[book EXCEPT ![p] = @ - message.size]}
      ELSE IF message.size = book[p] THEN {Restrict(book, DOMAIN book \ {p})}
      ELSE {}

(* Some book shows the row before, and shows this row after the message.   *)
Explains(message, before, current) ==
  IF message.type = 5 THEN before = current
  ELSE LET side == SideOf(message)
           other == OppositeOf(message)
       IN  /\ before[other] = current[other]
           /\ \E book \in SideBooks :
                /\ Shows(side, book, before[side])
                /\ \E after \in After(message, book) :
                     Shows(side, after, current[side])

----------------------------------------------------------------------------
JudgedAs(class) ==
  s'.transitions_checked > s.transitions_checked /\ classification' = class

Explained == Explains(m', row_before, row_before')

(* A transition is called matching only when its message explains it.      *)
MatchingExplained == [][JudgedAs("Matching") => Explained]_vars

(* A transition is called mismatching only when no book, whatever it hides *)
(* out of sight, makes the message explain it: there is no false alarm,    *)
(* and a mismatch never spoils the judgement of a later row.               *)
MismatchUnexplained == [][JudgedAs("Mismatching") => ~Explained]_vars

(* The last visible level is what the message takes away.                  *)
TakesLastVisible ==
  LET levels == row_before[SideOf(m')]
  IN  levels # <<>> /\ m'.price = Last(levels).price

(* An unverifiable transition is at least possible, unless it takes away   *)
(* the last visible level.                                                 *)
UnverifiablePossible ==
  [][JudgedAs("Unverifiable") => Explained \/ TakesLastVisible]_vars

(* As the report of the validation run has it: "all observable known       *)
(* levels are consistent, but omitted depth prevents an exact claim".      *)
UnverifiableConsistent == [][JudgedAs("Unverifiable") => Explained]_vars
=============================================================================
