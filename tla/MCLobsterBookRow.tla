-------------------------- MODULE MCLobsterBookRow --------------------------
(* Lines of two levels whose fields are at, next to and away from every    *)
(* value the parser tests for, on one side at a time within a level; lines *)
(* of three levels of sound fields in any order; lines of other lengths.   *)
EXTENDS LobsterBookRow

MCDepths == 0 .. 5
MCEmptyAskPrice == 4
MCEmptyBidPrice == -4
MCSizeMax == 15    \* depths 4 and 5 are above a quarter of it, and wrap

Ladders == {<<p, 1>> : p \in 1 .. 3}
Plain(side) == Ladders \cup {<<EmptyPrice[side], 0>>}
AnyField == {<<p, s>> : p \in {NotAnInteger, MCEmptyBidPrice, 0, 1, 2, MCEmptyAskPrice},
                        s \in {0, 1}}
            \cup {<<1, NotAnInteger>>, <<1, -1>>}

Level(ask, bid) == ask \o bid
PlainLevels == {Level(a, b) : a \in Plain("asks"), b \in Plain("bids")}
AnyLevels == {Level(a, b) : a \in AnyField, b \in Plain("bids")}
             \cup {Level(a, b) : a \in Plain("asks"), b \in AnyField}

MCLines ==
  AnyLevels
  \cup {i \o j : i \in AnyLevels, j \in AnyLevels}
  \cup {i \o j \o k : i \in PlainLevels, j \in PlainLevels, k \in PlainLevels}
  \cup {i \o <<1>> : i \in PlainLevels}
=============================================================================
